---------------------------- MODULE Deploy_proofs ----------------------------
(***************************************************************************)
(* Proofs about Deploy, for any number of commits, failures and reboots.   *)
(***************************************************************************)
EXTENDS Deploy, TLAPS

(* What the host runs at each point of a script, while no script ended     *)
(* between git and docker.                                                 *)
InStep ==
  ~ skewed =>
    /\ pc \in {"idle", "record", "pull", "checkout", "gate"} => container = head /\ image = head
    /\ pc = "build" => container = image
    /\ pc = "up" => image = head

(* The record is what ran when it was written.                             *)
RecordRan == ~ skewed /\ lastGood # None => lastGood = ranBefore

(* A rollback that goes past its checkout moved HEAD to the record.        *)
RolledBack ==
  /\ script = "rollback" /\ lastGood # None =>
       \/ head = lastGood
       \/ pc = "checkout"
       \/ pc = "idle" /\ exit = "nonzero"
  /\ pc = "checkout" => script = "rollback" /\ sha = lastGood /\ lastGood # None

(* TAG_BEFORE is HEAD until the pull.                                      *)
Pulling == pc \in {"record", "pull"} => script = "update" /\ sha = head

IInv == TypeOK /\ InStep /\ RecordRan /\ RolledBack /\ Pulling

-----------------------------------------------------------------------------
(* The invariant holds once deploy.sh is done.                             *)
LEMMA InitIInv == Init => IInv
<1>1. 1 \in Commits
  BY CommitsAssumption DEF Commits
<1>2. 0 \in 0 .. MaxFailures
  BY DeployBoundsAssumption
<1> QED BY <1>1, <1>2 DEF Init, IInv, TypeOK, InStep, RecordRan, RolledBack, Pulling, None

(* The steps of update.sh, which both write the record or move HEAD along  *)
(* the branch, preserve it.                                                *)
LEMMA UpdateIInv == IInv /\ (Update \/ Record \/ Pull) => IInv'
<1> SUFFICES ASSUME IInv, Update \/ Record \/ Pull PROVE IInv'
  OBVIOUS
<1>1. CASE Update
  BY <1>1 DEF Update, IInv, TypeOK, InStep, RecordRan, RolledBack, Pulling, None
<1>2. CASE Pull
  <2> USE <1>2 DEF Pull, IInv, TypeOK, InStep, RecordRan, RolledBack, Pulling
  <2>1. CASE detached
    BY <2>1
  <2>2. CASE ~ detached /\ origin = sha
    BY <2>2
  <2>3. CASE ~ detached /\ origin # sha
    BY <2>3
  <2> QED BY <2>1, <2>2, <2>3 DEF TypeOK
<1>3. CASE Record
  BY <1>3 DEF Record, IInv, TypeOK, InStep, RecordRan, RolledBack, Pulling, None
<1> QED BY <1>1, <1>2, <1>3

(* So do rollback.sh's first steps: when HEAD moves, a build follows.      *)
LEMMA RollbackIInv == IInv /\ (Rollback \/ Checkout) => IInv'
<1> SUFFICES ASSUME IInv, Rollback \/ Checkout PROVE IInv'
  OBVIOUS
<1> USE DEF IInv, TypeOK, InStep, RecordRan, RolledBack, Pulling
<1>1. ASSUME Rollback, lastGood = None PROVE IInv'
  BY <1>1 DEF Rollback
<1>2. ASSUME Rollback, lastGood = head, lastGood # None PROVE IInv'
  BY <1>2 DEF Rollback
<1>3. ASSUME Rollback, lastGood \notin {None, head} PROVE IInv'
  BY <1>3 DEF Rollback
<1>4. ASSUME Checkout PROVE IInv'
  BY <1>4 DEF Checkout
<1> QED BY <1>1, <1>2, <1>3, <1>4

(* So do the commands both scripts end with.                               *)
LEMMA DockerIInv == IInv /\ (Build \/ Up \/ Gate) => IInv'
<1> SUFFICES ASSUME IInv, Build \/ Up \/ Gate PROVE IInv'
  OBVIOUS
<1>1. CASE Build
  BY <1>1 DEF Build, IInv, TypeOK, InStep, RecordRan, RolledBack, Pulling
<1>2. CASE Up
  BY <1>2 DEF Up, IInv, TypeOK, InStep, RecordRan, RolledBack, Pulling
<1>3. CASE Gate
  <2>1. exit' \in {"zero", "nonzero"}
    BY <1>3 DEF Gate
  <2> QED BY <1>3, <2>1 DEF Gate, IInv, TypeOK, InStep, RecordRan, RolledBack, Pulling
<1> QED BY <1>1, <1>2, <1>3

(* A script that stops after it moved HEAD is recorded in skewed, and one  *)
(* that a reboot stops once its image is built is completed by the reboot. *)
LEMMA FailureIInv == IInv /\ (Stops \/ Reboot) => IInv'
<1> SUFFICES ASSUME IInv, Stops \/ Reboot PROVE IInv'
  OBVIOUS
<1>1. failures < MaxFailures /\ failures' = failures + 1 => failures' \in 0 .. MaxFailures
  BY DeployBoundsAssumption DEF IInv, TypeOK
<1>2. CASE Stops
  BY <1>1, <1>2 DEF Stops, RecordCut, IInv, TypeOK, InStep, RecordRan, RolledBack, Pulling
<1>3. CASE Reboot
  BY <1>1, <1>3 DEF Reboot, RecordCut, IInv, TypeOK, InStep, RecordRan, RolledBack, Pulling
<1> QED BY <1>2, <1>3

(* What happens around the scripts touches neither HEAD nor docker.        *)
LEMMA AroundIInv == IInv /\ (Push \/ Probe) => IInv'
<1> SUFFICES ASSUME IInv, Push \/ Probe PROVE IInv'
  OBVIOUS
<1>1. CASE Push
  BY <1>1, CommitsAssumption DEF Push, IInv, TypeOK, InStep, RecordRan, RolledBack, Pulling, Commits
<1>2. CASE Probe
  BY <1>2 DEF Probe, IInv, TypeOK, InStep, RecordRan, RolledBack, Pulling
<1> QED BY <1>1, <1>2

LEMMA StepIInv == IInv /\ [Next]_vars => IInv'
<1> SUFFICES ASSUME IInv, [Next]_vars PROVE IInv'
  OBVIOUS
<1>1. CASE Next
  BY <1>1, UpdateIInv, RollbackIInv, DockerIInv, FailureIInv, AroundIInv DEF Next
<1>2. CASE UNCHANGED vars
  BY <1>2 DEF vars, IInv, TypeOK, InStep, RecordRan, RolledBack, Pulling
<1> QED BY <1>1, <1>2

LEMMA Invariance == Spec => []IInv
BY InitIInv, StepIInv, PTL DEF Spec

-----------------------------------------------------------------------------
(* Every reachable state is well typed: no script checks out or starts a   *)
(* commit nobody pushed.                                                   *)
THEOREM TypeCorrect == Spec => []TypeOK
<1>1. IInv => TypeOK
  BY DEF IInv
<1> QED BY <1>1, Invariance, PTL

(* Between scripts the host runs what is checked out.                      *)
THEOREM RunsWhatIsCheckedOutThm == Spec => []RunsWhatIsCheckedOut
<1>1. IInv => RunsWhatIsCheckedOut
  BY DEF IInv, InStep, RunsWhatIsCheckedOut
<1> QED BY <1>1, Invariance, PTL

(* A rollback brings back what ran when the record was written, or says by *)
(* its exit code that it did not.                                          *)
THEOREM RollbackUndoesUpdateThm == Spec => []RollbackUndoesUpdate
<1>1. IInv => RollbackUndoesUpdate
  BY DEF IInv, InStep, RecordRan, RolledBack, RollbackUndoesUpdate
<1> QED BY <1>1, Invariance, PTL
=============================================================================
