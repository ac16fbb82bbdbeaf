------------------------- MODULE Initializer_proofs -------------------------
(* Theorems about Initializer, for any files and slugs and any number of   *)
(* runs that stop early.                                                   *)
EXTENDS Initializer, TLAPS

(* What has been stamped: a walk's files but those it has before it, and   *)
(* everything once a run got past substitute; only ever with an answer.    *)
Stamped ==
  /\ \A f \in Forms : stamp[f] \in answers \cup {"placeholder"}
  /\ pc = "substitute" => \A f \in Forms \ left : stamp[f] # "placeholder"
  /\ pc \in {"imports", "git", "init", "delete"} \/ ~ script =>
       \A f \in Forms : stamp[f] # "placeholder"

(* How far the renaming is, and where its name comes from.                 *)
Renamed ==
  /\ package \in answers \cup {"sample"}
  /\ pc # "off" => script /\ slug \in answers
  /\ pc \in {"imports", "git", "init", "delete"} => (package = "sample" => slug = "sample")
  /\ ~ script => (package = "sample" => "sample" \in answers)

(* The imports follow the package but for the files a walk has before it.  *)
Patched ==
  "imports" \notin stopped =>
    /\ pc # "imports" => \A f \in Sources : imports[f] = package
    /\ pc = "imports" =>
         /\ package = slug
         /\ \A f \in Sources : imports[f] = IF f \in left THEN "sample" ELSE slug

GitReset == pc = "delete" \/ ~ script => git = "fresh"

IInv == TypeOK /\ Stamped /\ Renamed /\ Patched /\ GitReset

LEMMA InitInv == Init => IInv
  BY SlugsAssumption
  DEF Init, IInv, TypeOK, Phases, Stamped, Renamed, Patched, GitReset

LEMMA StopInv ==
  ASSUME IInv, pc # "off", Stop(Phase)
  PROVE  IInv'
<1>0. Phase \in Phases
  BY DEF IInv, TypeOK, Phases, Phase
<1>1. TypeOK'
  BY <1>0 DEF IInv, TypeOK, Stop, Phases
<1>2. Stamped' /\ Renamed' /\ GitReset'
  BY DEF IInv, TypeOK, Stop, Phases, Stamped, Renamed, GitReset
<1>3. Patched'
  BY DEF IInv, TypeOK, Stop, Phases, Phase, Patched
<1>. QED BY <1>1, <1>2, <1>3 DEF IInv

(* The step of a run that renames the package.                             *)
LEMMA RenameInv == ASSUME IInv, RenamePackage PROVE IInv'
<1>. USE SlugsAssumption DEF IInv
<1>1. CASE (package # "sample" \/ slug = "sample") /\ pc' = "git"
           /\ UNCHANGED <<stamp, imports, package, others, git, script, slug, left, answers, stopped>>
  <2>1. TypeOK'
    BY <1>1 DEF RenamePackage, TypeOK, Phases
  <2>2. Stamped' /\ Renamed' /\ Patched' /\ GitReset'
    BY <1>1 DEF RenamePackage, TypeOK, Stamped, Renamed, Patched, GitReset
  <2>. QED BY <2>1, <2>2
<1>2. CASE Stop("substitute")
  BY <1>2, StopInv DEF RenamePackage, Phase
<1>3. CASE /\ package = "sample" /\ slug # "sample" /\ slug \notin others
           /\ package' = slug /\ pc' = "imports" /\ left' = Sources
           /\ UNCHANGED <<stamp, imports, others, git, script, slug, answers, stopped>>
  <2>1. TypeOK'
    BY <1>3 DEF RenamePackage, TypeOK, Phases
  <2>2. Stamped' /\ Renamed' /\ GitReset'
    BY <1>3 DEF RenamePackage, TypeOK, Stamped, Renamed, GitReset
  <2>3. Patched'
    BY <1>3 DEF RenamePackage, TypeOK, Patched
  <2>. QED BY <2>1, <2>2, <2>3
<1>. QED BY <1>1, <1>2, <1>3 DEF RenamePackage

LEMMA StepInv == IInv /\ [Next]_vars => IInv'
<1>. SUFFICES ASSUME IInv, [Next]_vars PROVE IInv'
  OBVIOUS
<1>. USE SlugsAssumption DEF IInv
<1>1. CASE \E s \in Slugs : GatherAnswers(s)
  <2>. PICK s \in Slugs : GatherAnswers(s) BY <1>1
  <2>1. TypeOK'
    BY DEF GatherAnswers, TypeOK, Phases
  <2>2. Stamped' /\ Renamed' /\ Patched' /\ GitReset'
    BY DEF GatherAnswers, TypeOK, Stamped, Renamed, Patched, GitReset
  <2>. QED BY <2>1, <2>2
<1>2. CASE \E f \in Forms : Substitute(f)
  <2>. PICK f \in Forms : Substitute(f) BY <1>2
  <2>1. TypeOK'
    BY DEF Substitute, TypeOK, Phases
  <2>2. Stamped'
    BY DEF Substitute, TypeOK, Stamped, Renamed
  <2>3. Renamed' /\ Patched' /\ GitReset'
    BY DEF Substitute, TypeOK, Renamed, Patched, GitReset
  <2>. QED BY <2>1, <2>2, <2>3
<1>3. CASE RenamePackage
  BY <1>3, RenameInv
<1>4. CASE \E f \in Sources : RewriteImports(f)
  <2>. PICK f \in Sources : RewriteImports(f) BY <1>4
  <2>1. TypeOK'
    BY DEF RewriteImports, TypeOK, Phases
  <2>2. Patched'
    BY DEF RewriteImports, TypeOK, Patched, Renamed
  <2>3. Stamped' /\ Renamed' /\ GitReset'
    BY DEF RewriteImports, TypeOK, Stamped, Renamed, GitReset
  <2>. QED BY <2>1, <2>2, <2>3
<1>5. CASE RemoveGit
  <2>1. TypeOK'
    BY <1>5 DEF RemoveGit, Phase, TypeOK, Phases
  <2>2. Stamped' /\ Renamed' /\ GitReset'
    BY <1>5 DEF RemoveGit, Phase, TypeOK, Stamped, Renamed, GitReset
  <2>3. Patched'
    BY <1>5 DEF RemoveGit, Phase, TypeOK, Patched
  <2>. QED BY <2>1, <2>2, <2>3
<1>6. CASE InitGit
  BY <1>6 DEF InitGit, TypeOK, Phases, Stamped, Renamed, Patched, GitReset
<1>7. CASE SelfDestruct
  BY <1>7 DEF SelfDestruct, TypeOK, Phases, Stamped, Renamed, Patched, GitReset
<1>8. CASE pc # "off" /\ Stop(Phase)
  BY <1>8, StopInv
<1>9. CASE \E d \in Slugs : RemoveDirectory(d)
  BY <1>9 DEF RemoveDirectory, TypeOK, Phases, Stamped, Renamed, Patched, GitReset
<1>10. CASE UNCHANGED vars
  BY <1>10 DEF vars, TypeOK, Phases, Stamped, Renamed, Patched, GitReset
<1>. QED BY <1>1, <1>2, <1>3, <1>4, <1>5, <1>6, <1>7, <1>8, <1>9, <1>10 DEF Next, Run

LEMMA InvHolds == Spec => []IInv
  BY InitInv, StepInv, PTL DEF Spec

(* The script is never in two walks at once, and never past its end.       *)
THEOREM TypeCorrect == Spec => []TypeOK
<1>1. IInv => TypeOK BY DEF IInv
<1>. QED BY <1>1, InvHolds, PTL

(* However often runs stopped before, the script deletes itself only from  *)
(* a finished project.                                                     *)
THEOREM DestroyedMeansDoneThm == Spec => []DestroyedMeansDone
<1>1. IInv => DestroyedMeansDone BY DEF IInv, Stamped, Renamed, GitReset, DestroyedMeansDone
<1>. QED BY <1>1, InvHolds, PTL

(* Only a run that stops with imports still to patch leaves a broken one.  *)
THEOREM OnlyPatchingBreaksImportsThm == Spec => []OnlyPatchingBreaksImports
<1>1. IInv => OnlyPatchingBreaksImports BY DEF IInv, Patched, OnlyPatchingBreaksImports
<1>. QED BY <1>1, InvHolds, PTL

(* Runs that stopped anywhere else are repaired by a run with the same     *)
(* answers.                                                                *)
THEOREM SameAnswersConvergeThm == Spec => []SameAnswersConverge
<1>1. IInv => SameAnswersConverge
  <2>. SUFFICES ASSUME IInv, ~ script, "imports" \notin stopped, NEW s \in Slugs, answers = {s}
                PROVE  package = s /\ (\A f \in Forms : stamp[f] = s) /\ \A f \in Sources : imports[f] = s
    BY DEF SameAnswersConverge
  <2>1. pc # "imports" /\ package = s
    BY DEF IInv, Renamed
  <2>. QED BY <2>1 DEF IInv, Stamped, Patched
<1>. QED BY <1>1, InvHolds, PTL
=============================================================================
