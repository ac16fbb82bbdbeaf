------------------------------ MODULE JobQueue ------------------------------
(***************************************************************************)
(* What the ingestion queue and its workers promise to whoever puts a job: *)
(* jobs are taken in the order they were put, a job is worked on by one    *)
(* worker, once, and never comes back.  Who the workers are, how they      *)
(* sleep, time out and die, and what they write is left to                 *)
(* IngestionWorker, which implements this module.                          *)
(***************************************************************************)
EXTENDS Sequences, Functions

CONSTANT Jobs

VARIABLES pending,   \* the jobs nobody has taken, in order
          working,   \* the jobs being worked on
          finished   \* the jobs somebody is done with, ingested or not

vars == <<pending, working, finished>>

Init == pending = <<>> /\ working = {} /\ finished = {}

Put(job) ==
  /\ job \notin Range(pending) \cup working \cup finished
  /\ pending' = Append(pending, job)
  /\ UNCHANGED <<working, finished>>

(* A worker is done with the job it has, if any, ...                       *)
Finish(done) ==
  /\ working' = working \ done
  /\ finished' = finished \cup done
  /\ UNCHANGED pending

(* ... or takes the next one as well, ...                                  *)
Take(done) ==
  /\ pending # <<>>
  /\ working' = (working \ done) \cup {Head(pending)}
  /\ finished' = finished \cup done
  /\ pending' = Tail(pending)

(* ... and may be done with that one at once.                              *)
Discard(done) ==
  /\ pending # <<>>
  /\ working' = working \ done
  /\ finished' = finished \cup done \cup {Head(pending)}
  /\ pending' = Tail(pending)

Work(done) == Finish(done) \/ Take(done) \/ Discard(done)

Next ==
  \/ \E job \in Jobs : Put(job)
  \/ Work({})
  \/ \E job \in working : Work({job})

Spec == Init /\ [][Next]_vars
=============================================================================
