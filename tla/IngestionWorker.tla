-------------------------- MODULE IngestionWorker --------------------------
(***************************************************************************)
(* The ingestion workers (src/services/preprocessor/worker.py): coroutines *)
(* that share one IngestionQueue, an asyncio.Queue.  A daemon runs         *)
(* run_forever, a drainer runs drain.  Each takes a job, has the           *)
(* preprocessor extract the chunks of its file and write a fact per chunk  *)
(* to Hindsight, and marks the job done.                                   *)
(*                                                                         *)
(* Workers interleave where they await: a daemon on an empty queue, with a *)
(* timeout, and every worker on the extractor.  Everything between two     *)
(* awaits is one action; in particular Queue.get does not suspend on a     *)
(* queue that holds a job, and add_fact is not a coroutine at all.         *)
(***************************************************************************)
EXTENDS Integers, FiniteSets, SequencesExt

CONSTANTS Jobs,         \* ingestion jobs, each put once
          Chunks,       \* how many chunks each job's file has
          Unsupported,  \* jobs whose extension has no extractor
          NoJob,        \* a worker has no job in hand
          Daemons,      \* workers that run run_forever
          Drainers,     \* workers that run drain
          Heeding,      \* drainers that were given the stop event
          MaxFailures   \* bound: files that cannot be read, failed inserts

ASSUME JobsAssumption ==
  Chunks \in [Jobs -> Nat] /\ Unsupported \subseteq Jobs /\ NoJob \notin Jobs
ASSUME WorkersAssumption ==
  Heeding \subseteq Drainers /\ Daemons \cap Drainers = {} /\ IsFiniteSet(Daemons \cup Drainers)
ASSUME MaxFailuresAssumption == MaxFailures \in Nat

Workers == Daemons \cup Drainers

Fact == [job : Jobs, chunk : Nat]

VARIABLES
  queue,       \* the jobs in the queue
  getters,     \* daemons that sleep in Queue.get, in order
  unfinished,  \* the queue's count of unfinished tasks
  stop,        \* the stop event
  pc,          \* where each worker is suspended, or how it ended
  hand,        \* the job each worker processes
  facts,       \* the facts in Hindsight, in order
  conn,        \* the database connection of PostgresHindsight
  puts,        \* history: jobs put, in order
  taken,       \* history: jobs taken, in order
  completed,   \* history: jobs processed to the end
  failures     \* failures so far

vars == <<queue, getters, unfinished, stop, pc, hand, facts, conn,
          puts, taken, completed, failures>>

TypeOK ==
  /\ queue \in Seq(Jobs)
  /\ getters \in Seq(Daemons)
  /\ unfinished \in Nat
  /\ stop \in BOOLEAN
  /\ pc \in [Workers -> {"idle", "waiting", "woken", "extracting", "done", "dead"}]
  /\ hand \in [Workers -> Jobs \cup {NoJob}]
  /\ \A w \in Workers : pc[w] = "extracting" <=> hand[w] # NoJob
  /\ facts \in Seq(Fact)
  /\ conn \in {"ok", "aborted"}
  /\ puts \in Seq(Jobs)
  /\ taken \in Seq(Jobs)
  /\ completed \subseteq Jobs
  /\ failures \in 0 .. MaxFailures

Init ==
  /\ queue = <<>>
  /\ getters = <<>>
  /\ unfinished = 0
  /\ stop = FALSE
  /\ pc = [w \in Workers |-> "idle"]
  /\ hand = [w \in Workers |-> NoJob]
  /\ facts = <<>>
  /\ conn = "ok"
  /\ puts = <<>>
  /\ taken = <<>>
  /\ completed = {}
  /\ failures = 0

-----------------------------------------------------------------------------
(* The loops.  The turn of a worker starts from the count, the getters and *)
(* the places that the earlier part of the same step left.                 *)

(* get on a queue that holds a job.  The preprocessor raises before its    *)
(* first await when no extractor fits: task_done, and the worker dies.     *)
Take(w, count, gs, at) ==
  LET job == Head(queue) IN
  /\ queue' = Tail(queue)
  /\ taken' = Append(taken, job)
  /\ getters' = gs
  /\ IF job \in Unsupported
     THEN /\ pc' = [at EXCEPT ![w] = "dead"]
          /\ hand' = [hand EXCEPT ![w] = NoJob]
          /\ unfinished' = count - 1
     ELSE /\ pc' = [at EXCEPT ![w] = "extracting"]
          /\ hand' = [hand EXCEPT ![w] = job]
          /\ unfinished' = count

(* get on an empty queue.                                                  *)
Sleep(w, count, gs, at) ==
  /\ pc' = [at EXCEPT ![w] = "waiting"]
  /\ getters' = Append(gs, w)
  /\ hand' = [hand EXCEPT ![w] = NoJob]
  /\ unfinished' = count
  /\ UNCHANGED <<queue, taken>>

(* A defective loop head that does not look at the stop event.             *)
Ends_NeverStops(w) == w \notin Daemons /\ queue = <<>>

(* The condition that ends a loop: run_forever's and drain's.              *)
Ends(w) ==
  IF w \in Daemons THEN stop ELSE queue = <<>> \/ (stop /\ w \in Heeding)

(* The head of the loop, up to the next await or the end.                  *)
Turn(w, count, gs, at) ==
  \/ /\ Ends(w)
     /\ pc' = [at EXCEPT ![w] = "done"]
     /\ hand' = [hand EXCEPT ![w] = NoJob]
     /\ unfinished' = count
     /\ getters' = gs
     /\ UNCHANGED <<queue, taken>>
  \/ ~ Ends(w) /\ queue # <<>> /\ Take(w, count, gs, at)
  \/ ~ Ends(w) /\ queue = <<>> /\ Sleep(w, count, gs, at)

Start(w) ==
  /\ pc[w] = "idle"
  /\ Turn(w, unfinished, getters, pc)
  /\ UNCHANGED <<stop, facts, conn, puts, completed, failures>>

-----------------------------------------------------------------------------
(* The queue.                                                              *)

(* The first sleeping daemon, if any, will resume.                         *)
Woken == IF getters = <<>> THEN pc ELSE [pc EXCEPT ![Head(getters)] = "woken"]
Others == IF getters = <<>> THEN getters ELSE Tail(getters)

(* put: the queue is unbounded.                                            *)
Put(job) ==
  /\ job \notin Range(puts)
  /\ puts' = Append(puts, job)
  /\ queue' = Append(queue, job)
  /\ unfinished' = unfinished + 1
  /\ pc' = Woken
  /\ getters' = Others
  /\ UNCHANGED <<stop, hand, facts, conn, taken, completed, failures>>

(* A woken daemon resumes inside get: another worker may have taken the    *)
(* job in the meantime, and then the daemon sleeps on.                     *)
Resume(d) ==
  /\ pc[d] = "woken"
  /\ IF queue = <<>> THEN Sleep(d, unfinished, getters, pc) ELSE Take(d, unfinished, getters, pc)
  /\ UNCHANGED <<stop, facts, conn, puts, completed, failures>>

(* A defective handler of the timeout that leaves the loop.                *)
Timeout_Breaks(d) ==
  /\ pc[d] \in {"waiting", "woken"}
  /\ pc' = [pc EXCEPT ![d] = "done"]
  /\ getters' = Remove(getters, d)
  /\ UNCHANGED <<queue, unfinished, stop, hand, facts, conn, puts, taken, completed, failures>>

(* wait_for times out, also while a put has just woken the daemon: the job *)
(* stays in the queue and get passes the wake-up on.  The loop continues.  *)
Timeout(d) ==
  /\ \/ /\ pc[d] = "waiting"
        /\ \E i \in 1 .. Len(getters) :
             getters[i] = d /\ Turn(d, unfinished, RemoveAt(getters, i), pc)
     \/ /\ pc[d] = "woken"
        /\ IF queue = <<>> THEN Turn(d, unfinished, getters, pc)
                           ELSE Turn(d, unfinished, Others, Woken)
  /\ UNCHANGED <<stop, facts, conn, puts, completed, failures>>

SetStop ==
  /\ ~ stop
  /\ stop' = TRUE
  /\ UNCHANGED <<queue, getters, unfinished, pc, hand, facts, conn, puts, taken, completed, failures>>

-----------------------------------------------------------------------------
(* Processing.                                                             *)

(* The facts of a job's first n chunks.                                    *)
FactsOf(job, n) == [k \in 1 .. n |-> [job |-> job, chunk |-> k]]

(* process returns: every chunk became a fact, and the loop goes on.       *)
Completes(w) ==
  LET job == hand[w] IN
  /\ pc[w] = "extracting"
  /\ conn = "ok" \/ Chunks[job] = 0
  /\ facts' = facts \o FactsOf(job, Chunks[job])
  /\ completed' = completed \cup {job}
  /\ Turn(w, unfinished - 1, getters, pc)
  /\ UNCHANGED <<stop, conn, puts, failures>>

(* A defective exit that forgets task_done.                                *)
Dies_NotDone(w) ==
  /\ pc' = [pc EXCEPT ![w] = "dead"]
  /\ hand' = [hand EXCEPT ![w] = NoJob]
  /\ UNCHANGED <<queue, getters, unfinished, stop, puts, taken, completed>>

(* A defective exit that puts the job back for another worker.             *)
Dies_Requeues(w) ==
  /\ pc' = [pc EXCEPT ![w] = "dead"]
  /\ hand' = [hand EXCEPT ![w] = NoJob]
  /\ queue' = Append(queue, hand[w])
  /\ UNCHANGED <<getters, unfinished, stop, puts, taken, completed>>

(* A defective exit that calls task_done in the handler and in finally.    *)
Dies_DoneTwice(w) ==
  /\ pc' = [pc EXCEPT ![w] = "dead"]
  /\ hand' = [hand EXCEPT ![w] = NoJob]
  /\ unfinished' = unfinished - 2
  /\ UNCHANGED <<queue, getters, stop, puts, taken, completed>>

(* process raises: task_done, and the exception leaves the loop.           *)
Dies(w) ==
  /\ pc' = [pc EXCEPT ![w] = "dead"]
  /\ hand' = [hand EXCEPT ![w] = NoJob]
  /\ unfinished' = unfinished - 1
  /\ UNCHANGED <<queue, getters, stop, puts, taken, completed>>

(* The file cannot be read.                                                *)
ExtractFails(w) ==
  /\ pc[w] = "extracting"
  /\ failures < MaxFailures
  /\ failures' = failures + 1
  /\ Dies(w)
  /\ UNCHANGED <<facts, conn>>

(* A defective error path that writes the facts not written before.        *)
InsertFails_WritesRest(w) ==
  LET job == hand[w] IN
  /\ pc[w] = "extracting"
  /\ conn = "ok"
  /\ failures < MaxFailures
  /\ failures' = failures + 1
  /\ \E k \in 1 .. Chunks[job] :
       facts' = facts \o SubSeq(FactsOf(job, Chunks[job]), k + 1, Chunks[job])
  /\ conn' \in {"ok", "aborted"}
  /\ Dies(w)

(* The fact of chunk k is not written; the facts before it are committed   *)
(* and stay.  A failed execute leaves the transaction aborted, for nothing *)
(* rolls it back; a failed commit does not.                                *)
InsertFails(w) ==
  LET job == hand[w] IN
  /\ pc[w] = "extracting"
  /\ conn = "ok"
  /\ failures < MaxFailures
  /\ failures' = failures + 1
  /\ \E k \in 1 .. Chunks[job] : facts' = facts \o FactsOf(job, k - 1)
  /\ conn' \in {"ok", "aborted"}
  /\ Dies(w)

(* On a connection left in an aborted transaction every insert fails.      *)
InsertRefused(w) ==
  /\ pc[w] = "extracting"
  /\ conn = "aborted" /\ Chunks[hand[w]] > 0
  /\ Dies(w)
  /\ UNCHANGED <<facts, conn, failures>>

-----------------------------------------------------------------------------
Process(w) == Completes(w) \/ ExtractFails(w) \/ InsertFails(w) \/ InsertRefused(w)

Next ==
  \/ \E job \in Jobs : Put(job)
  \/ \E w \in Workers : Start(w) \/ Process(w)
  \/ \E d \in Daemons : Resume(d) \/ Timeout(d)
  \/ SetStop

Spec == Init /\ [][Next]_vars

(* Daemons are started, coroutines that can run do, extractors return or   *)
(* raise, and the timeout of wait_for fires.  Nobody has to put a job, to  *)
(* set the stop event or to start a drainer.                               *)
Fairness ==
  /\ \A w \in Workers : WF_vars(Process(w))
  /\ \A d \in Daemons : WF_vars(Start(d)) /\ WF_vars(Resume(d) \/ Timeout(d))

FairSpec == Spec /\ Fairness

-----------------------------------------------------------------------------
(* Properties.                                                             *)

(* The queue's count of unfinished tasks, which join waits for, is what is *)
(* queued or being processed, also after workers died.                     *)
UnfinishedCounts ==
  unfinished = Len(queue) + Cardinality({w \in Workers : pc[w] = "extracting"})

(* Workers take the jobs in the order they were put, each once, although   *)
(* daemons time out while they are woken and drainers take their jobs.     *)
TakenInOrder == taken \o queue = puts

(* The places of a job's facts in Hindsight.                               *)
PlacesOf(job) == {i \in DOMAIN facts : facts[i].job = job}

(* The facts of a job are its first chunks, in order and without           *)
(* repetition: all of them once it is completed, none before it is taken.  *)
FactsAreAPrefix ==
  \A job \in Jobs :
    /\ \A k \in PlacesOf(job) : facts[k].chunk = Cardinality({i \in PlacesOf(job) : i <= k})
    /\ Cardinality(PlacesOf(job)) <= Chunks[job]
    /\ job \in completed => Cardinality(PlacesOf(job)) = Chunks[job]
    /\ PlacesOf(job) # {} => job \in Range(taken)

(* A job that is put is taken, unless stop is set or every daemon died of  *)
(* an exception.                                                           *)
JobsAreTaken ==
  \A job \in Jobs :
    job \in Range(puts) ~>
      job \in Range(taken) \/ stop \/ \A d \in Daemons : pc[d] = "dead"

(* Once stop is set every daemon comes to an end, whether it sleeps, is    *)
(* woken or processes a job.                                               *)
StopEndsDaemons == stop ~> \A d \in Daemons : pc[d] \in {"done", "dead"}
-----------------------------------------------------------------------------
(* The jobs some worker has in hand.                                       *)
InHand == {hand[w] : w \in Workers} \ {NoJob}

Queue == INSTANCE JobQueue
  WITH pending <- queue, working <- InHand, finished <- Range(taken) \ InHand

(* Whoever puts a job may think of a plain queue (module JobQueue): no two *)
(* workers have one job, and no job comes back, although workers sleep,    *)
(* time out while they are woken, and die of exceptions with jobs in hand. *)
ImplementsJobQueue == Queue!Spec
=============================================================================
