----------------------- MODULE IngestionWorker_proofs -----------------------
(***************************************************************************)
(* Theorems about IngestionWorker, for any jobs, daemons and drainers.     *)
(***************************************************************************)
EXTENDS IngestionWorker, SequenceTheorems, FiniteSetTheorems, TLAPS

Places == {"idle", "waiting", "woken", "extracting", "done", "dead"}

Busy(at) == {w \in Workers : at[w] = "extracting"}

(* The sleeping daemons, each once: waking the first one disturbs neither  *)
(* the others nor a worker that processes a job.                           *)
Sleepers(gs, at) ==
  /\ gs \in Seq(Daemons)
  /\ \A i \in 1 .. Len(gs) : at[gs[i]] = "waiting"
  /\ \A i, j \in 1 .. Len(gs) : gs[i] = gs[j] => i = j

IInv ==
  /\ TypeOK
  /\ Sleepers(getters, pc)
  /\ TakenInOrder
  /\ UnfinishedCounts
-----------------------------------------------------------------------------
(* Sequences of distinct elements.                                         *)

(* A queue of sleepers without its first one.                              *)
LEMMA TailSleepers ==
  ASSUME NEW gs, NEW at, Sleepers(gs, at), gs # <<>>
  PROVE  /\ Head(gs) \in Daemons
         /\ at[Head(gs)] = "waiting"
         /\ Sleepers(Tail(gs), at)
         /\ \A i \in 1 .. Len(Tail(gs)) : Tail(gs)[i] # Head(gs)
<1>1. /\ Len(gs) \in Nat
      /\ Head(gs) \in Daemons /\ Tail(gs) \in Seq(Daemons)
      /\ Len(Tail(gs)) = Len(gs) - 1
      /\ \A i \in 1 .. Len(Tail(gs)) : Tail(gs)[i] = gs[i + 1]
  BY HeadTailProperties, LenProperties DEF Sleepers
<1>2. Len(gs) >= 1 /\ Head(gs) = gs[1]
  BY <1>1, EmptySeq DEF Sleepers
<1>3. \A i \in 1 .. Len(Tail(gs)) : i + 1 \in 1 .. Len(gs) /\ i + 1 # 1
  BY <1>1
<1>4. \A i, j \in 1 .. Len(Tail(gs)) : Tail(gs)[i] = Tail(gs)[j] => i = j
  <2>1. TAKE i, j \in 1 .. Len(Tail(gs))
  <2>2. HAVE Tail(gs)[i] = Tail(gs)[j]
  <2>3. i + 1 = j + 1
    BY <1>1, <1>3, <2>2 DEF Sleepers
  <2>4. QED
    BY <1>1, <2>3
<1>5. QED
  BY <1>1, <1>2, <1>3, <1>4 DEF Sleepers

(* A queue of sleepers with one more.                                      *)
LEMMA AppendSleepers ==
  ASSUME NEW gs, NEW at, NEW d \in Daemons, Sleepers(gs, at),
         at[d] = "waiting", \A i \in 1 .. Len(gs) : gs[i] # d
  PROVE  Sleepers(Append(gs, d), at)
<1> DEFINE n == Len(gs)
           hs == Append(gs, d)
<1>1. /\ n \in Nat
      /\ hs \in Seq(Daemons) /\ Len(hs) = n + 1
      /\ \A i \in 1 .. n : hs[i] = gs[i]
      /\ hs[n + 1] = d
  BY AppendProperties, LenProperties DEF Sleepers
<1> HIDE DEF hs
<1>2. \A i \in 1 .. n + 1 : i \in 1 .. n \/ i = n + 1
  BY <1>1
<1>3. \A i \in 1 .. n + 1 : at[hs[i]] = "waiting"
  BY <1>1, <1>2 DEF Sleepers
<1>4. \A i, j \in 1 .. n + 1 : hs[i] = hs[j] => i = j
  BY <1>1, <1>2 DEF Sleepers
<1>5. Sleepers(hs, at)
  BY <1>1, <1>3, <1>4 DEF Sleepers
<1>6. QED
  BY <1>5 DEF hs

(* A queue of sleepers without the one at place i.                         *)
LEMMA RemoveSleeper ==
  ASSUME NEW gs, NEW at, Sleepers(gs, at), NEW i \in 1 .. Len(gs)
  PROVE  /\ Sleepers(RemoveAt(gs, i), at)
         /\ \A j \in 1 .. Len(RemoveAt(gs, i)) : RemoveAt(gs, i)[j] # gs[i]
<1> DEFINE n == Len(gs)
           a == SubSeq(gs, 1, i - 1)
           b == SubSeq(gs, i + 1, n)
           hs == RemoveAt(gs, i)
           old(j) == IF j < i THEN j ELSE j + 1
<1>1. n \in Nat /\ i \in Nat /\ gs \in Seq(Daemons)
  BY LenProperties DEF Sleepers
<1>2. a \in Seq(Daemons) /\ Len(a) = i - 1 /\ \A j \in 1 .. i - 1 : a[j] = gs[j]
  <2>1. \A j \in 1 .. i - 1 : gs[j] \in Daemons
    BY <1>1, ElementOfSeq
  <2>2. QED
    BY <1>1, <2>1, SubSeqProperties
<1>3. b \in Seq(Daemons) /\ Len(b) = n - i /\ \A j \in 1 .. n - i : b[j] = gs[j + i]
  <2>1. \A j \in i + 1 .. n : gs[j] \in Daemons
    BY <1>1, ElementOfSeq
  <2>2. /\ b \in Seq(Daemons)
        /\ Len(b) = IF i + 1 <= n THEN n - (i + 1) + 1 ELSE 0
        /\ \A j \in 1 .. n - (i + 1) + 1 : b[j] = gs[i + 1 + j - 1]
    BY <1>1, <2>1, SubSeqProperties
  <2>3. QED
    BY <1>1, <2>2
<1>4. hs = a \o b
  BY DEF RemoveAt
<1> HIDE DEF a, b, hs
<1>5. /\ hs \in Seq(Daemons)
      /\ Len(hs) = n - 1
      /\ \A j \in 1 .. n - 1 : hs[j] = gs[old(j)]
  <2>1. /\ a \o b \in Seq(Daemons)
        /\ Len(a \o b) = Len(a) + Len(b)
        /\ \A j \in 1 .. Len(a) + Len(b) :
             (a \o b)[j] = IF j <= Len(a) THEN a[j] ELSE b[j - Len(a)]
    BY <1>2, <1>3, ConcatProperties
  <2>2. Len(a) + Len(b) = n - 1
    BY <1>1, <1>2, <1>3
  <2>3. ASSUME NEW j \in 1 .. n - 1 PROVE hs[j] = gs[old(j)]
    <3>1. CASE j < i
      BY <1>1, <1>2, <1>4, <2>1, <2>2, <3>1
    <3>2. CASE ~ (j < i)
      <4>1. j - Len(a) \in 1 .. n - i /\ (j - Len(a)) + i = j + 1 /\ ~ (j <= Len(a))
        BY <1>1, <1>2, <3>2
      <4>2. hs[j] = b[j - Len(a)]
        BY <1>4, <2>1, <2>2, <4>1
      <4>3. QED
        BY <1>3, <3>2, <4>1, <4>2
    <3>3. QED
      BY <3>1, <3>2
  <2>4. QED
    BY <1>4, <2>1, <2>2, <2>3
<1>6. \A j \in 1 .. n - 1 : old(j) \in 1 .. n /\ old(j) # i
  BY <1>1
<1>7. \A j, k \in 1 .. n - 1 : old(j) = old(k) => j = k
  BY <1>1
<1> HIDE DEF old
<1>8. Sleepers(hs, at)
  BY <1>5, <1>6, <1>7 DEF Sleepers
<1>9. \A j \in 1 .. Len(hs) : hs[j] # gs[i]
  BY <1>5, <1>6 DEF Sleepers
<1>10. QED
  BY <1>8, <1>9 DEF hs

(* Taking the first job of the queue moves it to the end of the taken.     *)
LEMMA TakeFirst ==
  ASSUME NEW S, NEW t \in Seq(S), NEW q \in Seq(S), q # <<>>
  PROVE  /\ Head(q) \in S
         /\ Tail(q) \in Seq(S)
         /\ Append(t, Head(q)) \in Seq(S)
         /\ Append(t, Head(q)) \o Tail(q) = t \o q
         /\ Len(q) = Len(Tail(q)) + 1
<1>1. Head(q) \in S /\ Tail(q) \in Seq(S) /\ Len(Tail(q)) = Len(q) - 1 /\ Len(q) \in Nat
  BY HeadTailProperties, LenProperties
<1>2. <<Head(q)>> \in Seq(S)
  BY <1>1
<1>3. Append(t, Head(q)) = t \o <<Head(q)>>
  BY <1>1, AppendIsConcat
<1>4. <<Head(q)>> \o Tail(q) = q
  BY <1>1
<1>5. (t \o <<Head(q)>>) \o Tail(q) = t \o (<<Head(q)>> \o Tail(q))
  BY <1>1, <1>2, ConcatAssociative
<1>6. Append(t, Head(q)) \in Seq(S)
  BY <1>1, AppendProperties
<1>7. QED
  BY <1>1, <1>3, <1>4, <1>5, <1>6
-----------------------------------------------------------------------------
(* The loop's turn.                                                        *)

(* What the earlier part of a step leaves to the turn of worker w.         *)
BeforeTurn(w, count, gs, at) ==
  /\ at \in [Workers -> Places]
  /\ Sleepers(gs, at)
  /\ \A i \in 1 .. Len(gs) : gs[i] # w
  /\ \A v \in Workers \ {w} : at[v] = "extracting" <=> hand[v] # NoJob
  /\ count = Len(queue) + Cardinality(Busy(at) \ {w})

(* The part of the invariant that the turn is responsible for.             *)
AfterTurn ==
  /\ pc \in [Workers -> Places]
  /\ hand \in [Workers -> Jobs \cup {NoJob}]
  /\ \A v \in Workers : pc[v] = "extracting" <=> hand[v] # NoJob
  /\ queue \in Seq(Jobs) /\ taken \in Seq(Jobs)
  /\ taken \o queue = puts
  /\ Sleepers(getters, pc)
  /\ unfinished = Len(queue) + Cardinality(Busy(pc))

(* Moving one worker to a place changes the number of busy workers as told.*)
LEMMA BusyAfter ==
  ASSUME NEW w \in Workers, NEW at \in [Workers -> Places], NEW place \in Places
  PROVE  /\ Cardinality(Busy(at) \ {w}) \in Nat
         /\ place = "extracting" =>
              Cardinality(Busy([at EXCEPT ![w] = place])) = Cardinality(Busy(at) \ {w}) + 1
         /\ place # "extracting" =>
              Cardinality(Busy([at EXCEPT ![w] = place])) = Cardinality(Busy(at) \ {w})
<1> DEFINE others == Busy(at) \ {w}
           after  == Busy([at EXCEPT ![w] = place])
<1>1. IsFiniteSet(Workers)
  BY WorkersAssumption DEF Workers
<1>2. IsFiniteSet(others) /\ Cardinality(others) \in Nat
  <2>1. others \subseteq Workers
    BY DEF Busy
  <2>2. QED
    BY <1>1, <2>1, FS_Subset, FS_CardinalityType
<1>3. CASE place = "extracting"
  <2>1. after = others \cup {w} /\ w \notin others
    BY <1>3 DEF Busy
  <2> HIDE DEF others, after
  <2>2. Cardinality(others \cup {w}) = Cardinality(others) + 1
    BY <1>2, <2>1, FS_AddElement
  <2>3. QED
    BY <1>2, <1>3, <2>1, <2>2 DEF others, after
<1>4. CASE place # "extracting"
  <2>1. after = others
    BY <1>4 DEF Busy
  <2> HIDE DEF others, after
  <2>2. QED
    BY <1>2, <1>4, <2>1 DEF others, after
<1>5. QED
  BY <1>3, <1>4

(* Worker w leaves its loop.                                               *)
Leaves(w, count, gs, at, place) ==
  /\ pc' = [at EXCEPT ![w] = place]
  /\ hand' = [hand EXCEPT ![w] = NoJob]
  /\ unfinished' = count
  /\ getters' = gs
  /\ UNCHANGED <<queue, taken>>

(* The turn takes a job, sleeps or leaves, and keeps what it is            *)
(* responsible for; only a daemon ever sleeps.                             *)
LEMMA TurnStep ==
  ASSUME TypeOK, TakenInOrder, puts' = puts,
         NEW w \in Workers, NEW count, NEW gs, NEW at,
         BeforeTurn(w, count, gs, at),
         \/ Turn(w, count, gs, at)
         \/ w \in Daemons /\ queue = <<>> /\ Sleep(w, count, gs, at)
         \/ queue # <<>> /\ Take(w, count, gs, at)
         \/ Leaves(w, count, gs, at, "dead")
  PROVE  AfterTurn'
<1> DEFINE others == Cardinality(Busy(at) \ {w})
           moved(place) == [at EXCEPT ![w] = place]
<1>1. /\ at \in [Workers -> Places]
      /\ Sleepers(gs, at)
      /\ \A i \in 1 .. Len(gs) : gs[i] # w
      /\ \A v \in Workers \ {w} : at[v] = "extracting" <=> hand[v] # NoJob
      /\ count = Len(queue) + others
  BY DEF BeforeTurn
<1>2. /\ queue \in Seq(Jobs) /\ taken \in Seq(Jobs)
      /\ hand \in [Workers -> Jobs \cup {NoJob}]
      /\ taken \o queue = puts
  BY DEF TypeOK, TakenInOrder
<1>3. others \in Nat /\ Len(queue) \in Nat
  <2>1. "dead" \in Places
    BY DEF Places
  <2>2. QED
    BY <1>1, <1>2, <2>1, BusyAfter, LenProperties
<1>4. \A i \in 1 .. Len(gs) : gs[i] \in Workers
  <2>1. gs \in Seq(Daemons)
    BY <1>1 DEF Sleepers
  <2>2. \A i \in 1 .. Len(gs) : gs[i] \in Daemons
    BY <2>1, ElementOfSeq
  <2>3. QED
    BY <2>2 DEF Workers
<1>5. ASSUME NEW place \in Places
      PROVE  /\ moved(place) \in [Workers -> Places]
             /\ moved(place)[w] = place
             /\ \A v \in Workers \ {w} : moved(place)[v] = at[v]
             /\ Sleepers(gs, moved(place))
             /\ place = "extracting" => Cardinality(Busy(moved(place))) = others + 1
             /\ place # "extracting" => Cardinality(Busy(moved(place))) = others
  <2>1. moved(place) \in [Workers -> Places] /\ moved(place)[w] = place
    BY <1>1
  <2>2. \A v \in Workers \ {w} : moved(place)[v] = at[v]
    BY <1>1
  <2>3. \A i \in 1 .. Len(gs) : moved(place)[gs[i]] = at[gs[i]]
    BY <1>1, <1>4, <2>2
  <2>4. Sleepers(gs, moved(place))
    BY <1>1, <2>3 DEF Sleepers
  <2>5. /\ place = "extracting" => Cardinality(Busy(moved(place))) = others + 1
        /\ place # "extracting" => Cardinality(Busy(moved(place))) = others
    BY <1>1, BusyAfter
  <2>6. QED
    BY <2>1, <2>2, <2>4, <2>5
<1> HIDE DEF moved, others
<1>6. ASSUME NEW place \in Places, NEW job \in Jobs \cup {NoJob},
             place = "extracting" <=> job # NoJob,
             pc' = moved(place), hand' = [hand EXCEPT ![w] = job],
             queue' \in Seq(Jobs), taken' \in Seq(Jobs), taken' \o queue' = puts,
             Sleepers(getters', pc'),
             place = "extracting" => unfinished' = (Len(queue') + others) + 1,
             place # "extracting" => unfinished' = Len(queue') + others
      PROVE  AfterTurn'
  <2>1. hand' \in [Workers -> Jobs \cup {NoJob}]
    BY <1>2, <1>6
  <2>2. \A v \in Workers : pc'[v] = "extracting" <=> hand'[v] # NoJob
    <3>1. TAKE v \in Workers
    <3>2. CASE v = w
      BY <1>2, <1>5, <1>6, <3>2
    <3>3. CASE v # w
      BY <1>1, <1>2, <1>5, <1>6, <3>3
    <3>4. QED
      BY <3>2, <3>3
  <2>3. /\ pc' \in [Workers -> Places]
        /\ place = "extracting" => Cardinality(Busy(pc')) = others + 1
        /\ place # "extracting" => Cardinality(Busy(pc')) = others
    BY <1>5, <1>6
  <2>4. Len(queue') \in Nat
    BY <1>6, LenProperties
  <2>5. unfinished' = Len(queue') + Cardinality(Busy(pc'))
    <3>1. CASE place = "extracting"
      BY <1>3, <1>6, <2>3, <2>4, <3>1
    <3>2. CASE place # "extracting"
      BY <1>6, <2>3, <3>2
    <3>3. QED
      BY <3>1, <3>2
  <2>6. Busy(pc)' = Busy(pc')
    BY DEF Busy
  <2>7. Sleepers(getters, pc)'
    BY <1>6 DEF Sleepers
  <2>8. QED
    BY <1>6, <2>1, <2>2, <2>3, <2>5, <2>6, <2>7 DEF AfterTurn
<1>7. ASSUME queue # <<>>, Take(w, count, gs, at) PROVE AfterTurn'
  <2> DEFINE job == Head(queue)
  <2>1. queue' = Tail(queue) /\ taken' = Append(taken, job) /\ getters' = gs
    BY <1>7 DEF Take
  <2>2. /\ job \in Jobs /\ Tail(queue) \in Seq(Jobs)
        /\ Append(taken, job) \in Seq(Jobs)
        /\ Append(taken, job) \o Tail(queue) = taken \o queue
        /\ Len(queue) = Len(Tail(queue)) + 1 /\ Len(Tail(queue)) \in Nat
    BY <1>2, <1>7, TakeFirst, LenProperties
  <2>3. CASE job \in Unsupported
    <3>1. pc' = moved("dead") /\ hand' = [hand EXCEPT ![w] = NoJob] /\ unfinished' = count - 1
      BY <1>7, <2>3 DEF Take, moved
    <3>2. "dead" \in Places
      BY DEF Places
    <3>3. Sleepers(getters', pc')
      BY <1>5, <2>1, <3>1, <3>2
    <3>4. unfinished' = Len(queue') + others
      BY <1>1, <1>3, <2>1, <2>2, <3>1
    <3>5. QED
      BY <1>2, <1>3, <1>6, <2>1, <2>2, <3>1, <3>2, <3>3, <3>4
  <2>4. CASE job \notin Unsupported
    <3>1. pc' = moved("extracting") /\ hand' = [hand EXCEPT ![w] = job] /\ unfinished' = count
      BY <1>7, <2>4 DEF Take, moved
    <3>2. "extracting" \in Places
      BY DEF Places
    <3>3. Sleepers(getters', pc')
      BY <1>5, <2>1, <3>1, <3>2
    <3>4. unfinished' = (Len(queue') + others) + 1
      BY <1>1, <1>3, <2>1, <2>2, <3>1
    <3>5. job # NoJob
      BY <2>2, JobsAssumption
    <3>6. QED
      BY <1>2, <1>6, <2>1, <2>2, <3>1, <3>2, <3>3, <3>4, <3>5
  <2>5. QED
    BY <2>3, <2>4
<1>8. ASSUME w \in Daemons, Sleep(w, count, gs, at) PROVE AfterTurn'
  <2>1. /\ pc' = moved("waiting") /\ getters' = Append(gs, w)
        /\ hand' = [hand EXCEPT ![w] = NoJob]
        /\ unfinished' = count /\ queue' = queue /\ taken' = taken
    BY <1>8 DEF Sleep, moved
  <2>2. "waiting" \in Places
    BY DEF Places
  <2>3. Sleepers(gs, moved("waiting")) /\ moved("waiting")[w] = "waiting"
    BY <1>5, <2>2
  <2>4. Sleepers(Append(gs, w), moved("waiting"))
    BY <1>1, <1>8, <2>3, AppendSleepers
  <2>5. unfinished' = Len(queue') + others
    BY <1>1, <2>1
  <2>6. QED
    BY <1>2, <1>3, <1>6, <2>1, <2>2, <2>4, <2>5
<1>9. ASSUME NEW place \in {"done", "dead"}, Leaves(w, count, gs, at, place) PROVE AfterTurn'
  <2>1. /\ pc' = moved(place) /\ getters' = gs
        /\ hand' = [hand EXCEPT ![w] = NoJob]
        /\ unfinished' = count /\ queue' = queue /\ taken' = taken
    BY <1>9 DEF Leaves, moved
  <2>2. place \in Places /\ place # "extracting"
    BY DEF Places
  <2>3. Sleepers(getters', pc')
    BY <1>5, <2>1, <2>2
  <2>4. unfinished' = Len(queue') + others
    BY <1>1, <2>1
  <2>5. QED
    BY <1>2, <1>3, <1>6, <2>1, <2>2, <2>3, <2>4
<1>10. ASSUME ~ Ends(w), queue = <<>> PROVE w \in Daemons
  BY <1>10 DEF Ends, Workers
<1>11. ASSUME Turn(w, count, gs, at)
       PROVE  \/ Leaves(w, count, gs, at, "done")
              \/ w \in Daemons /\ Sleep(w, count, gs, at)
              \/ queue # <<>> /\ Take(w, count, gs, at)
  BY <1>10, <1>11 DEF Turn, Leaves
<1>12. QED
  BY <1>7, <1>8, <1>9, <1>11
-----------------------------------------------------------------------------
(* What the steps of each action leave to the turn.                        *)

(* A worker that neither sleeps nor processes a job.                       *)
LEMMA BeforeOthersTurn ==
  ASSUME IInv, NEW w \in Workers, pc[w] \notin {"waiting", "extracting"}
  PROVE  BeforeTurn(w, unfinished, getters, pc)
<1>1. pc \in [Workers -> Places] /\ \A v \in Workers : pc[v] = "extracting" <=> hand[v] # NoJob
  BY DEF IInv, TypeOK, Places
<1>2. Sleepers(getters, pc) /\ \A i \in 1 .. Len(getters) : getters[i] # w
  BY DEF IInv, Sleepers
<1>3. Busy(pc) \ {w} = Busy(pc)
  BY DEF Busy
<1>4. unfinished = Len(queue) + Cardinality(Busy(pc))
  BY DEF IInv, UnfinishedCounts, Busy
<1>5. QED
  BY <1>1, <1>2, <1>3, <1>4 DEF BeforeTurn

(* A worker that is done with its job.                                     *)
LEMMA BeforeBusyTurn ==
  ASSUME IInv, NEW w \in Workers, pc[w] = "extracting"
  PROVE  BeforeTurn(w, unfinished - 1, getters, pc)
<1>1. pc \in [Workers -> Places] /\ \A v \in Workers : pc[v] = "extracting" <=> hand[v] # NoJob
  BY DEF IInv, TypeOK, Places
<1>2. Sleepers(getters, pc) /\ \A i \in 1 .. Len(getters) : getters[i] # w
  BY DEF IInv, Sleepers
<1>3. Cardinality(Busy(pc)) = Cardinality(Busy(pc) \ {w}) + 1 /\ Cardinality(Busy(pc) \ {w}) \in Nat
  <2>1. [pc EXCEPT ![w] = "extracting"] = pc
    BY <1>1
  <2>2. "extracting" \in Places
    BY DEF Places
  <2>3. QED
    BY <1>1, <2>1, <2>2, BusyAfter
<1>4. unfinished = Len(queue) + Cardinality(Busy(pc)) /\ Len(queue) \in Nat
  BY LenProperties DEF IInv, TypeOK, UnfinishedCounts, Busy
<1>5. unfinished - 1 = Len(queue) + Cardinality(Busy(pc) \ {w})
  BY <1>3, <1>4
<1>6. QED
  BY <1>1, <1>2, <1>5 DEF BeforeTurn

(* A daemon that sleeps as the i-th one, and whose sleep ends.             *)
LEMMA BeforeSleepersTurn ==
  ASSUME IInv, NEW i \in 1 .. Len(getters)
  PROVE  BeforeTurn(getters[i], unfinished, RemoveAt(getters, i), pc)
<1> DEFINE d == getters[i]
<1>1. pc \in [Workers -> Places] /\ \A v \in Workers : pc[v] = "extracting" <=> hand[v] # NoJob
  BY DEF IInv, TypeOK, Places
<1>2. Sleepers(getters, pc) /\ pc[d] = "waiting"
  BY DEF IInv, Sleepers
<1>3. /\ Sleepers(RemoveAt(getters, i), pc)
      /\ \A j \in 1 .. Len(RemoveAt(getters, i)) : RemoveAt(getters, i)[j] # d
  BY <1>2, RemoveSleeper
<1>4. Busy(pc) \ {d} = Busy(pc)
  BY <1>2 DEF Busy
<1>5. unfinished = Len(queue) + Cardinality(Busy(pc))
  BY DEF IInv, UnfinishedCounts, Busy
<1>6. QED
  BY <1>1, <1>3, <1>4, <1>5 DEF BeforeTurn

(* Waking the first sleeper.                                               *)
LEMMA WakeFirst ==
  ASSUME IInv
  PROVE  /\ Woken \in [Workers -> Places]
         /\ Sleepers(Others, Woken)
         /\ Busy(Woken) = Busy(pc)
         /\ \A v \in Workers : Woken[v] = "extracting" <=> hand[v] # NoJob
         /\ \A v \in Workers : pc[v] # "waiting" => \A i \in 1 .. Len(Others) : Others[i] # v
<1>1. /\ pc \in [Workers -> Places]
      /\ \A v \in Workers : pc[v] = "extracting" <=> hand[v] # NoJob
      /\ Sleepers(getters, pc)
  BY DEF IInv, TypeOK, Places
<1>2. CASE getters = <<>>
  <2>1. Woken = pc /\ Others = getters
    BY <1>2 DEF Woken, Others
  <2>2. \A v \in Workers : pc[v] # "waiting" => \A i \in 1 .. Len(getters) : getters[i] # v
    BY <1>1 DEF Sleepers
  <2>3. QED
    BY <1>1, <2>1, <2>2
<1>3. CASE getters # <<>>
  <2> DEFINE d == Head(getters)
  <2>1. Woken = [pc EXCEPT ![d] = "woken"] /\ Others = Tail(getters)
    BY <1>3 DEF Woken, Others
  <2>2. /\ d \in Daemons /\ pc[d] = "waiting"
        /\ Sleepers(Others, pc)
        /\ \A i \in 1 .. Len(Others) : Others[i] # d
    BY <1>1, <1>3, <2>1, TailSleepers
  <2>3. d \in Workers
    BY <2>2 DEF Workers
  <2> HIDE DEF d
  <2>4. Woken \in [Workers -> Places] /\ Woken[d] = "woken" /\ \A v \in Workers \ {d} : Woken[v] = pc[v]
    BY <1>1, <2>1, <2>3 DEF Places
  <2>5. Busy(Woken) = Busy(pc)
    BY <2>2, <2>3, <2>4 DEF Busy
  <2>6. \A v \in Workers : Woken[v] = "extracting" <=> hand[v] # NoJob
    BY <1>1, <2>2, <2>4
  <2>7. \A i \in 1 .. Len(Others) : Others[i] \in Workers
    BY <2>2, ElementOfSeq DEF Sleepers, Workers
  <2>8. Sleepers(Others, Woken)
    BY <2>2, <2>4, <2>7 DEF Sleepers
  <2>9. \A v \in Workers : pc[v] # "waiting" => \A i \in 1 .. Len(Others) : Others[i] # v
    BY <2>2 DEF Sleepers
  <2>10. QED
    BY <2>4, <2>5, <2>6, <2>8, <2>9
<1>4. QED
  BY <1>2, <1>3

(* A woken daemon whose timeout fires and that passes the wake-up on.      *)
LEMMA BeforeWokenTurn ==
  ASSUME IInv, NEW d \in Workers, pc[d] = "woken"
  PROVE  BeforeTurn(d, unfinished, Others, Woken)
<1>1. Busy(pc) \ {d} = Busy(pc)
  BY DEF Busy
<1>2. unfinished = Len(queue) + Cardinality(Busy(pc))
  BY DEF IInv, UnfinishedCounts, Busy
<1>3. \A i \in 1 .. Len(Others) : Others[i] # d
  BY WakeFirst
<1>4. QED
  BY <1>1, <1>2, <1>3, WakeFirst DEF BeforeTurn
-----------------------------------------------------------------------------
(* The invariant.                                                          *)

(* The rest of the invariant: what the turn leaves alone.                  *)
Rest ==
  /\ stop \in BOOLEAN
  /\ facts \in Seq(Fact)
  /\ conn \in {"ok", "aborted"}
  /\ puts \in Seq(Jobs)
  /\ completed \subseteq Jobs
  /\ failures \in 0 .. MaxFailures

(* The two parts make the invariant.                                       *)
LEMMA PartsMakeIInv ==
  ASSUME AfterTurn', Rest'
  PROVE  IInv'
<1>1. Cardinality(Busy(pc')) \in Nat
  <2>1. IsFiniteSet(Workers) /\ Busy(pc') \subseteq Workers
    BY WorkersAssumption DEF Workers, Busy
  <2>2. QED
    BY <2>1, FS_Subset, FS_CardinalityType
<1>2. unfinished' = Len(queue') + Cardinality(Busy(pc')) /\ queue' \in Seq(Jobs)
  BY DEF AfterTurn, Busy
<1>3. unfinished' \in Nat
  BY <1>1, <1>2, LenProperties
<1>4. UnfinishedCounts'
  BY <1>2 DEF UnfinishedCounts, Busy
<1>5. TypeOK'
  BY <1>3 DEF AfterTurn, Rest, TypeOK, Sleepers, Places
<1>6. QED
  BY <1>4, <1>5 DEF AfterTurn, IInv, TakenInOrder, Sleepers

(* The facts of a job's chunks are facts.                                  *)
LEMMA FactsOfType ==
  ASSUME NEW job \in Jobs, NEW n \in Nat, NEW fs \in Seq(Fact)
  PROVE  fs \o FactsOf(job, n) \in Seq(Fact)
<1>1. \A k \in 1 .. n : [job |-> job, chunk |-> k] \in Fact
  BY DEF Fact
<1>2. FactsOf(job, n) \in [1 .. n -> Fact]
  BY <1>1 DEF FactsOf
<1>3. FactsOf(job, n) \in Seq(Fact)
  BY <1>2, SeqDef
<1>4. QED
  BY <1>3, ConcatProperties

(* Appending to the queue appends to taken \o queue.                       *)
LEMMA ConcatAppend ==
  ASSUME NEW S, NEW t \in Seq(S), NEW q \in Seq(S), NEW x \in S
  PROVE  t \o Append(q, x) = Append(t \o q, x)
<1>1. <<x>> \in Seq(S) /\ t \o q \in Seq(S)
  BY ConcatProperties
<1>2. Append(q, x) = q \o <<x>> /\ Append(t \o q, x) = (t \o q) \o <<x>>
  BY <1>1, AppendIsConcat
<1>3. QED
  BY <1>1, <1>2, ConcatAssociative

LEMMA InitIInv == Init => IInv
<1> SUFFICES ASSUME Init PROVE IInv
  OBVIOUS
<1>1. TypeOK
  <2>1. /\ queue \in Seq(Jobs) /\ getters \in Seq(Daemons) /\ facts \in Seq(Fact)
        /\ puts \in Seq(Jobs) /\ taken \in Seq(Jobs)
    BY EmptySeq DEF Init
  <2>2. \A w \in Workers : pc[w] = "extracting" <=> hand[w] # NoJob
    BY DEF Init
  <2>3. /\ pc \in [Workers -> {"idle", "waiting", "woken", "extracting", "done", "dead"}]
        /\ hand \in [Workers -> Jobs \cup {NoJob}]
    BY DEF Init
  <2>4. failures \in 0 .. MaxFailures /\ unfinished \in Nat
    BY MaxFailuresAssumption DEF Init
  <2>5. stop \in BOOLEAN /\ conn \in {"ok", "aborted"} /\ completed \subseteq Jobs
    BY DEF Init
  <2>6. QED
    BY <2>1, <2>2, <2>3, <2>4, <2>5 DEF TypeOK
<1>2. Sleepers(getters, pc)
  BY DEF Init, Sleepers
<1>3. TakenInOrder
  BY DEF Init, TakenInOrder
<1>4. UnfinishedCounts
  <2>1. {w \in Workers : pc[w] = "extracting"} = {}
    BY DEF Init
  <2>2. QED
    BY <2>1, FS_EmptySet DEF Init, UnfinishedCounts
<1>5. QED
  BY <1>1, <1>2, <1>3, <1>4 DEF IInv

(* Each action preserves the invariant.                                    *)
LEMMA PutIInv ==
  ASSUME IInv, NEW job \in Jobs, Put(job)
  PROVE  IInv'
<1>1. /\ queue \in Seq(Jobs) /\ taken \in Seq(Jobs) /\ puts \in Seq(Jobs)
      /\ taken \o queue = puts
  BY DEF IInv, TypeOK, TakenInOrder
<1>2. /\ queue' = Append(queue, job) /\ taken' = taken /\ puts' = Append(puts, job)
      /\ pc' = Woken /\ getters' = Others /\ hand' = hand
      /\ unfinished' = unfinished + 1
  BY DEF Put
<1>3. /\ queue' \in Seq(Jobs) /\ Len(queue') = Len(queue) + 1 /\ Len(queue) \in Nat
      /\ puts' \in Seq(Jobs)
  BY <1>1, <1>2, AppendProperties, LenProperties
<1>4. taken' \o queue' = puts'
  BY <1>1, <1>2, ConcatAppend
<1>5. unfinished = Len(queue) + Cardinality(Busy(pc)) /\ Cardinality(Busy(pc)) \in Nat
  <2>1. IsFiniteSet(Workers) /\ Busy(pc) \subseteq Workers
    BY WorkersAssumption DEF Workers, Busy
  <2>2. QED
    BY <2>1, FS_Subset, FS_CardinalityType DEF IInv, UnfinishedCounts, Busy
<1>6. Busy(pc') = Busy(pc)
  BY <1>2, WakeFirst
<1>7. unfinished' = Len(queue') + Cardinality(Busy(pc'))
  BY <1>2, <1>3, <1>5, <1>6
<1>8. /\ pc' \in [Workers -> Places]
      /\ Sleepers(getters', pc')
      /\ \A v \in Workers : pc'[v] = "extracting" <=> hand'[v] # NoJob
  BY <1>2, WakeFirst
<1>9. AfterTurn'
  BY <1>1, <1>2, <1>3, <1>4, <1>7, <1>8 DEF AfterTurn, Busy, Sleepers, IInv, TypeOK
<1>10. Rest'
  BY <1>3 DEF Rest, Put, IInv, TypeOK
<1>11. QED
  BY <1>9, <1>10, PartsMakeIInv

LEMMA StartIInv ==
  ASSUME IInv, NEW w \in Workers, Start(w)
  PROVE  IInv'
<1>1. /\ pc[w] = "idle"
      /\ Turn(w, unfinished, getters, pc)
      /\ UNCHANGED <<stop, facts, conn, puts, completed, failures>>
  BY DEF Start
<1>2. BeforeTurn(w, unfinished, getters, pc)
  BY <1>1, BeforeOthersTurn
<1>3. AfterTurn'
  BY <1>1, <1>2, TurnStep DEF IInv
<1>4. Rest'
  BY <1>1 DEF Rest, IInv, TypeOK
<1>5. QED
  BY <1>3, <1>4, PartsMakeIInv

LEMMA ResumeIInv ==
  ASSUME IInv, NEW d \in Daemons, Resume(d)
  PROVE  IInv'
<1>1. /\ pc[d] = "woken" /\ d \in Workers
      /\ \/ queue = <<>> /\ Sleep(d, unfinished, getters, pc)
         \/ queue # <<>> /\ Take(d, unfinished, getters, pc)
      /\ UNCHANGED <<stop, facts, conn, puts, completed, failures>>
  BY DEF Resume, Workers
<1>2. BeforeTurn(d, unfinished, getters, pc)
  BY <1>1, BeforeOthersTurn
<1>3. AfterTurn'
  BY <1>1, <1>2, TurnStep DEF IInv
<1>4. Rest'
  BY <1>1 DEF Rest, IInv, TypeOK
<1>5. QED
  BY <1>3, <1>4, PartsMakeIInv

LEMMA TimeoutIInv ==
  ASSUME IInv, NEW d \in Daemons, Timeout(d)
  PROVE  IInv'
<1>1. d \in Workers /\ UNCHANGED <<stop, facts, conn, puts, completed, failures>>
  BY DEF Timeout, Workers
<1>2. AfterTurn'
  <2>1. CASE pc[d] = "waiting"
    <3>1. PICK i \in 1 .. Len(getters) :
            getters[i] = d /\ Turn(d, unfinished, RemoveAt(getters, i), pc)
      BY <2>1 DEF Timeout
    <3>2. BeforeTurn(d, unfinished, RemoveAt(getters, i), pc)
      BY <3>1, BeforeSleepersTurn
    <3>3. QED
      BY <1>1, <3>1, <3>2, TurnStep DEF IInv
  <2>2. CASE pc[d] = "woken" /\ queue = <<>>
    <3>1. Turn(d, unfinished, getters, pc)
      BY <2>2 DEF Timeout
    <3>2. BeforeTurn(d, unfinished, getters, pc)
      BY <1>1, <2>2, BeforeOthersTurn
    <3>3. QED
      BY <1>1, <3>1, <3>2, TurnStep DEF IInv
  <2>3. CASE pc[d] = "woken" /\ queue # <<>>
    <3>1. Turn(d, unfinished, Others, Woken)
      BY <2>3 DEF Timeout
    <3>2. BeforeTurn(d, unfinished, Others, Woken)
      BY <1>1, <2>3, BeforeWokenTurn
    <3>3. QED
      BY <1>1, <3>1, <3>2, TurnStep DEF IInv
  <2>4. QED
    BY <2>1, <2>2, <2>3 DEF Timeout
<1>3. Rest'
  BY <1>1 DEF Rest, IInv, TypeOK
<1>4. QED
  BY <1>2, <1>3, PartsMakeIInv

LEMMA CompletesIInv ==
  ASSUME IInv, NEW w \in Workers, Completes(w)
  PROVE  IInv'
<1>1. /\ pc[w] = "extracting"
      /\ facts' = facts \o FactsOf(hand[w], Chunks[hand[w]])
      /\ completed' = completed \cup {hand[w]}
      /\ Turn(w, unfinished - 1, getters, pc)
      /\ UNCHANGED <<stop, conn, puts, failures>>
  BY DEF Completes
<1>2. hand[w] \in Jobs /\ Chunks[hand[w]] \in Nat
  BY <1>1, JobsAssumption DEF IInv, TypeOK
<1>3. BeforeTurn(w, unfinished - 1, getters, pc)
  BY <1>1, BeforeBusyTurn
<1>4. AfterTurn'
  BY <1>1, <1>3, TurnStep DEF IInv
<1>5. facts' \in Seq(Fact)
  BY <1>1, <1>2, FactsOfType DEF IInv, TypeOK
<1>6. Rest'
  BY <1>1, <1>2, <1>5 DEF Rest, IInv, TypeOK
<1>7. QED
  BY <1>4, <1>6, PartsMakeIInv

LEMMA DiesIInv ==
  ASSUME IInv, NEW w \in Workers, pc[w] = "extracting", Dies(w),
         facts' \in Seq(Fact), conn' \in {"ok", "aborted"}, failures' \in 0 .. MaxFailures
  PROVE  IInv'
<1>1. Leaves(w, unfinished - 1, getters, pc, "dead")
  BY DEF Dies, Leaves
<1>2. BeforeTurn(w, unfinished - 1, getters, pc)
  BY BeforeBusyTurn
<1>3. UNCHANGED <<stop, puts, completed>>
  BY DEF Dies
<1>4. AfterTurn'
  BY <1>1, <1>2, <1>3, TurnStep DEF IInv
<1>5. Rest'
  BY <1>3 DEF Rest, IInv, TypeOK
<1>6. QED
  BY <1>4, <1>5, PartsMakeIInv

LEMMA ProcessIInv ==
  ASSUME IInv, NEW w \in Workers, Process(w)
  PROVE  IInv'
<1>1. facts \in Seq(Fact) /\ conn \in {"ok", "aborted"} /\ failures \in 0 .. MaxFailures
  BY DEF IInv, TypeOK
<1>2. CASE Completes(w)
  BY <1>2, CompletesIInv
<1>3. CASE ExtractFails(w)
  <2>1. failures' \in 0 .. MaxFailures /\ facts' = facts /\ conn' = conn
    BY <1>1, <1>3, MaxFailuresAssumption DEF ExtractFails
  <2>2. QED
    BY <1>1, <1>3, <2>1, DiesIInv DEF ExtractFails
<1>4. CASE InsertFails(w)
  <2>1. failures' \in 0 .. MaxFailures
    BY <1>1, <1>4, MaxFailuresAssumption DEF InsertFails
  <2>2. PICK k \in 1 .. Chunks[hand[w]] : facts' = facts \o FactsOf(hand[w], k - 1)
    BY <1>4 DEF InsertFails
  <2>3. hand[w] \in Jobs /\ Chunks[hand[w]] \in Nat
    BY <1>4, JobsAssumption DEF InsertFails, IInv, TypeOK
  <2>4. facts' \in Seq(Fact)
    <3>1. k - 1 \in Nat
      BY <2>3
    <3>2. QED
      BY <1>1, <2>2, <2>3, <3>1, FactsOfType
  <2>5. QED
    BY <1>4, <2>1, <2>4, DiesIInv DEF InsertFails
<1>5. CASE InsertRefused(w)
  BY <1>1, <1>5, DiesIInv DEF InsertRefused
<1>6. QED
  BY <1>2, <1>3, <1>4, <1>5 DEF Process

LEMMA StepIInv == IInv /\ [Next]_vars => IInv'
<1> SUFFICES ASSUME IInv, [Next]_vars PROVE IInv'
  OBVIOUS
<1>1. ASSUME NEW job \in Jobs, Put(job) PROVE IInv'
  BY <1>1, PutIInv
<1>2. ASSUME NEW w \in Workers, Start(w) PROVE IInv'
  BY <1>2, StartIInv
<1>3. ASSUME NEW w \in Workers, Process(w) PROVE IInv'
  BY <1>3, ProcessIInv
<1>4. ASSUME NEW d \in Daemons, Resume(d) PROVE IInv'
  BY <1>4, ResumeIInv
<1>5. ASSUME NEW d \in Daemons, Timeout(d) PROVE IInv'
  BY <1>5, TimeoutIInv
<1>6. CASE SetStop
  BY <1>6 DEF SetStop, IInv, TypeOK, Sleepers, TakenInOrder, UnfinishedCounts
<1>7. CASE UNCHANGED vars
  BY <1>7 DEF vars, IInv, TypeOK, Sleepers, TakenInOrder, UnfinishedCounts
<1>8. QED
  BY <1>1, <1>2, <1>3, <1>4, <1>5, <1>6, <1>7 DEF Next

LEMMA Invariance == Spec => []IInv
BY InitIInv, StepIInv, PTL DEF Spec
-----------------------------------------------------------------------------
(* Every state of every execution is well typed: in particular the count   *)
(* of unfinished tasks never becomes negative (task_done would raise), and *)
(* a worker holds a job exactly while it processes it.                     *)
THEOREM TypeCorrect == Spec => []TypeOK
<1>1. IInv => TypeOK
  BY DEF IInv
<1>2. QED
  BY <1>1, Invariance, PTL

(* Workers take the jobs in the order they were put, each once, however    *)
(* many daemons time out while they are woken.                             *)
THEOREM TakenInOrderThm == Spec => []TakenInOrder
<1>1. IInv => TakenInOrder
  BY DEF IInv
<1>2. QED
  BY <1>1, Invariance, PTL

(* The count join waits for is what is queued or being processed, also     *)
(* after workers died.                                                     *)
THEOREM UnfinishedCountsThm == Spec => []UnfinishedCounts
<1>1. IInv => UnfinishedCounts
  BY DEF IInv
<1>2. QED
  BY <1>1, Invariance, PTL
-----------------------------------------------------------------------------
(* The queue as its users see it (module JobQueue).                        *)

(* No job is put twice, and none is in the hands of two workers.           *)
OneHand ==
  /\ \A i, j \in 1 .. Len(puts) : puts[i] = puts[j] => i = j
  /\ InHand \subseteq Range(taken)
  /\ \A v, w \in Workers : hand[v] = hand[w] /\ hand[v] # NoJob => v = w

(* Worker w is done with what it had, and takes no job ...                 *)
Moves(w) ==
  /\ hand' = [hand EXCEPT ![w] = NoJob]
  /\ UNCHANGED <<queue, taken>>

(* ... or takes one, which it keeps or is done with at once.               *)
Takes(w, job) ==
  /\ queue # <<>>
  /\ queue' = Tail(queue)
  /\ taken' = Append(taken, Head(queue))
  /\ job \in {NoJob, Head(queue)}
  /\ hand' = [hand EXCEPT ![w] = job]

(* Taking a job is one of these, ...                                       *)
LEMMA TakeShape ==
  ASSUME NEW w, NEW count, NEW gs, NEW at, queue # <<>>, Take(w, count, gs, at)
  PROVE  \E job : Takes(w, job)
<1>1. CASE Head(queue) \in Unsupported
  <2>1. Takes(w, NoJob)
    BY <1>1 DEF Take, Takes
  <2>2. QED
    BY <2>1
<1>2. CASE Head(queue) \notin Unsupported
  <2>1. Takes(w, Head(queue))
    BY <1>2 DEF Take, Takes
  <2>2. QED
    BY <2>1
<1>3. QED
  BY <1>1, <1>2

(* ... so is a turn of the loop, ...                                       *)
LEMMA TurnShape ==
  ASSUME NEW w, NEW count, NEW gs, NEW at, Turn(w, count, gs, at)
  PROVE  Moves(w) \/ \E job : Takes(w, job)
<1>1. CASE queue # <<>> /\ Take(w, count, gs, at)
  BY <1>1, TakeShape
<1>2. CASE ~ (queue # <<>> /\ Take(w, count, gs, at))
  BY <1>2 DEF Turn, Sleep, Moves
<1>3. QED
  BY <1>1, <1>2

(* ... and the end of a job.                                               *)
LEMMA ProcessShape ==
  ASSUME NEW w \in Workers, Process(w)
  PROVE  UNCHANGED puts /\ (Moves(w) \/ \E job : Takes(w, job))
<1>1. CASE Completes(w)
  BY <1>1, TurnShape DEF Completes
<1>2. CASE ~ Completes(w)
  BY <1>2 DEF Process, ExtractFails, InsertFails, InsertRefused, Dies, Moves
<1>3. QED
  BY <1>1, <1>2

(* Every step but a put is one of these, or none of the queue's business.  *)
LEMMA StepShape ==
  ASSUME [Next]_vars
  PROVE  \/ \E job \in Jobs : Put(job)
         \/ /\ UNCHANGED puts
            /\ \/ \E w \in Workers : Moves(w) \/ \E job : Takes(w, job)
               \/ UNCHANGED <<queue, taken, hand>>
<1> DEFINE Goal(w) == UNCHANGED puts /\ (Moves(w) \/ \E job : Takes(w, job))
<1>1. ASSUME NEW w \in Workers, Start(w) PROVE Goal(w)
  BY <1>1, TurnShape DEF Start
<1>2. ASSUME NEW w \in Workers, Process(w) PROVE Goal(w)
  BY <1>2, ProcessShape
<1>3. ASSUME NEW d \in Daemons, Resume(d) PROVE Goal(d)
  <2>1. CASE queue = <<>>
    BY <1>3, <2>1 DEF Resume, Sleep, Moves
  <2>2. CASE queue # <<>>
    BY <1>3, <2>2, TakeShape DEF Resume
  <2>3. QED
    BY <2>1, <2>2
<1>4. ASSUME NEW d \in Daemons, Timeout(d) PROVE Goal(d)
  <2>1. UNCHANGED puts /\ \E gs, at : Turn(d, unfinished, gs, at)
    BY <1>4 DEF Timeout
  <2>2. QED
    BY <2>1, TurnShape
<1> HIDE DEF Goal
<1>5. CASE \E w \in Workers : Goal(w)
  BY <1>5 DEF Goal
<1>6. CASE SetStop \/ UNCHANGED vars
  BY <1>6 DEF SetStop, vars
<1>7. QED
  BY <1>1, <1>2, <1>3, <1>4, <1>5, <1>6 DEF Next, Workers

(* What is in the workers' hands after w exchanged its job.                *)
LEMMA HandAfter ==
  ASSUME TypeOK, OneHand, NEW w \in Workers, NEW job \in Jobs \cup {NoJob},
         hand' = [hand EXCEPT ![w] = job]
  PROVE  InHand' = (InHand \ {hand[w]}) \cup ({job} \ {NoJob})
<1>1. hand \in [Workers -> Jobs \cup {NoJob}]
  BY DEF TypeOK
<1>2. InHand' = {hand'[v] : v \in Workers} \ {NoJob}
  BY DEF InHand
<1>3. hand'[w] = job /\ \A v \in Workers \ {w} : hand'[v] = hand[v]
  BY <1>1
<1>4. \A v \in Workers \ {w} : hand[v] # NoJob => hand[v] # hand[w]
  BY DEF OneHand
<1>5. ASSUME NEW x PROVE x \in InHand' <=> x \in (InHand \ {hand[w]}) \cup ({job} \ {NoJob})
  BY <1>2, <1>3, <1>4 DEF InHand
<1>6. QED
  BY <1>5

(* A queue of distinct jobs: the first one was not taken before.           *)
LEMMA HeadIsFresh ==
  ASSUME TypeOK, TakenInOrder, OneHand, queue # <<>>
  PROVE  Head(queue) \in Jobs /\ Head(queue) \notin Range(taken)
<1> DEFINE n == Len(taken)
<1>1. queue \in Seq(Jobs) /\ taken \in Seq(Jobs) /\ taken \o queue = puts
  BY DEF TypeOK, TakenInOrder
<1>2. n \in Nat /\ Len(queue) \in Nat /\ Len(queue) >= 1
  BY <1>1, LenProperties, EmptySeq
<1>3. Head(queue) = queue[1] /\ Head(queue) \in Jobs
  BY <1>1, HeadTailProperties
<1>4. /\ Len(puts) = n + Len(queue)
      /\ \A i \in 1 .. n + Len(queue) : puts[i] = IF i <= n THEN taken[i] ELSE queue[i - n]
  BY <1>1, ConcatProperties
<1> HIDE DEF n
<1>5. puts[n + 1] = Head(queue) /\ n + 1 \in 1 .. Len(puts)
  <2>1. (n + 1) - n = 1 /\ ~ (n + 1 <= n) /\ n + 1 \in 1 .. n + Len(queue)
    BY <1>2
  <2>2. QED
    BY <1>3, <1>4, <2>1
<1>6. ASSUME NEW i \in 1 .. n PROVE taken[i] # Head(queue)
  <2>1. i \in 1 .. n + Len(queue) /\ i <= n /\ i # n + 1
    BY <1>2
  <2>2. puts[i] = taken[i]
    BY <1>4, <2>1
  <2>3. puts[i] # puts[n + 1]
    BY <1>4, <1>5, <2>1 DEF OneHand
  <2>4. QED
    BY <1>5, <2>2, <2>3
<1>7. Range(taken) = {taken[i] : i \in 1 .. n}
  BY <1>1, RangeEquality DEF n
<1>8. QED
  BY <1>3, <1>6, <1>7
LEMMA PutOneHand ==
  ASSUME TypeOK, OneHand, NEW job \in Jobs, Put(job)
  PROVE  OneHand'
<1>1. puts \in Seq(Jobs) /\ job \notin Range(puts)
  BY DEF TypeOK, Put
<1>2. puts' = Append(puts, job) /\ taken' = taken /\ hand' = hand
  BY DEF Put
<1>3. /\ Len(puts) \in Nat /\ Len(puts') = Len(puts) + 1
      /\ \A i \in 1 .. Len(puts) : puts'[i] = puts[i]
      /\ puts'[Len(puts) + 1] = job
  BY <1>1, <1>2, AppendProperties, LenProperties
<1>4. \A i \in 1 .. Len(puts) : puts[i] # job
  BY <1>1, RangeEquality
<1>5. \A i \in 1 .. Len(puts') : i \in 1 .. Len(puts) \/ i = Len(puts) + 1
  BY <1>3
<1>6. \A i, j \in 1 .. Len(puts') : puts'[i] = puts'[j] => i = j
  BY <1>3, <1>4, <1>5 DEF OneHand
<1>7. QED
  BY <1>2, <1>6 DEF OneHand, InHand

(* A job that is taken joins the range of the taken ones.                  *)
LEMMA TakenAfter ==
  ASSUME TypeOK, queue # <<>>, taken' = Append(taken, Head(queue))
  PROVE  Range(taken') = Range(taken) \cup {Head(queue)}
<1> DEFINE one == <<Head(queue)>>
<1>1. taken \in Seq(Jobs) /\ Head(queue) \in Jobs
  BY HeadTailProperties DEF TypeOK
<1>2. one \in Seq(Jobs) /\ taken' = taken \o one
  BY <1>1, AppendIsConcat
<1>3. Range(one) = {Head(queue)}
  BY DEF Range
<1> HIDE DEF one
<1>4. Range(taken \o one) = Range(taken) \cup Range(one)
  BY <1>1, <1>2, RangeConcatenation, Zenon
<1>5. QED
  BY <1>2, <1>3, <1>4

(* One worker's hand changes: hands stay disjoint when its job is new.     *)
LEMMA HandsDisjoint ==
  ASSUME TypeOK, OneHand, NEW w \in Workers, NEW job \in Jobs \cup {NoJob},
         job \notin InHand, hand' = [hand EXCEPT ![w] = job]
  PROVE  \A u, v \in Workers : hand'[u] = hand'[v] /\ hand'[u] # NoJob => u = v
<1>1. hand \in [Workers -> Jobs \cup {NoJob}]
  BY DEF TypeOK
<1>2. hand'[w] = job /\ \A v \in Workers \ {w} : hand'[v] = hand[v]
  BY <1>1
<1>3. \A v \in Workers : hand[v] # NoJob => hand[v] # job
  BY DEF InHand
<1>4. QED
  BY <1>2, <1>3 DEF OneHand

LEMMA InitOneHand == Init => OneHand
<1> SUFFICES ASSUME Init PROVE OneHand
  OBVIOUS
<1>1. InHand = {}
  BY DEF Init, InHand
<1>2. QED
  BY <1>1 DEF Init, OneHand

LEMMA StepOneHand == IInv /\ OneHand /\ [Next]_vars => OneHand'
<1> SUFFICES ASSUME IInv, OneHand, [Next]_vars PROVE OneHand'
  OBVIOUS
<1>1. TypeOK /\ TakenInOrder
  BY DEF IInv
<1>2. NoJob \notin InHand /\ \A w \in Workers : hand[w] \in Jobs \cup {NoJob}
  BY <1>1 DEF InHand, TypeOK
<1>3. ASSUME NEW job \in Jobs, Put(job) PROVE OneHand'
  BY <1>1, <1>3, PutOneHand
<1>4. ASSUME NEW w \in Workers, Moves(w), UNCHANGED puts PROVE OneHand'
  <2>1. hand' = [hand EXCEPT ![w] = NoJob] /\ taken' = taken
    BY <1>4 DEF Moves
  <2>2. InHand' \subseteq InHand
    BY <1>1, <2>1, HandAfter
  <2>3. \A u, v \in Workers : hand'[u] = hand'[v] /\ hand'[u] # NoJob => u = v
    BY <1>1, <1>2, <2>1, HandsDisjoint
  <2>4. QED
    BY <1>4, <2>1, <2>2, <2>3 DEF OneHand
<1>5. ASSUME NEW w \in Workers, NEW job, Takes(w, job), UNCHANGED puts PROVE OneHand'
  <2>1. /\ queue # <<>> /\ taken' = Append(taken, Head(queue))
        /\ job \in {NoJob, Head(queue)} /\ hand' = [hand EXCEPT ![w] = job]
    BY <1>5 DEF Takes
  <2>2. Head(queue) \in Jobs /\ Head(queue) \notin Range(taken)
    BY <1>1, <2>1, HeadIsFresh
  <2>3. job \in Jobs \cup {NoJob} /\ job \notin InHand
    BY <1>2, <2>1, <2>2 DEF OneHand
  <2>4. Range(taken') = Range(taken) \cup {Head(queue)}
    BY <1>1, <2>1, TakenAfter
  <2>5. InHand' \subseteq InHand \cup {Head(queue)}
    <3>1. InHand' = (InHand \ {hand[w]}) \cup ({job} \ {NoJob})
      BY <1>1, <2>1, <2>3, HandAfter
    <3>2. QED
      BY <2>1, <3>1
  <2>6. \A u, v \in Workers : hand'[u] = hand'[v] /\ hand'[u] # NoJob => u = v
    BY <1>1, <2>1, <2>3, HandsDisjoint
  <2>7. InHand' \subseteq Range(taken)'
    BY <2>4, <2>5 DEF OneHand
  <2>8. QED
    BY <1>5, <2>6, <2>7 DEF OneHand
<1>6. CASE UNCHANGED <<queue, taken, hand, puts>>
  BY <1>6 DEF OneHand, InHand
<1>7. QED
  BY <1>3, <1>4, <1>5, <1>6, StepShape

LEMMA OneHandInvariance == Spec => [](IInv /\ OneHand)
BY InitIInv, StepIInv, InitOneHand, StepOneHand, PTL DEF Spec

-----------------------------------------------------------------------------
(* The refinement.                                                         *)

(* Each of these steps is one of the plain queue's.                        *)
LEMMA PutRefines ==
  ASSUME TypeOK, TakenInOrder, OneHand, NEW job \in Jobs, Put(job)
  PROVE  Queue!Put(job)
<1>1. queue \in Seq(Jobs) /\ taken \in Seq(Jobs) /\ taken \o queue = puts
  BY DEF TypeOK, TakenInOrder
<1>2. Range(puts) = Range(taken) \cup Range(queue)
  <2>1. Range(taken \o queue) = Range(taken) \cup Range(queue)
    BY <1>1, RangeConcatenation, Zenon
  <2>2. QED
    BY <1>1, <2>1
<1>3. job \notin Range(puts)
  BY DEF Put
<1>4. job \notin Range(queue) \cup InHand \cup (Range(taken) \ InHand)
  BY <1>2, <1>3 DEF OneHand
<1>5. queue' = Append(queue, job) /\ taken' = taken /\ hand' = hand
  BY DEF Put
<1>6. InHand' = InHand
  BY <1>5 DEF InHand
<1>7. Queue!Range(queue) = Range(queue)
  BY DEF Queue!Range, Range
<1>8. QED
  BY <1>4, <1>5, <1>6, <1>7 DEF Queue!Put

(* What worker w had in hand, as the set of the jobs that are now done.    *)
Had(w) == {hand[w]} \ {NoJob}

LEMMA MovesRefines ==
  ASSUME TypeOK, OneHand, NEW w \in Workers, Moves(w)
  PROVE  Queue!Finish(Had(w))
<1>1. hand' = [hand EXCEPT ![w] = NoJob] /\ queue' = queue /\ taken' = taken
  BY DEF Moves
<1>2. InHand' = InHand \ Had(w)
  <2>1. InHand' = (InHand \ {hand[w]}) \cup ({NoJob} \ {NoJob})
    BY <1>1, HandAfter
  <2>2. NoJob \notin InHand
    BY DEF InHand
  <2>3. QED
    BY <2>1, <2>2 DEF Had
<1>3. Had(w) \subseteq InHand /\ InHand \subseteq Range(taken)
  BY DEF Had, InHand, OneHand
<1>4. (Range(taken) \ InHand)' = (Range(taken) \ InHand) \cup Had(w)
  BY <1>1, <1>2, <1>3
<1>5. QED
  BY <1>1, <1>2, <1>4 DEF Queue!Finish

LEMMA TakesRefines ==
  ASSUME TypeOK, TakenInOrder, OneHand, NEW w \in Workers, NEW job, Takes(w, job)
  PROVE  Queue!Take(Had(w)) \/ Queue!Discard(Had(w))
<1> DEFINE next == Head(queue)
<1>1. /\ queue # <<>> /\ queue' = Tail(queue) /\ taken' = Append(taken, next)
      /\ job \in {NoJob, next} /\ hand' = [hand EXCEPT ![w] = job]
  BY DEF Takes
<1>2. next \in Jobs /\ next \notin Range(taken)
  BY <1>1, HeadIsFresh
<1>3. Range(taken)' = Range(taken) \cup {next}
  BY <1>1, TakenAfter
<1>4. InHand' = (InHand \ {hand[w]}) \cup ({job} \ {NoJob})
  BY <1>1, <1>2, HandAfter
<1>5. Had(w) \subseteq InHand /\ InHand \subseteq Range(taken) /\ NoJob \notin InHand
  BY DEF Had, InHand, OneHand
<1>6. next # NoJob
  BY <1>2, JobsAssumption
<1> HIDE DEF next
<1>7. CASE job = NoJob
  <2>1. InHand' = InHand \ Had(w)
    BY <1>4, <1>5, <1>7 DEF Had
  <2>2. (Range(taken) \ InHand)' = (Range(taken) \ InHand) \cup Had(w) \cup {next}
    BY <1>2, <1>3, <1>5, <2>1
  <2>3. QED
    BY <1>1, <2>1, <2>2 DEF Queue!Discard, next
<1>8. CASE job = next
  <2>1. InHand' = (InHand \ Had(w)) \cup {next}
    BY <1>4, <1>5, <1>6, <1>8 DEF Had
  <2>2. (Range(taken) \ InHand)' = (Range(taken) \ InHand) \cup Had(w)
    BY <1>2, <1>3, <1>5, <2>1
  <2>3. QED
    BY <1>1, <2>1, <2>2 DEF Queue!Take, next
<1>9. QED
  BY <1>1, <1>7, <1>8

LEMMA StepRefines == IInv /\ OneHand /\ [Next]_vars => [Queue!Next]_(Queue!vars)
<1> SUFFICES ASSUME IInv, OneHand, [Next]_vars PROVE [Queue!Next]_(Queue!vars)
  OBVIOUS
<1>1. TypeOK /\ TakenInOrder
  BY DEF IInv
<1>2. ASSUME NEW job \in Jobs, Put(job) PROVE Queue!Next
  BY <1>1, <1>2, PutRefines DEF Queue!Next
<1>3. ASSUME NEW w \in Workers, Queue!Work(Had(w)) PROVE Queue!Next
  <2>1. CASE hand[w] = NoJob
    <3>1. Had(w) = {}
      BY <2>1 DEF Had
    <3>2. QED
      BY <1>3, <3>1 DEF Queue!Next
  <2>2. CASE hand[w] # NoJob
    <3>1. Had(w) = {hand[w]} /\ hand[w] \in InHand
      BY <2>2 DEF Had, InHand
    <3>2. QED
      BY <1>3, <3>1 DEF Queue!Next
  <2>3. QED
    BY <2>1, <2>2
<1>4. ASSUME NEW w \in Workers, Moves(w) PROVE Queue!Next
  BY <1>1, <1>3, <1>4, MovesRefines DEF Queue!Work
<1>5. ASSUME NEW w \in Workers, NEW job, Takes(w, job) PROVE Queue!Next
  BY <1>1, <1>3, <1>5, TakesRefines DEF Queue!Work
<1>6. CASE UNCHANGED <<queue, taken, hand>>
  BY <1>6 DEF Queue!vars, InHand
<1>7. QED
  BY <1>2, <1>4, <1>5, <1>6, StepShape

LEMMA InitRefines == Init => Queue!Init
<1> SUFFICES ASSUME Init PROVE Queue!Init
  OBVIOUS
<1>1. InHand = {}
  BY DEF Init, InHand
<1>2. Range(taken) = {}
  BY DEF Init, Range
<1>3. QED
  BY <1>1, <1>2 DEF Init, Queue!Init

(* The workers implement a plain queue: jobs are taken in order, each is   *)
(* worked on by one worker and never comes back, for any number of jobs,   *)
(* daemons and drainers.                                                   *)
THEOREM ImplementsJobQueueThm == Spec => ImplementsJobQueue
BY InitRefines, StepRefines, OneHandInvariance, PTL DEF Spec, ImplementsJobQueue, Queue!Spec
-----------------------------------------------------------------------------
(* The facts in Hindsight.                                                 *)

(* A job in hand has no facts yet and is not completed, and a completed    *)
(* job was taken: so facts are never written a second time.                *)
FreshInv ==
  /\ \A job \in InHand : PlacesOf(job) = {} /\ job \notin completed
  /\ completed \subseteq Range(taken)

FactsInv == FactsAreAPrefix /\ FreshInv

(* What a step writes: nothing, or the first chunks of the job that its    *)
(* worker has in hand and is then done with.                               *)
Writes(w, n) ==
  /\ Process(w)
  /\ hand[w] \in Jobs
  /\ n \in 0 .. Chunks[hand[w]]
  /\ facts' = facts \o FactsOf(hand[w], n)
  /\ \/ completed' = completed
     \/ completed' = completed \cup {hand[w]} /\ n = Chunks[hand[w]]

LEMMA StepWrites ==
  ASSUME TypeOK, [Next]_vars
  PROVE  UNCHANGED <<facts, completed>> \/ \E w \in Workers, n \in Nat : Writes(w, n)
<1> DEFINE Goal == UNCHANGED <<facts, completed>> \/ \E w \in Workers, n \in Nat : Writes(w, n)
<1>1. ASSUME NEW w \in Workers, Process(w) PROVE Goal
  <2>1. pc[w] = "extracting"
    BY <1>1 DEF Process, Completes, ExtractFails, InsertFails, InsertRefused
  <2>2. hand[w] \in Jobs /\ Chunks[hand[w]] \in Nat
    BY <2>1, JobsAssumption DEF TypeOK
  <2>3. CASE Completes(w)
    <3>1. Chunks[hand[w]] \in 0 .. Chunks[hand[w]]
      BY <2>2
    <3>2. Writes(w, Chunks[hand[w]])
      BY <1>1, <2>2, <2>3, <3>1 DEF Writes, Completes
    <3>3. QED
      BY <2>2, <3>2
  <2>4. CASE InsertFails(w)
    <3>1. PICK k \in 1 .. Chunks[hand[w]] : facts' = facts \o FactsOf(hand[w], k - 1)
      BY <2>4 DEF InsertFails
    <3>2. k - 1 \in Nat /\ k - 1 \in 0 .. Chunks[hand[w]]
      BY <2>2
    <3>3. Writes(w, k - 1)
      BY <1>1, <2>2, <2>4, <3>1, <3>2 DEF Writes, InsertFails, Dies
    <3>4. QED
      BY <3>2, <3>3
  <2>5. CASE ExtractFails(w) \/ InsertRefused(w)
    BY <2>5 DEF ExtractFails, InsertRefused, Dies
  <2>6. QED
    BY <1>1, <2>3, <2>4, <2>5 DEF Process
<1>2. ASSUME NEW w \in Workers, Start(w) PROVE Goal
  BY <1>2 DEF Start
<1>3. ASSUME NEW d \in Daemons, Resume(d) \/ Timeout(d) PROVE Goal
  BY <1>3 DEF Resume, Timeout
<1>4. QED
  BY <1>1, <1>2, <1>3 DEF Next, Put, SetStop, vars

(* Where the facts of each job are after the first n chunks of a job       *)
(* without facts were written.                                             *)
LEMMA PlacesAfter ==
  ASSUME TypeOK, TypeOK', NEW job \in Jobs, NEW n \in Nat, PlacesOf(job) = {},
         facts' = facts \o FactsOf(job, n)
  PROVE  /\ \A other \in Jobs \ {job} :
              /\ PlacesOf(other)' = PlacesOf(other)
              /\ \A i \in PlacesOf(other) : facts'[i] = facts[i]
         /\ Len(facts) \in Nat
         /\ PlacesOf(job)' = Len(facts) + 1 .. Len(facts) + n
         /\ \A m \in 1 .. n : facts'[Len(facts) + m].chunk = m
<1> DEFINE new == FactsOf(job, n)
           L == Len(facts)
<1>1. L \in Nat /\ facts \in Seq(Fact) /\ DOMAIN facts = 1 .. L
  BY LenProperties DEF TypeOK
<1>2. /\ new \in Seq(Fact) /\ Len(new) = n
      /\ \A m \in 1 .. n : new[m].job = job /\ new[m].chunk = m
  <2>1. \A k \in 1 .. n : [job |-> job, chunk |-> k] \in Fact
    BY DEF Fact
  <2>2. new \in [1 .. n -> Fact]
    BY <2>1 DEF FactsOf
  <2>3. new \in Seq(Fact) /\ Len(new) = n
    BY <2>2, SeqDef, LenProperties
  <2>4. QED
    BY <2>3 DEF FactsOf
<1> HIDE DEF new
<1>3. /\ Len(facts') = L + n /\ DOMAIN facts' = 1 .. L + n
      /\ \A i \in 1 .. L + n : facts'[i] = IF i <= L THEN facts[i] ELSE new[i - L]
  <2>1. facts' = facts \o new
    BY DEF new
  <2>2. QED
    BY <1>1, <1>2, <2>1, ConcatProperties, LenProperties
<1> HIDE DEF L
<1>4. \A i \in 1 .. L : i \in 1 .. L + n /\ facts'[i] = facts[i]
  BY <1>1, <1>3
<1>5. \A i \in 1 .. L + n : i \in 1 .. L \/ (i - L \in 1 .. n /\ facts'[i] = new[i - L])
  BY <1>1, <1>3
<1>6. \A m \in 1 .. n : L + m \in 1 .. L + n /\ facts'[L + m] = new[m] /\ L + m \notin 1 .. L
  BY <1>1, <1>3
<1>7. \A i : i \in L + 1 .. L + n <=> i \in 1 .. L + n /\ i \notin 1 .. L
  BY <1>1
<1>8. \A i \in 1 .. L + n : i \notin 1 .. L => facts'[i].job = job
  BY <1>2, <1>5
<1>9. ASSUME NEW other \in Jobs \ {job}
      PROVE  PlacesOf(other)' = PlacesOf(other) /\ \A i \in PlacesOf(other) : facts'[i] = facts[i]
  <2>1. \A i \in 1 .. L + n : facts'[i].job = other => i \in 1 .. L
    BY <1>8, Zenon
  <2>2. \A i : i \in PlacesOf(other)' <=> i \in PlacesOf(other)
    BY <1>1, <1>3, <1>4, <2>1 DEF PlacesOf
  <2>3. QED
    BY <1>1, <1>4, <2>2 DEF PlacesOf
<1>10. PlacesOf(job)' = L + 1 .. L + n
  <2>1. \A i \in 1 .. L : facts'[i].job # job
    BY <1>1, <1>4 DEF PlacesOf
  <2>2. \A i : i \in PlacesOf(job)' <=> i \in L + 1 .. L + n
    BY <1>3, <1>7, <1>8, <2>1 DEF PlacesOf
  <2>3. QED
    BY <2>2
<1>11. \A m \in 1 .. n : facts'[L + m].chunk = m
  BY <1>2, <1>6
<1>12. QED
  BY <1>1, <1>9, <1>10, <1>11 DEF L

(* The sizes of two intervals.                                             *)
LEMMA BlockSize ==
  ASSUME NEW L \in Nat, NEW m \in Nat
  PROVE  Cardinality(L + 1 .. L + m) = m
<1>1. L + 1 \in Int /\ L + m \in Int
  OBVIOUS
<1>2. Cardinality(L + 1 .. L + m) = IF L + 1 > L + m THEN 0 ELSE (L + m) - (L + 1) + 1
  BY <1>1, FS_Interval
<1>3. (IF L + 1 > L + m THEN 0 ELSE (L + m) - (L + 1) + 1) = m
  OBVIOUS
<1>4. QED
  BY <1>2, <1>3

(* What was written stays a prefix.                                        *)
LEMMA PrefixAfter ==
  ASSUME TypeOK, TypeOK', FactsAreAPrefix,
         NEW job \in Jobs, NEW n \in Nat, n <= Chunks[job],
         PlacesOf(job) = {}, job \notin completed,
         facts' = facts \o FactsOf(job, n),
         \/ completed' = completed
         \/ completed' = completed \cup {job} /\ n = Chunks[job],
         Range(taken) \subseteq Range(taken'), job \in Range(taken)
  PROVE  FactsAreAPrefix'
<1> DEFINE Good(j) ==
             /\ \A k \in PlacesOf(j) : facts[k].chunk = Cardinality({i \in PlacesOf(j) : i <= k})
             /\ Cardinality(PlacesOf(j)) <= Chunks[j]
             /\ j \in completed => Cardinality(PlacesOf(j)) = Chunks[j]
             /\ PlacesOf(j) # {} => j \in Range(taken)
<1>1. ASSUME NEW other \in Jobs \ {job} PROVE Good(other)'
  <2>1. PlacesOf(other)' = PlacesOf(other) /\ \A i \in PlacesOf(other) : facts'[i] = facts[i]
    BY PlacesAfter
  <2>2. Good(other)
    BY DEF FactsAreAPrefix
  <2>3. other \in completed' <=> other \in completed
    OBVIOUS
  <2>4. \A k \in PlacesOf(other)' :
          facts'[k].chunk = Cardinality({i \in PlacesOf(other)' : i <= k})
    BY <2>1, <2>2, Zenon
  <2>5. QED
    BY <2>1, <2>2, <2>3, <2>4
<1>2. Good(job)'
  <2> DEFINE L == Len(facts)
             P == L + 1 .. L + n
  <2>1. L \in Nat /\ PlacesOf(job)' = P /\ \A m \in 1 .. n : facts'[L + m].chunk = m
    BY PlacesAfter
  <2>2. Cardinality(P) = n
    BY <2>1, BlockSize
  <2> HIDE DEF L
  <2>3. ASSUME NEW k \in P PROVE facts'[k].chunk = Cardinality({i \in P : i <= k})
    <3> DEFINE m == k - L
    <3>1. m \in 1 .. n /\ m \in Nat /\ L + m = k
      BY <2>1
    <3>2. {i \in P : i <= k} = L + 1 .. L + m
      BY <2>1
    <3> HIDE DEF m
    <3>3. Cardinality(L + 1 .. L + m) = m
      BY <2>1, <3>1, BlockSize
    <3>4. facts'[k].chunk = m
      BY <2>1, <3>1
    <3>5. QED
      BY <3>2, <3>3, <3>4, Zenon
  <2> HIDE DEF P
  <2>4. \A k \in PlacesOf(job)' : facts'[k].chunk = Cardinality({i \in PlacesOf(job)' : i <= k})
    BY <2>1, <2>3, Zenon
  <2>5. Cardinality(PlacesOf(job)') = n
    BY <2>1, <2>2, Zenon
  <2>6. QED
    BY <2>4, <2>5
<1> HIDE DEF Good
<1>3. \A j \in Jobs : Good(j)'
  BY <1>1, <1>2
<1>4. QED
  BY <1>3 DEF FactsAreAPrefix, Good

(* What is in hand after a worker moved on or took a job was in hand       *)
(* before, of another worker, or was never taken.                          *)
LEMMA HandsAfter ==
  ASSUME IInv, OneHand, NEW w \in Workers, Moves(w) \/ \E job : Takes(w, job)
  PROVE  /\ Range(taken) \subseteq Range(taken')
         /\ InHand' \subseteq (InHand \ {hand[w]}) \cup (Jobs \ Range(taken))
<1>1. TypeOK /\ TakenInOrder
  BY DEF IInv
<1>2. CASE Moves(w)
  <2>1. hand' = [hand EXCEPT ![w] = NoJob] /\ taken' = taken
    BY <1>2 DEF Moves
  <2>2. InHand' = (InHand \ {hand[w]}) \cup ({NoJob} \ {NoJob})
    BY <1>1, <2>1, HandAfter
  <2>3. QED
    BY <2>1, <2>2
<1>3. ASSUME NEW job, Takes(w, job)
      PROVE  /\ Range(taken) \subseteq Range(taken')
             /\ InHand' \subseteq (InHand \ {hand[w]}) \cup (Jobs \ Range(taken))
  <2>1. /\ queue # <<>> /\ taken' = Append(taken, Head(queue))
        /\ job \in {NoJob, Head(queue)} /\ hand' = [hand EXCEPT ![w] = job]
    BY <1>3 DEF Takes
  <2>2. Head(queue) \in Jobs /\ Head(queue) \notin Range(taken)
    BY <1>1, <2>1, HeadIsFresh
  <2>3. Range(taken') = Range(taken) \cup {Head(queue)}
    BY <1>1, <2>1, TakenAfter
  <2>4. InHand' = (InHand \ {hand[w]}) \cup ({job} \ {NoJob})
    BY <1>1, <2>1, <2>2, HandAfter
  <2>5. QED
    BY <2>1, <2>2, <2>3, <2>4
<1>4. QED
  BY <1>2, <1>3

(* No step takes a job back, and every job that comes to hand was in hand  *)
(* or was never taken.                                                     *)
LEMMA StepHands ==
  ASSUME IInv, OneHand, [Next]_vars
  PROVE  /\ Range(taken) \subseteq Range(taken')
         /\ InHand' \subseteq InHand \cup (Jobs \ Range(taken))
<1>1. ASSUME NEW job \in Jobs, Put(job) PROVE UNCHANGED <<taken, hand>>
  BY <1>1 DEF Put
<1>2. CASE UNCHANGED <<taken, hand>>
  BY <1>2 DEF InHand
<1>3. QED
  BY <1>1, <1>2, HandsAfter, StepShape

LEMMA InitFactsInv == Init => FactsInv
<1> SUFFICES ASSUME Init PROVE FactsInv
  OBVIOUS
<1>1. InHand = {} /\ completed = {} /\ \A job : PlacesOf(job) = {}
  BY DEF Init, InHand, PlacesOf
<1>2. Cardinality({}) = 0
  BY FS_EmptySet
<1>3. \A job \in Jobs : Cardinality(PlacesOf(job)) <= Chunks[job]
  BY <1>1, <1>2, JobsAssumption
<1>4. QED
  BY <1>1, <1>3 DEF FactsInv, FactsAreAPrefix, FreshInv

LEMMA StepFactsInv == IInv /\ OneHand /\ FactsInv /\ [Next]_vars => FactsInv'
<1> SUFFICES ASSUME IInv, OneHand, FactsInv, [Next]_vars PROVE FactsInv'
  OBVIOUS
<1>1. TypeOK /\ TypeOK'
  BY StepIInv DEF IInv
<1>2. /\ Range(taken) \subseteq Range(taken')
      /\ InHand' \subseteq InHand \cup (Jobs \ Range(taken))
  BY StepHands
<1>3. \A job \in Jobs \ Range(taken) : PlacesOf(job) = {} /\ job \notin completed
  BY DEF FactsInv, FactsAreAPrefix, FreshInv
<1>4. CASE UNCHANGED <<facts, completed>>
  <2>1. \A job : PlacesOf(job)' = PlacesOf(job)
    BY <1>4 DEF PlacesOf
  <2>2. FreshInv'
    BY <1>2, <1>3, <1>4, <2>1 DEF FactsInv, FreshInv
  <2>3. FactsAreAPrefix'
    BY <1>2, <1>4 DEF FactsInv, FactsAreAPrefix, PlacesOf
  <2>4. QED
    BY <2>2, <2>3 DEF FactsInv
<1>5. ASSUME NEW w \in Workers, NEW n \in Nat, Writes(w, n) PROVE FactsInv'
  <2> DEFINE job == hand[w]
  <2>1. /\ Process(w) /\ job \in Jobs
        /\ facts' = facts \o FactsOf(job, n)
        /\ \/ completed' = completed
           \/ completed' = completed \cup {job} /\ n = Chunks[job]
    BY <1>5 DEF Writes
  <2>2. n <= Chunks[job]
    BY <1>5, <2>1, JobsAssumption DEF Writes
  <2>3. job \in InHand
    BY <2>1, JobsAssumption DEF InHand
  <2>4. PlacesOf(job) = {} /\ job \notin completed /\ job \in Range(taken)
    BY <2>3 DEF FactsInv, FreshInv, OneHand
  <2>5. InHand' \subseteq (InHand \ {job}) \cup (Jobs \ Range(taken))
    BY <2>1, HandsAfter, ProcessShape
  <2> HIDE DEF job
  <2>6. FactsAreAPrefix'
    BY <1>1, <1>2, <2>1, <2>2, <2>4, PrefixAfter DEF FactsInv
  <2>7. InHand' \subseteq Jobs
    BY <1>1 DEF InHand, TypeOK
  <2>8. ASSUME NEW other \in InHand' PROVE PlacesOf(other)' = {} /\ other \notin completed'
    <3>1. other \in Jobs \ {job}
      BY <2>4, <2>5, <2>7
    <3>2. PlacesOf(other) = {} /\ other \notin completed
      BY <1>3, <2>5 DEF FactsInv, FreshInv
    <3>3. PlacesOf(other)' = PlacesOf(other)
      BY <1>1, <2>1, <2>4, <3>1, PlacesAfter
    <3>4. QED
      BY <2>1, <3>1, <3>2, <3>3
  <2>9. completed' \subseteq Range(taken')
    BY <1>2, <2>1, <2>4 DEF FactsInv, FreshInv
  <2>10. QED
    BY <2>6, <2>8, <2>9 DEF FactsInv, FreshInv
<1>6. QED
  BY <1>1, <1>4, <1>5, StepWrites

(* However files fail half way and connections break, the facts of a job   *)
(* are its first chunks, in order, each once.                              *)
THEOREM FactsAreAPrefixThm == Spec => []FactsAreAPrefix
<1>1. FactsInv => FactsAreAPrefix
  BY DEF FactsInv
<1>2. QED
  BY <1>1, OneHandInvariance, InitFactsInv, StepFactsInv, PTL DEF Spec
=============================================================================
