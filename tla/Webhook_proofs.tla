--------------------------- MODULE Webhook_proofs ---------------------------
(***************************************************************************)
(* Theorems about Webhook, for any payloads, buyers, tenants, overlapping  *)
(* deliveries and sizes of the memory.                                     *)
(***************************************************************************)
EXTENDS Webhook, SequenceTheorems, FiniteSetTheorems, TLAPS

-----------------------------------------------------------------------------
(* The ring buffer of module BuyerMemory forgets only what is older than   *)
(* what it was made for.                                                   *)

(* How many of len elements LastN(_, n) keeps.                             *)
Kept(len, n) == IF len > n THEN n ELSE len

(* What LastN returns, element by element.                                 *)
LEMMA LastNProperties ==
  ASSUME NEW S, NEW s \in Seq(S), NEW n \in Nat
  PROVE  /\ LastN(s, n) \in Seq(S)
         /\ Len(LastN(s, n)) = Kept(Len(s), n)
         /\ \A i \in 1 .. Kept(Len(s), n) : LastN(s, n)[i] = s[Len(s) - Kept(Len(s), n) + i]
<1> DEFINE first == IF Len(s) > n THEN Len(s) - n + 1 ELSE 1
           k == Kept(Len(s), n)
<1>1. Len(s) \in Nat
  BY LenProperties
<1>2. first \in 1 .. Len(s) + 1 /\ k \in Nat /\ first = Len(s) - k + 1
  BY <1>1 DEF Kept
<1>3. LastN(s, n) = SubSeq(s, first, Len(s))
  BY DEF LastN
<1> HIDE DEF first, k
<1>4. \A i \in first .. Len(s) : s[i] \in S
  BY <1>1, <1>2, ElementOfSeq
<1>5. first \in Int /\ Len(s) \in Int
  BY <1>1, <1>2
<1>6. /\ SubSeq(s, first, Len(s)) \in Seq(S)
      /\ Len(SubSeq(s, first, Len(s))) = IF first <= Len(s) THEN Len(s) - first + 1 ELSE 0
      /\ \A i \in 1 .. Len(s) - first + 1 : SubSeq(s, first, Len(s))[i] = s[first + i - 1]
  BY <1>4, <1>5, SubSeqProperties
<1>7. Len(s) - first + 1 = k /\ (IF first <= Len(s) THEN Len(s) - first + 1 ELSE 0) = k
  BY <1>1, <1>2
<1>8. \A i \in 1 .. k : first + i - 1 = Len(s) - k + i
  BY <1>1, <1>2
<1>9. LastN(s, n) \in Seq(S) /\ Len(LastN(s, n)) = k
      /\ \A i \in 1 .. k : LastN(s, n)[i] = s[Len(s) - k + i]
  BY <1>3, <1>6, <1>7, <1>8
<1>10. QED
  BY <1>9 DEF k

(* Trimming a bucket is taking its last MaxItems interactions.             *)
LEMMA TrimIsLastN ==
  ASSUME NEW S, NEW s \in Seq(S)
  PROVE  Trim(s) = LastN(s, MaxItems)
<1>1. CASE Len(s) > MaxItems
  BY <1>1 DEF Trim, LastN
<1>2. CASE ~ (Len(s) > MaxItems)
  <2>1. SubSeq(s, 1, Len(s)) = s
    BY SubSeqFull
  <2>2. QED
    BY <1>2, <2>1 DEF Trim, LastN
<1>3. QED
  BY <1>1, <1>2

(* remember keeps a bucket the end of the conversation: appending to the   *)
(* end of a log and trimming is the end of the longer log.                 *)
THEOREM TrimKeepsLatest ==
  ASSUME NEW S, NEW s \in Seq(S), NEW x \in S
  PROVE  Trim(Append(LastN(s, MaxItems), x)) = LastN(Append(s, x), MaxItems)
<1> DEFINE N == MaxItems
           len == Len(s)
           k == Kept(len, N)
           m == Kept(len + 1, N)
           r == LastN(s, N)
           a == Append(r, x)
           b == Append(s, x)
<1>1. N \in Nat \ {0} /\ len \in Nat /\ k \in Nat /\ m \in Nat
  <2>1. N \in Nat \ {0} /\ len \in Nat
    BY MaxItemsAssumption, LenProperties
  <2>2. QED
    BY <2>1 DEF Kept
<1>2. /\ r \in Seq(S) /\ Len(r) = k
      /\ \A i \in 1 .. k : r[i] = s[len - k + i]
  BY <1>1, LastNProperties
<1>3. /\ m = Kept(k + 1, N)
      /\ \A i \in 1 .. m :
           \/ k + 1 - m + i = k + 1 /\ len + 1 - m + i = len + 1
           \/ /\ k + 1 - m + i \in 1 .. k
              /\ len + 1 - m + i \in 1 .. len
              /\ len - k + (k + 1 - m + i) = len + 1 - m + i
  <2>1. /\ k = IF len > N THEN N ELSE len
        /\ m = IF len + 1 > N THEN N ELSE len + 1
    BY DEF Kept
  <2> HIDE DEF k, m, N, len
  <2>2. m = Kept(k + 1, N)
    BY <1>1, <2>1 DEF Kept
  <2>3. ASSUME NEW i \in 1 .. m
        PROVE  \/ k + 1 - m + i = k + 1 /\ len + 1 - m + i = len + 1
               \/ /\ k + 1 - m + i \in 1 .. k
                  /\ len + 1 - m + i \in 1 .. len
                  /\ len - k + (k + 1 - m + i) = len + 1 - m + i
    <3>1. i \in Int /\ 1 <= i /\ i <= m
      BY <1>1
    <3>2. m \in {k, k + 1} /\ m <= len + 1 /\ k <= len
      BY <1>1, <2>1
    <3>3. QED
      BY <1>1, <3>1, <3>2
  <2>4. QED
    BY <2>2, <2>3
<1> HIDE DEF k, m, r, N
<1>4. /\ a \in Seq(S) /\ Len(a) = k + 1
      /\ \A i \in 1 .. k : a[i] = r[i]
      /\ a[k + 1] = x
  BY <1>2, AppendProperties
<1>5. /\ b \in Seq(S) /\ Len(b) = len + 1
      /\ \A i \in 1 .. len : b[i] = s[i]
      /\ b[len + 1] = x
  BY AppendProperties
<1>6. Trim(a) = LastN(a, N)
  BY <1>4, TrimIsLastN DEF N
<1> HIDE DEF a, b, len
<1>7. /\ LastN(a, N) \in Seq(S) /\ Len(LastN(a, N)) = m
      /\ \A i \in 1 .. m : LastN(a, N)[i] = a[k + 1 - m + i]
  <2>1. Kept(Len(a), N) = m
    BY <1>3, <1>4
  <2>2. QED
    <3>1. N \in Nat /\ a \in Seq(S)
      BY <1>1, <1>4
    <3>2. /\ LastN(a, N) \in Seq(S)
          /\ Len(LastN(a, N)) = Kept(Len(a), N)
          /\ \A i \in 1 .. Kept(Len(a), N) : LastN(a, N)[i] = a[Len(a) - Kept(Len(a), N) + i]
      BY <3>1, LastNProperties
    <3>3. QED
      BY <1>1, <1>4, <2>1, <3>2
<1>8. /\ LastN(b, N) \in Seq(S) /\ Len(LastN(b, N)) = m
      /\ \A i \in 1 .. m : LastN(b, N)[i] = b[len + 1 - m + i]
  <2>1. Kept(Len(b), N) = m
    BY <1>5 DEF m
  <2>2. QED
    <3>1. N \in Nat /\ b \in Seq(S)
      BY <1>1, <1>5
    <3>2. /\ LastN(b, N) \in Seq(S)
          /\ Len(LastN(b, N)) = Kept(Len(b), N)
          /\ \A i \in 1 .. Kept(Len(b), N) : LastN(b, N)[i] = b[Len(b) - Kept(Len(b), N) + i]
      BY <3>1, LastNProperties
    <3>3. QED
      <4> DEFINE t == LastN(b, N)
      <4>1. t \in Seq(S) /\ Len(t) = m /\ \A i \in 1 .. m : t[i] = b[Len(b) - m + i]
        BY <2>1, <3>2
      <4> HIDE DEF t
      <4>2. ASSUME NEW i \in 1 .. m PROVE t[i] = b[len + 1 - m + i]
        <5>1. Len(b) - m + i = len + 1 - m + i
          BY <1>1, <1>5
        <5>2. t[i] = b[Len(b) - m + i]
          BY <4>1
        <5>3. QED
          BY <5>1, <5>2
      <4>3. QED
        BY <4>1, <4>2 DEF t
<1>9. ASSUME NEW i \in 1 .. m PROVE a[k + 1 - m + i] = b[len + 1 - m + i]
  <2>1. CASE k + 1 - m + i = k + 1 /\ len + 1 - m + i = len + 1
    BY <2>1, <1>4, <1>5
  <2>2. CASE /\ k + 1 - m + i \in 1 .. k
             /\ len + 1 - m + i \in 1 .. len
             /\ len - k + (k + 1 - m + i) = len + 1 - m + i
    <3> DEFINE u == k + 1 - m + i
               v == len + 1 - m + i
    <3>1. u \in 1 .. k /\ v \in 1 .. len /\ len - k + u = v
      BY <2>2
    <3> HIDE DEF u, v
    <3>2. a[u] = r[u] /\ r[u] = s[v] /\ b[v] = s[v]
      BY <1>2, <1>4, <1>5, <3>1
    <3>3. QED
      BY <3>2 DEF u, v
  <2>3. QED
    BY <1>3, <2>1, <2>2
<1>10. LastN(a, N) = LastN(b, N)
  <2>1. \A i \in 1 .. m : LastN(a, N)[i] = LastN(b, N)[i]
    BY <1>7, <1>8, <1>9
  <2>2. QED
    BY <1>7, <1>8, <2>1, SeqEqual
<1>11. QED
  BY <1>6, <1>10 DEF a, b, r, N

-----------------------------------------------------------------------------
(* The handlers.                                                           *)

(* A place in a batch has a message, a number and a sender.                *)
LEMMA BatchTypes ==
  ASSUME NEW batch \in Batches
  PROVE  /\ Content[batch] \in Seq(Messages)
         /\ Len(Content[batch]) \in Nat \ {0}
         /\ 1 \in 1 .. Len(Content[batch])
         /\ \A i \in 1 .. Len(Content[batch]) :
              Content[batch][i] \in Messages /\ Buyer(batch, Content[batch][i]) \in Buyers
<1>1. Content[batch] \in Seq(Messages) /\ Content[batch] # <<>>
  BY BatchesAssumption
<1>2. Len(Content[batch]) \in Nat \ {0}
  BY <1>1, EmptySeq
<1>3. \A i \in 1 .. Len(Content[batch]) : Content[batch][i] \in Messages
  BY <1>1, ElementOfSeq
<1>4. PhoneNumberId(batch) \in Numbers
  BY BatchesAssumption DEF PhoneNumberId
<1>5. QED
  BY <1>1, <1>2, <1>3, <1>4, BatchesAssumption DEF Buyer, Buyers

(* What is said is an interaction the memory can hold.                     *)
LEMMA SaidType ==
  ASSUME NEW m \in Messages
  PROVE  Said(m, "buyer") \in Item /\ Said(m, "agent") \in Item
  BY DEF Said, Item

(* What a step that remembers an interaction does to the memory and to the *)
(* log of all that was remembered: both keep their type and their relation.*)
LEMMA RememberKeepsRing ==
  ASSUME NEW st \in [Buyers -> Seq(Item)], NEW lg \in [Buyers -> Seq(Item)],
         \A b \in Buyers : st[b] = LastN(lg[b], MaxItems),
         NEW buyer \in Buyers, NEW item \in Item
  PROVE  /\ Remember(st, buyer, item) \in [Buyers -> Seq(Item)]
         /\ Noted(lg, buyer, item) \in [Buyers -> Seq(Item)]
         /\ \A b \in Buyers :
              Remember(st, buyer, item)[b] = LastN(Noted(lg, buyer, item)[b], MaxItems)
<1>1. lg[buyer] \in Seq(Item) /\ Append(lg[buyer], item) \in Seq(Item)
  BY AppendProperties
<1>2. Remember(st, buyer, item) = [st EXCEPT ![buyer] = LastN(Append(lg[buyer], item), MaxItems)]
  <2>1. Trim(Append(LastN(lg[buyer], MaxItems), item)) = LastN(Append(lg[buyer], item), MaxItems)
    BY <1>1, TrimKeepsLatest
  <2>2. QED
    BY <2>1 DEF Remember
<1>3. LastN(Append(lg[buyer], item), MaxItems) \in Seq(Item)
  BY <1>1, LastNProperties, MaxItemsAssumption
<1>4. QED
  BY <1>1, <1>2, <1>3 DEF Noted

(* The prompt is made of interactions.                                     *)
LEMMA PromptType ==
  ASSUME NEW st \in [Buyers -> Seq(Item)], NEW buyer \in Buyers, NEW m \in Messages
  PROVE  Prompt(st, buyer, m) \in Seq(Item)
<1>1. HistoryTurns \in Nat
  BY WebhookBoundsAssumption
<1>2. LastN(st[buyer], HistoryTurns) \in Seq(Item)
  BY <1>1, LastNProperties
<1>3. Recall(st, buyer, HistoryTurns) \in Seq(Item)
  BY <1>2, EmptySeq DEF Recall
<1>4. QED
  BY <1>3, SaidType, AppendProperties DEF Prompt
-----------------------------------------------------------------------------
(* TypeOK and RingHoldsLatest are inductive together: a step either leaves *)
(* both the memory and the log alone or appends the same interaction.      *)
IInv == TypeOK /\ RingHoldsLatest

(* Taking up a message from a memory and a log that agree (the handler's    *)
(* own, when it remembered a reply just before) keeps them so.             *)
LEMMA TakeUpStep ==
  ASSUME TypeOK, NEW h \in Handlers, NEW batch \in Batches,
         NEW i \in 1 .. Len(Content[batch]),
         NEW st \in [Buyers -> Seq(Item)], NEW lg \in [Buyers -> Seq(Item)],
         \A b \in Buyers : st[b] = LastN(lg[b], MaxItems),
         TakeUp(h, batch, i, st, lg)
  PROVE  /\ store' \in [Buyers -> Seq(Item)]
         /\ log' \in [Buyers -> Seq(Item)]
         /\ RingHoldsLatest'
         /\ prompt' \in [Handlers -> Seq(Item)]
         /\ pc' \in [Handlers -> {"idle", "llm", "sending", "sent"}]
         /\ job' \in [Handlers -> Batches]
         /\ next' \in [Handlers -> Nat]
         /\ \A g \in Handlers : next'[g] \in 1 .. Len(Content[job'[g]])
<1> DEFINE m     == Content[batch][i]
           buyer == Buyer(batch, m)
           st1   == Remember(st, buyer, Said(m, "buyer"))
           lg1   == Noted(lg, buyer, Said(m, "buyer"))
<1>1. m \in Messages /\ buyer \in Buyers /\ Said(m, "buyer") \in Item
  BY BatchTypes, SaidType
<1>2. /\ store' = st1
      /\ log' = lg1
      /\ prompt' = [prompt EXCEPT ![h] = Prompt(st1, buyer, m)]
      /\ pc' = [pc EXCEPT ![h] = "llm"]
      /\ job' = [job EXCEPT ![h] = batch]
      /\ next' = [next EXCEPT ![h] = i]
  BY DEF TakeUp
<1>3. /\ st1 \in [Buyers -> Seq(Item)]
      /\ lg1 \in [Buyers -> Seq(Item)]
      /\ \A b \in Buyers : st1[b] = LastN(lg1[b], MaxItems)
  BY <1>1, RememberKeepsRing
<1> HIDE DEF m, buyer, st1, lg1
<1>4. Prompt(st1, buyer, m) \in Seq(Item)
  BY <1>1, <1>3, PromptType
<1>5. i \in Nat
  BY BatchTypes
<1>6. /\ store' \in [Buyers -> Seq(Item)]
      /\ log' \in [Buyers -> Seq(Item)]
      /\ RingHoldsLatest'
  BY <1>2, <1>3 DEF RingHoldsLatest
<1>7. prompt' \in [Handlers -> Seq(Item)]
  BY <1>2, <1>4 DEF TypeOK
<1>8. /\ pc' \in [Handlers -> {"idle", "llm", "sending", "sent"}]
      /\ job' \in [Handlers -> Batches]
      /\ next' \in [Handlers -> Nat]
      /\ \A g \in Handlers : next'[g] \in 1 .. Len(Content[job'[g]])
  BY <1>2, <1>5 DEF TypeOK
<1>9. QED
  BY <1>6, <1>7, <1>8

(* Before anything is delivered there is nothing to remember.              *)
LEMMA InitIInv == Init => IInv
<1> SUFFICES ASSUME Init PROVE IInv
  OBVIOUS
<1>1. AnyBatch \in Batches
  BY BatchesAssumption DEF AnyBatch
<1>2. 1 \in 1 .. Len(Content[AnyBatch])
  BY <1>1, BatchTypes
<1>3. \A S : <<>> \in Seq(S) /\ Len(<<>>) = 0
  BY EmptySeq
<1>4. LastN(<<>>, MaxItems) = <<>>
  <2>1. <<>> \in Seq(Item)
    BY <1>3
  <2>2. Kept(0, MaxItems) = 0
    BY MaxItemsAssumption DEF Kept
  <2>3. LastN(<<>>, MaxItems) \in Seq(Item) /\ Len(LastN(<<>>, MaxItems)) = 0
    BY <2>1, <2>2, <1>3, LastNProperties, MaxItemsAssumption
  <2>4. QED
    BY <2>3, EmptySeq
<1>5. 0 \in 0 .. MaxDeliveries /\ 0 \in 0 .. MaxErrors
  BY WebhookBoundsAssumption
<1>6. RingHoldsLatest
  BY <1>4 DEF Init, RingHoldsLatest
<1>7. TypeOK
  BY <1>1, <1>2, <1>3, <1>5 DEF Init, TypeOK
<1>8. QED
  BY <1>6, <1>7 DEF IInv

(* Every step of a handler, of Meta and of the gateway preserves it.       *)
LEMMA StepIInv == IInv /\ [Next]_vars => IInv'
<1> SUFFICES ASSUME TypeOK, RingHoldsLatest, [Next]_vars PROVE IInv'
  BY DEF IInv
<1>0. \A b \in Buyers : store[b] = LastN(log[b], MaxItems)
  BY DEF RingHoldsLatest
<1>1. ASSUME NEW b \in Batches, Drop(b) PROVE IInv'
  <2>1. deliveries' \in [Batches -> 0 .. MaxDeliveries]
    BY <1>1, WebhookBoundsAssumption DEF Drop, Deliver, TypeOK
  <2>2. TypeOK'
    BY <1>1, <2>1 DEF Drop, TypeOK
  <2>3. QED
    BY <1>1, <2>2 DEF Drop, RingHoldsLatest, IInv
<1>2. ASSUME NEW b \in Batches, NEW h \in Handlers, Receive(h, b) PROVE IInv'
  <2>1. deliveries' \in [Batches -> 0 .. MaxDeliveries]
    BY <1>2, WebhookBoundsAssumption DEF Receive, Deliver, TypeOK
  <2>2. TakeUp(h, b, 1, store, log)
    BY <1>2 DEF Receive
  <2>3. /\ 1 \in 1 .. Len(Content[b])
        /\ store \in [Buyers -> Seq(Item)] /\ log \in [Buyers -> Seq(Item)]
    BY BatchTypes DEF TypeOK
  <2>4. /\ RingHoldsLatest'
        /\ store' \in [Buyers -> Seq(Item)]
        /\ log' \in [Buyers -> Seq(Item)]
        /\ prompt' \in [Handlers -> Seq(Item)]
        /\ pc' \in [Handlers -> {"idle", "llm", "sending", "sent"}]
        /\ job' \in [Handlers -> Batches]
        /\ next' \in [Handlers -> Nat]
        /\ \A g \in Handlers : next'[g] \in 1 .. Len(Content[job'[g]])
    BY <1>0, <2>2, <2>3, TakeUpStep
  <2>5. TypeOK'
    BY <1>2, <2>1, <2>4 DEF Receive, TypeOK
  <2>6. QED
    BY <2>4, <2>5 DEF IInv
<1>3. ASSUME NEW h \in Handlers, Respond(h) PROVE IInv'
  <2>1. <<>> \in Seq(Item)
    BY EmptySeq
  <2>2. QED
    BY <1>3, <2>1 DEF Respond, TypeOK, RingHoldsLatest, IInv
<1>4. ASSUME NEW h \in Handlers, GatewayDelivers(h) PROVE IInv'
  <2>1. Content[job[h]][next[h]] \in Messages
    BY BatchTypes DEF TypeOK
  <2>2. outbox' \in Seq(Messages)
    BY <1>4, <2>1, AppendProperties DEF GatewayDelivers, TypeOK
  <2>3. TypeOK'
    BY <1>4, <2>2 DEF GatewayDelivers, TypeOK
  <2>4. QED
    BY <1>4, <2>3 DEF GatewayDelivers, RingHoldsLatest, IInv
<1>5. ASSUME NEW h \in Handlers, Resume(h) PROVE IInv'
  <2> DEFINE batch == job[h]
             i     == next[h]
             m     == Content[batch][i]
             buyer == Buyer(batch, m)
             st    == Remember(store, buyer, Said(m, "agent"))
             lg    == Noted(log, buyer, Said(m, "agent"))
  <2>1. batch \in Batches /\ i \in 1 .. Len(Content[batch]) /\ i \in Nat
    BY DEF TypeOK
  <2>2. m \in Messages /\ buyer \in Buyers /\ Said(m, "agent") \in Item
    BY <2>1, BatchTypes, SaidType
  <2>3. store \in [Buyers -> Seq(Item)] /\ log \in [Buyers -> Seq(Item)]
    BY DEF TypeOK
  <2> HIDE DEF batch, i, m, buyer
  <2>4. /\ st \in [Buyers -> Seq(Item)]
        /\ lg \in [Buyers -> Seq(Item)]
        /\ \A b \in Buyers : st[b] = LastN(lg[b], MaxItems)
    BY <1>0, <2>2, <2>3, RememberKeepsRing
  <2>5. /\ UNCHANGED <<routed, outbox, deliveries, dropped, refused, errors>>
        /\ \/ /\ i < Len(Content[batch])
              /\ TakeUp(h, batch, i + 1, st, lg)
              /\ UNCHANGED acked
           \/ /\ store' = st
              /\ log' = lg
              /\ pc' = [pc EXCEPT ![h] = "idle"]
              /\ acked' = acked \cup {batch}
              /\ UNCHANGED <<job, next, prompt>>
    BY <1>5 DEF Resume, batch, i, m, buyer
  <2> HIDE DEF st, lg
  <2>6. CASE i < Len(Content[batch]) /\ TakeUp(h, batch, i + 1, st, lg) /\ UNCHANGED acked
    <3>1. i + 1 \in 1 .. Len(Content[batch])
      BY <2>1, <2>6, BatchTypes
    <3>2. /\ RingHoldsLatest'
          /\ store' \in [Buyers -> Seq(Item)]
          /\ log' \in [Buyers -> Seq(Item)]
          /\ prompt' \in [Handlers -> Seq(Item)]
          /\ pc' \in [Handlers -> {"idle", "llm", "sending", "sent"}]
          /\ job' \in [Handlers -> Batches]
          /\ next' \in [Handlers -> Nat]
          /\ \A g \in Handlers : next'[g] \in 1 .. Len(Content[job'[g]])
      BY <2>1, <2>4, <2>6, <3>1, TakeUpStep
    <3>3. TypeOK'
      BY <2>5, <2>6, <3>2 DEF TypeOK
    <3>4. QED
      BY <3>2, <3>3 DEF IInv
  <2>7. CASE /\ store' = st
             /\ log' = lg
             /\ pc' = [pc EXCEPT ![h] = "idle"]
             /\ acked' = acked \cup {batch}
             /\ UNCHANGED <<job, next, prompt>>
    <3>1. TypeOK'
      BY <2>1, <2>4, <2>5, <2>7 DEF TypeOK
    <3>2. RingHoldsLatest'
      BY <2>4, <2>7 DEF RingHoldsLatest
    <3>3. QED
      BY <3>1, <3>2 DEF IInv
  <2>8. QED
    BY <2>5, <2>6, <2>7
<1>6. ASSUME NEW h \in Handlers, GatewayFails(h) PROVE IInv'
  <2>1. errors' \in 0 .. MaxErrors
    BY <1>6, WebhookBoundsAssumption DEF GatewayFails, TypeOK
  <2>2. QED
    BY <1>6, <2>1 DEF GatewayFails, TypeOK, RingHoldsLatest, IInv
<1>7. ASSUME NEW n \in Numbers, NumberOnboards(n) \/ NumberLeaves(n) PROVE IInv'
  BY <1>7 DEF NumberOnboards, NumberLeaves, TypeOK, RingHoldsLatest, IInv
<1>8. CASE UNCHANGED vars
  BY <1>8 DEF vars, TypeOK, RingHoldsLatest, IInv
<1>9. QED
  BY <1>1, <1>2, <1>3, <1>4, <1>5, <1>6, <1>7, <1>8 DEF Next, HandlerStep

(* The types of Webhook's variables hold in every behaviour; in particular *)
(* a handler never works on a place beyond the end of its batch.           *)
THEOREM TypeCorrect == Spec => []TypeOK
<1>1. IInv => TypeOK
  BY DEF IInv
<1>2. QED
  BY InitIInv, StepIInv, <1>1, PTL DEF Spec

(* Whatever deliveries overlap or repeat, each buyer's memory is the end   *)
(* of everything that was ever remembered of the buyer.                    *)
THEOREM RingHoldsLatestThm == Spec => []RingHoldsLatest
<1>1. IInv => RingHoldsLatest
  BY DEF IInv
<1>2. QED
  BY InitIInv, StepIInv, <1>1, PTL DEF Spec
-----------------------------------------------------------------------------
(* Counting what is in a history.                                          *)

(* A count is a number, and it is positive when there is something to count.*)
LEMMA CountType ==
  ASSUME NEW S, NEW s \in Seq(S), NEW x
  PROVE  /\ IsFiniteSet({i \in DOMAIN s : s[i] = x})
         /\ Count(s, x) \in Nat
         /\ Count(s, x) > 0 <=> \E i \in DOMAIN s : s[i] = x
<1> DEFINE P == {i \in DOMAIN s : s[i] = x}
<1>1. Len(s) \in Nat /\ DOMAIN s = 1 .. Len(s)
  BY LenProperties
<1>2. IsFiniteSet(1 .. Len(s)) /\ P \in SUBSET (1 .. Len(s))
  BY <1>1, FS_Interval
<1>3. IsFiniteSet(P)
  BY <1>2, FS_Subset
<1> HIDE DEF P
<1>4. Cardinality(P) \in Nat /\ (Cardinality(P) = 0 <=> P = {})
  BY <1>3, FS_CardinalityType, FS_EmptySet
<1>5. QED
  BY <1>3, <1>4 DEF Count, P

(* Nothing is in the empty history.                                        *)
LEMMA CountEmpty == \A x : Count(<<>>, x) = 0
<1>1. \A x : {i \in DOMAIN <<>> : <<>>[i] = x} = {}
  OBVIOUS
<1>2. QED
  BY <1>1, FS_EmptySet DEF Count

(* An entry more counts for itself alone.                                  *)
LEMMA CountAppend ==
  ASSUME NEW S, NEW s \in Seq(S), NEW y \in S, NEW x
  PROVE  Count(Append(s, y), x) = Count(s, x) + (IF y = x THEN 1 ELSE 0)
<1> DEFINE P == {i \in DOMAIN s : s[i] = x}
           Q == {i \in DOMAIN Append(s, y) : Append(s, y)[i] = x}
<1>1. Len(s) \in Nat /\ DOMAIN s = 1 .. Len(s)
  BY LenProperties
<1>2. /\ DOMAIN Append(s, y) = 1 .. Len(s) + 1
      /\ \A i \in 1 .. Len(s) : Append(s, y)[i] = s[i]
      /\ Append(s, y)[Len(s) + 1] = y
  BY AppendProperties, LenProperties
<1>3. IsFiniteSet(P) /\ Cardinality(P) \in Nat
  BY CountType, FS_CardinalityType
<1>4. Len(s) + 1 \notin P
  BY <1>1
<1>5. Q = IF y = x THEN P \cup {Len(s) + 1} ELSE P
  <2>1. CASE y = x
    BY <1>1, <1>2, <2>1
  <2>2. CASE y # x
    BY <1>1, <1>2, <2>2
  <2>3. QED
    BY <2>1, <2>2
<1> HIDE DEF P, Q
<1>6. Cardinality(Q) = Cardinality(P) + (IF y = x THEN 1 ELSE 0)
  <2>1. Cardinality(P \cup {Len(s) + 1}) = Cardinality(P) + 1
    BY <1>3, <1>4, FS_AddElement
  <2>2. QED
    BY <1>3, <1>5, <2>1
<1>7. QED
  BY <1>6 DEF Count, P, Q

(* A longer history has the shorter one's beginnings, and itself.          *)
LEMMA Beginnings ==
  ASSUME NEW S, NEW s \in Seq(S), NEW y \in S
  PROVE  /\ \A n \in 1 .. Len(s) : SubSeq(Append(s, y), 1, n) = SubSeq(s, 1, n)
         /\ SubSeq(Append(s, y), 1, Len(s) + 1) = Append(s, y)
<1>1. Len(s) \in Nat /\ Append(s, y) \in Seq(S) /\ Len(Append(s, y)) = Len(s) + 1
  BY LenProperties, AppendProperties
<1>2. ASSUME NEW n \in 1 .. Len(s)
      PROVE  SubSeq(Append(s, y), 1, n) = SubSeq(s, 1, n)
  <2>1. \A i \in 1 .. n : Append(s, y)[i] = s[i] /\ s[i] \in S
    BY <1>1, AppendProperties, ElementOfSeq
  <2>2. n \in Int /\ n >= 1 /\ (IF 1 <= n THEN n - 1 + 1 ELSE 0) = n /\ n - 1 + 1 = n
    BY <1>1
  <2>3. /\ SubSeq(s, 1, n) \in Seq(S)
        /\ Len(SubSeq(s, 1, n)) = n
        /\ \A i \in 1 .. n : SubSeq(s, 1, n)[i] = s[1 + i - 1]
    BY <2>1, <2>2, SubSeqProperties
  <2>4. \A i \in 1 .. n : Append(s, y)[i] \in S
    BY <2>1
  <2>5. /\ SubSeq(Append(s, y), 1, n) \in Seq(S)
        /\ Len(SubSeq(Append(s, y), 1, n)) = n
        /\ \A i \in 1 .. n : SubSeq(Append(s, y), 1, n)[i] = Append(s, y)[1 + i - 1]
    BY <2>2, <2>4, SubSeqProperties
  <2>6. \A i \in 1 .. n : 1 + i - 1 = i
    BY <2>2
  <2>7. \A i \in 1 .. n : SubSeq(Append(s, y), 1, n)[i] = SubSeq(s, 1, n)[i]
    BY <2>1, <2>3, <2>5, <2>6
  <2>8. QED
    BY <2>3, <2>5, <2>7, SeqEqual
<1>3. QED
  BY <1>1, <1>2, SubSeqFull
-----------------------------------------------------------------------------
(* What the steps do to the histories and to the handlers' hands.          *)

InHand(h) == Content[job[h]][next[h]]

LEMMA InHandType ==
  ASSUME TypeOK, NEW h \in Handlers
  PROVE  /\ job[h] \in Batches
         /\ next[h] \in DOMAIN Content[job[h]]
         /\ next[h] \in Nat
         /\ InHand(h) \in BatchMessages(job[h])
<1>1. job[h] \in Batches /\ next[h] \in Nat /\ next[h] \in 1 .. Len(Content[job[h]])
  BY DEF TypeOK
<1>2. DOMAIN Content[job[h]] = 1 .. Len(Content[job[h]])
  BY <1>1, BatchTypes, LenProperties
<1>3. QED
  BY <1>1, <1>2 DEF InHand, BatchMessages, Range

(* A message of a batch, and the memory it belongs to.                     *)
LEMMA MessageTypes ==
  ASSUME NEW b \in Batches, NEW m \in BatchMessages(b)
  PROVE  m \in Messages /\ Buyer(b, m) \in Buyers
<1>1. PICK i \in DOMAIN Content[b] : Content[b][i] = m
  BY DEF BatchMessages, Range
<1>2. i \in 1 .. Len(Content[b])
  BY BatchTypes, LenProperties
<1>3. QED
  BY <1>1, <1>2, BatchTypes

(* A message tells its batch.                                              *)
LEMMA OneBatch ==
  ASSUME NEW b \in Batches, NEW c \in Batches,
         NEW m \in BatchMessages(b), m \in BatchMessages(c)
  PROVE  b = c
  BY MessagesAssumption DEF BatchMessages, Range

(* What is counted is a number.                                            *)
LEMMA Counters ==
  ASSUME TypeOK
  PROVE  /\ outbox \in Seq(Messages)
         /\ \A x : Count(outbox, x) \in Nat
         /\ \A b \in Batches : deliveries[b] \in Nat
<1>1. outbox \in Seq(Messages)
  BY DEF TypeOK
<1>2. \A x : Count(outbox, x) \in Nat
  BY <1>1, CountType
<1>3. \A b \in Batches : deliveries[b] \in Nat
  BY WebhookBoundsAssumption DEF TypeOK
<1>4. QED
  BY <1>1, <1>2, <1>3

(* Sets of handlers are finite.                                            *)
LEMMA HandlerSets ==
  ASSUME NEW S \in SUBSET Handlers
  PROVE  /\ Cardinality(S) \in Nat
         /\ \A T \in SUBSET S : Cardinality(T) <= Cardinality(S)
         /\ \A h \in Handlers \ S : Cardinality(S \cup {h}) = Cardinality(S) + 1
         /\ \A h \in S : Cardinality(S \ {h}) = Cardinality(S) - 1
<1>1. IsFiniteSet(S)
  BY HandlersAssumption, FS_Subset
<1>2. QED
  BY <1>1, FS_CardinalityType, FS_Subset, FS_AddElement, FS_RemoveElement

(* Remembering something of one message counts for that message alone.     *)
LEMMA NotedCounts ==
  ASSUME NEW lg \in [Buyers -> Seq(Item)],
         NEW b \in Batches, NEW x \in BatchMessages(b), NEW role \in {"buyer", "agent"},
         NEW c \in Batches, NEW m \in BatchMessages(c), NEW item \in {"buyer", "agent"}
  PROVE  /\ Noted(lg, Buyer(c, m), Said(m, item)) \in [Buyers -> Seq(Item)]
         /\ Count(Noted(lg, Buyer(c, m), Said(m, item))[Buyer(b, x)], Said(x, role))
              = Count(lg[Buyer(b, x)], Said(x, role)) + (IF x = m /\ role = item THEN 1 ELSE 0)
<1> DEFINE lg2 == Noted(lg, Buyer(c, m), Said(m, item))
<1>1. /\ m \in Messages /\ Buyer(c, m) \in Buyers
      /\ x \in Messages /\ Buyer(b, x) \in Buyers
  BY MessageTypes
<1>2. Said(m, item) \in Item
  BY <1>1 DEF Said, Item
<1>3. /\ lg[Buyer(c, m)] \in Seq(Item) /\ lg[Buyer(b, x)] \in Seq(Item)
      /\ Append(lg[Buyer(c, m)], Said(m, item)) \in Seq(Item)
  BY <1>1, <1>2, AppendProperties
<1>4. lg2 \in [Buyers -> Seq(Item)]
  BY <1>1, <1>3 DEF Noted
<1>5. Said(m, item) = Said(x, role) <=> x = m /\ role = item
  BY DEF Said
<1>6. CASE Buyer(b, x) = Buyer(c, m)
  <2>1. lg2[Buyer(b, x)] = Append(lg[Buyer(b, x)], Said(m, item))
    BY <1>1, <1>6 DEF Noted
  <2>2. Count(lg2[Buyer(b, x)], Said(x, role))
          = Count(lg[Buyer(b, x)], Said(x, role)) + (IF Said(m, item) = Said(x, role) THEN 1 ELSE 0)
    BY <1>2, <1>3, <2>1, CountAppend
  <2>3. QED
    BY <1>4, <1>5, <2>2
<1>7. CASE Buyer(b, x) # Buyer(c, m)
  <2>1. lg2[Buyer(b, x)] = lg[Buyer(b, x)]
    BY <1>1, <1>7 DEF Noted
  <2>2. x # m
    BY <1>7, OneBatch
  <2>3. Count(lg[Buyer(b, x)], Said(x, role)) \in Nat
    BY <1>3, CountType
  <2>4. QED
    BY <1>4, <2>1, <2>2, <2>3
<1>8. QED
  BY <1>6, <1>7

(* The steps that deliver nothing and remember nothing: they leave a       *)
(* handler where it is, bring it closer to the gateway or end it.          *)
Quiet ==
  /\ UNCHANGED <<outbox, log>>
  /\ \A h \in Handlers :
       \/ pc'[h] = "idle"
       \/ /\ job'[h] = job[h] /\ next'[h] = next[h]
          /\ pc'[h] = pc[h] \/ (pc[h] = "llm" /\ pc'[h] = "sending")
  /\ \A b \in Batches : deliveries'[b] \in Nat /\ deliveries'[b] >= deliveries[b]
  /\ acked' \ dropped' \subseteq acked \ dropped

(* A handler takes a message up, having written lg to the log before.      *)
Takes(h, batch, i, lg) ==
  /\ log' = Noted(lg, Buyer(batch, Content[batch][i]), Said(Content[batch][i], "buyer"))
  /\ pc' = [pc EXCEPT ![h] = "llm"]
  /\ job' = [job EXCEPT ![h] = batch]
  /\ next' = [next EXCEPT ![h] = i]

Receives(h, batch) ==
  /\ pc[h] = "idle"
  /\ Takes(h, batch, 1, log)
  /\ deliveries[batch] \in Nat
  /\ deliveries' = [deliveries EXCEPT ![batch] = @ + 1]
  /\ UNCHANGED <<outbox, acked, dropped>>

Delivers(h) ==
  /\ pc[h] = "sending"
  /\ outbox' = Append(outbox, InHand(h))
  /\ pc' = [pc EXCEPT ![h] = "sent"]
  /\ UNCHANGED <<job, next, log, deliveries, acked, dropped>>

Reply(h) == Noted(log, Buyer(job[h], InHand(h)), Said(InHand(h), "agent"))

GoesOn(h) ==
  /\ pc[h] = "sent"
  /\ next[h] < Len(Content[job[h]])
  /\ Takes(h, job[h], next[h] + 1, Reply(h))
  /\ UNCHANGED <<outbox, deliveries, acked, dropped>>

Finishes(h) ==
  /\ pc[h] = "sent"
  /\ next[h] = Len(Content[job[h]])
  /\ log' = Reply(h)
  /\ pc' = [pc EXCEPT ![h] = "idle"]
  /\ acked' = acked \cup {job[h]}
  /\ UNCHANGED <<job, next, outbox, deliveries, dropped>>

(* As far as the histories are concerned these are all the steps.          *)
LEMMA StepShape ==
  ASSUME TypeOK, [Next]_vars
  PROVE  \/ Quiet
         \/ \E h \in Handlers : \E b \in Batches : Receives(h, b)
         \/ \E h \in Handlers : Delivers(h) \/ GoesOn(h) \/ Finishes(h)
<1>0. \A b \in Batches : deliveries[b] \in Nat
  BY WebhookBoundsAssumption DEF TypeOK
<1>1. ASSUME NEW b \in Batches, Drop(b) PROVE Quiet
  <2>1. \A c \in Batches : deliveries'[c] \in Nat /\ deliveries'[c] >= deliveries[c]
    BY <1>0, <1>1 DEF Drop, Deliver, TypeOK
  <2>2. QED
    BY <1>1, <2>1 DEF Drop, Quiet
<1>2. ASSUME NEW b \in Batches, NEW h \in Handlers, Receive(h, b) PROVE Receives(h, b)
  BY <1>0, <1>2 DEF Receive, Deliver, TakeUp, Receives, Takes
<1>3. ASSUME NEW h \in Handlers, Respond(h) PROVE Quiet
  <2>1. \A g \in Handlers : pc'[g] = pc[g] \/ (pc[g] = "llm" /\ pc'[g] = "sending")
    BY <1>3 DEF Respond, TypeOK
  <2>2. QED
    BY <1>0, <1>3, <2>1 DEF Respond, Quiet
<1>4. ASSUME NEW h \in Handlers, GatewayDelivers(h) PROVE Delivers(h)
  BY <1>4 DEF GatewayDelivers, Delivers, InHand
<1>5. ASSUME NEW h \in Handlers, Resume(h) PROVE GoesOn(h) \/ Finishes(h)
  <2>1. next[h] \in 1 .. Len(Content[job[h]]) /\ Len(Content[job[h]]) \in Nat
    BY BatchTypes DEF TypeOK
  <2>2. CASE next[h] < Len(Content[job[h]])
    BY <1>5, <2>2 DEF Resume, TakeUp, GoesOn, Takes, Reply, InHand
  <2>3. CASE ~ (next[h] < Len(Content[job[h]]))
    <3>1. next[h] = Len(Content[job[h]])
      BY <2>1, <2>3
    <3>2. QED
      BY <1>5, <2>3, <3>1 DEF Resume, Finishes, Reply, InHand
  <2>4. QED
    BY <2>2, <2>3
<1>6. ASSUME NEW h \in Handlers, GatewayFails(h) PROVE Quiet
  <2>1. \A g \in Handlers : pc'[g] = "idle" \/ pc'[g] = pc[g]
    BY <1>6 DEF GatewayFails, TypeOK
  <2>2. QED
    BY <1>0, <1>6, <2>1 DEF GatewayFails, Quiet
<1>7. ASSUME NEW n \in Numbers, NumberOnboards(n) \/ NumberLeaves(n) PROVE Quiet
  BY <1>0, <1>7 DEF NumberOnboards, NumberLeaves, Quiet
<1>8. CASE UNCHANGED vars
  BY <1>0, <1>8 DEF vars, Quiet
<1>9. QED
  BY <1>1, <1>2, <1>3, <1>4, <1>5, <1>6, <1>7, <1>8 DEF Next, HandlerStep
-----------------------------------------------------------------------------
(* AnswersWithinDeliveries.  A delivery allows each place of its batch one *)
(* answer; DeliveryInv counts the handlers that may still use theirs.      *)

Owing(b, i) ==
  {h \in Handlers :
     /\ pc[h] # "idle" /\ job[h] = b
     /\ next[h] < i \/ (next[h] = i /\ pc[h] \in {"llm", "sending"})}

DeliveryInv ==
  \A b \in Batches : \A i \in DOMAIN Content[b] :
    Count(outbox, Content[b][i]) + Cardinality(Owing(b, i)) <= deliveries[b]

LEMMA InitDelivery == Init => DeliveryInv
<1> SUFFICES ASSUME Init, NEW b \in Batches, NEW i \in DOMAIN Content[b]
             PROVE  Count(outbox, Content[b][i]) + Cardinality(Owing(b, i)) <= deliveries[b]
  BY DEF DeliveryInv
<1>1. Owing(b, i) = {}
  BY DEF Init, Owing
<1>2. QED
  BY <1>1, CountEmpty, FS_EmptySet DEF Init

LEMMA StepDelivery == TypeOK /\ DeliveryInv /\ [Next]_vars => DeliveryInv'
<1> SUFFICES ASSUME TypeOK, DeliveryInv, [Next]_vars,
                    NEW b \in Batches, NEW i \in DOMAIN Content[b]
             PROVE  Count(outbox', Content[b][i]) + Cardinality(Owing(b, i)') <= deliveries'[b]
  BY DEF DeliveryInv
<1> DEFINE x == Content[b][i]
           O == Owing(b, i)
           P == Owing(b, i)'
<1>1. Count(outbox, x) + Cardinality(O) <= deliveries[b]
  BY DEF DeliveryInv
<1>2. O \in SUBSET Handlers /\ P \in SUBSET Handlers
  BY DEF Owing
<1>3. /\ Cardinality(O) \in Nat /\ Cardinality(P) \in Nat
      /\ P \subseteq O => Cardinality(P) <= Cardinality(O)
      /\ \A h \in Handlers \ O : Cardinality(O \cup {h}) = Cardinality(O) + 1
      /\ \A h \in O : Cardinality(O \ {h}) = Cardinality(O) - 1
  BY <1>2, HandlerSets
<1>4. i \in Nat /\ i >= 1
  BY BatchTypes, LenProperties
<1>5. outbox \in Seq(Messages) /\ Count(outbox, x) \in Nat /\ deliveries[b] \in Nat
  BY Counters
<1> HIDE DEF O, P, x
<1>6. CASE Quiet
  <2>1. P \subseteq O
    BY <1>6 DEF Quiet, O, P, Owing
  <2>2. Count(outbox', x) = Count(outbox, x)
    BY <1>6 DEF Quiet
  <2>3. deliveries'[b] \in Nat /\ deliveries'[b] >= deliveries[b]
    BY <1>6 DEF Quiet
  <2>4. QED
    BY <1>1, <1>3, <1>5, <2>1, <2>2, <2>3 DEF x, P
<1>7. ASSUME NEW h \in Handlers, NEW c \in Batches, Receives(h, c)
      PROVE  Count(outbox', x) + Cardinality(P) <= deliveries'[b]
  <2>1. /\ pc[h] = "idle" /\ Count(outbox', x) = Count(outbox, x)
        /\ pc' = [pc EXCEPT ![h] = "llm"]
        /\ job' = [job EXCEPT ![h] = c]
        /\ next' = [next EXCEPT ![h] = 1]
        /\ deliveries' = [deliveries EXCEPT ![c] = @ + 1]
    BY <1>7 DEF Receives, Takes
  <2>2. h \notin O
    BY <2>1 DEF O, Owing
  <2>3. CASE c = b
    <3>1. P \subseteq O \cup {h}
      BY <2>1 DEF O, P, Owing, TypeOK
    <3>2. Cardinality(P) <= Cardinality(O) + 1
      <4>1. O \cup {h} \in SUBSET Handlers
        BY <1>2
      <4>2. Cardinality(P) <= Cardinality(O \cup {h})
        BY <3>1, <4>1, HandlerSets
      <4>3. QED
        BY <1>3, <2>2, <4>2
    <3>3. deliveries'[b] = deliveries[b] + 1
      BY <2>1, <2>3 DEF TypeOK
    <3>4. QED
      BY <1>1, <1>3, <1>5, <2>1, <3>2, <3>3
  <2>4. CASE c # b
    <3>1. P \subseteq O
      BY <2>1, <2>4 DEF O, P, Owing, TypeOK
    <3>2. deliveries'[b] = deliveries[b]
      BY <2>1, <2>4 DEF TypeOK
    <3>3. QED
      BY <1>1, <1>3, <1>5, <2>1, <3>1, <3>2
  <2>5. QED
    BY <2>3, <2>4
<1>8. ASSUME NEW h \in Handlers, Delivers(h)
      PROVE  Count(outbox', x) + Cardinality(P) <= deliveries'[b]
  <2>1. /\ pc[h] = "sending"
        /\ outbox' = Append(outbox, InHand(h))
        /\ pc' = [pc EXCEPT ![h] = "sent"]
        /\ UNCHANGED <<job, next, deliveries>>
    BY <1>8 DEF Delivers
  <2>2. /\ job[h] \in Batches /\ next[h] \in DOMAIN Content[job[h]]
        /\ InHand(h) \in Messages
    BY InHandType, MessageTypes
  <2>3. Count(outbox', x) = Count(outbox, x) + (IF InHand(h) = x THEN 1 ELSE 0)
    BY <1>5, <2>1, <2>2, CountAppend
  <2>4. P \subseteq O
    BY <2>1 DEF O, P, Owing, TypeOK
  <2>5. CASE InHand(h) = x
    <3>1. job[h] = b /\ next[h] = i
      BY <2>2, <2>5, MessagesAssumption DEF InHand, x
    <3>2. h \in O /\ h \notin P
      BY <1>4, <2>1, <3>1 DEF O, P, Owing, TypeOK
    <3>3. O \ {h} \in SUBSET Handlers /\ P \subseteq O \ {h}
      BY <1>2, <2>4, <3>2
    <3>4. Cardinality(P) <= Cardinality(O) - 1
      BY <1>3, <3>2, <3>3, HandlerSets
    <3>5. QED
      BY <1>1, <1>3, <1>5, <2>1, <2>3, <2>5, <3>4
  <2>6. CASE InHand(h) # x
    BY <1>1, <1>3, <1>5, <2>1, <2>3, <2>4, <2>6
  <2>7. QED
    BY <2>5, <2>6
<1>9. ASSUME NEW h \in Handlers, GoesOn(h) \/ Finishes(h)
      PROVE  Count(outbox', x) + Cardinality(P) <= deliveries'[b]
  <2>1. pc[h] = "sent" /\ UNCHANGED <<outbox, deliveries>>
    BY <1>9 DEF GoesOn, Finishes
  <2>2. next[h] \in Nat
    BY DEF TypeOK
  <2>3. P \subseteq O
    <3>1. CASE GoesOn(h)
      BY <1>4, <2>2, <3>1 DEF GoesOn, Takes, O, P, Owing, TypeOK
    <3>2. CASE Finishes(h)
      BY <3>2 DEF Finishes, O, P, Owing, TypeOK
    <3>3. QED
      BY <1>9, <3>1, <3>2
  <2>4. QED
    BY <1>1, <1>3, <1>5, <2>1, <2>3
<1>10. QED
  BY <1>6, <1>7, <1>8, <1>9, StepShape DEF x, P

(* Whatever deliveries overlap, fail or are repeated, a buyer gets at most *)
(* one answer to a message for each time Meta delivered it.                *)
THEOREM AnswersWithinDeliveriesThm == Spec => []AnswersWithinDeliveries
<1>1. IInv /\ DeliveryInv => AnswersWithinDeliveries
  <2> SUFFICES ASSUME TypeOK, DeliveryInv, NEW b \in Batches, NEW m \in BatchMessages(b)
               PROVE  Count(outbox, m) <= deliveries[b]
    BY DEF AnswersWithinDeliveries, IInv
  <2>1. PICK i \in DOMAIN Content[b] : Content[b][i] = m
    BY DEF BatchMessages, Range
  <2>2. Owing(b, i) \in SUBSET Handlers
    BY DEF Owing
  <2>3. Cardinality(Owing(b, i)) \in Nat /\ Count(outbox, m) \in Nat /\ deliveries[b] \in Nat
    BY <2>2, HandlerSets, Counters
  <2>4. QED
    BY <2>1, <2>3 DEF DeliveryInv
<1>2. Init => IInv /\ DeliveryInv
  BY InitIInv, InitDelivery
<1>3. IInv /\ DeliveryInv /\ [Next]_vars => (IInv /\ DeliveryInv)'
  BY StepIInv, StepDelivery DEF IInv
<1>4. QED
  BY <1>1, <1>2, <1>3, PTL DEF Spec
-----------------------------------------------------------------------------
(* MemoryTellsTheTruth.  A handler that was told of a delivery owes the    *)
(* memory a reply, and one that has a message in hand remembered it:       *)
(* MemoryInv counts both, so that a reply remembered later finds its       *)
(* delivery and its message.                                               *)

Holding(m) == {h \in Handlers : pc[h] # "idle" /\ InHand(h) = m}
Delivered(m) == {h \in Handlers : pc[h] = "sent" /\ InHand(h) = m}

Replies(lg, b, m) == Count(lg[Buyer(b, m)], Said(m, "agent"))
Mentions(lg, b, m) == Count(lg[Buyer(b, m)], Said(m, "buyer"))

(* No beginning of a history has more replies to m than mentions of m.     *)
Truthful(said, m) ==
  \A n \in 1 .. Len(said) :
    Count(SubSeq(said, 1, n), Said(m, "agent")) <= Count(SubSeq(said, 1, n), Said(m, "buyer"))

MemoryInv ==
  \A b \in Batches : \A m \in BatchMessages(b) :
    /\ Replies(log, b, m) + Cardinality(Delivered(m)) <= Count(outbox, m)
    /\ Replies(log, b, m) + Cardinality(Holding(m)) <= Mentions(log, b, m)
    /\ Truthful(log[Buyer(b, m)], m)

LEMMA InitMemory == Init => MemoryInv
<1> SUFFICES ASSUME Init, NEW b \in Batches, NEW m \in BatchMessages(b)
             PROVE  /\ Replies(log, b, m) + Cardinality(Delivered(m)) <= Count(outbox, m)
                    /\ Replies(log, b, m) + Cardinality(Holding(m)) <= Mentions(log, b, m)
                    /\ Truthful(log[Buyer(b, m)], m)
  BY DEF MemoryInv
<1>1. Holding(m) = {} /\ Delivered(m) = {}
  BY DEF Init, Holding, Delivered
<1>2. log[Buyer(b, m)] = <<>>
  BY MessageTypes DEF Init
<1>3. Truthful(<<>>, m)
  BY DEF Truthful
<1>4. QED
  BY <1>1, <1>2, <1>3, CountEmpty, FS_EmptySet DEF Init, Replies, Mentions

(* A history stays truthful when its last entry leaves its counts so.      *)
LEMMA TruthfulAppend ==
  ASSUME NEW s \in Seq(Item), NEW y \in Item, NEW m, Truthful(s, m),
         Count(Append(s, y), Said(m, "agent")) <= Count(Append(s, y), Said(m, "buyer"))
  PROVE  Truthful(Append(s, y), m)
<1> SUFFICES ASSUME NEW n \in 1 .. Len(Append(s, y))
             PROVE  Count(SubSeq(Append(s, y), 1, n), Said(m, "agent"))
                      <= Count(SubSeq(Append(s, y), 1, n), Said(m, "buyer"))
  BY DEF Truthful
<1>1. Len(s) \in Nat /\ Len(Append(s, y)) = Len(s) + 1
  BY LenProperties, AppendProperties
<1>2. CASE n \in 1 .. Len(s)
  BY <1>2, Beginnings DEF Truthful
<1>3. CASE n = Len(s) + 1
  <2>1. SubSeq(Append(s, y), 1, n) = Append(s, y)
    BY <1>3, Beginnings
  <2>2. QED
    BY <2>1
<1>4. QED
  BY <1>1, <1>2, <1>3

(* So does a log of all buyers.                                            *)
LEMMA TruthfulNoted ==
  ASSUME NEW lg \in [Buyers -> Seq(Item)],
         NEW b \in Batches, NEW x \in BatchMessages(b),
         NEW c \in Batches, NEW m \in BatchMessages(c), NEW item \in {"buyer", "agent"},
         Truthful(lg[Buyer(b, x)], x),
         Replies(Noted(lg, Buyer(c, m), Said(m, item)), b, x)
           <= Mentions(Noted(lg, Buyer(c, m), Said(m, item)), b, x)
  PROVE  Truthful(Noted(lg, Buyer(c, m), Said(m, item))[Buyer(b, x)], x)
<1>1. /\ m \in Messages /\ Buyer(c, m) \in Buyers
      /\ x \in Messages /\ Buyer(b, x) \in Buyers
  BY MessageTypes
<1>2. Said(m, item) \in Item
  BY <1>1 DEF Said, Item
<1>3. CASE Buyer(b, x) = Buyer(c, m)
  <2>1. Noted(lg, Buyer(c, m), Said(m, item))[Buyer(b, x)] = Append(lg[Buyer(b, x)], Said(m, item))
    BY <1>1, <1>3 DEF Noted
  <2>2. lg[Buyer(b, x)] \in Seq(Item)
    BY <1>1
  <2>3. QED
    BY <1>2, <2>1, <2>2, TruthfulAppend DEF Replies, Mentions
<1>4. CASE Buyer(b, x) # Buyer(c, m)
  BY <1>1, <1>4 DEF Noted
<1>5. QED
  BY <1>3, <1>4

LEMMA StepMemory == TypeOK /\ MemoryInv /\ [Next]_vars => MemoryInv'
<1> SUFFICES ASSUME TypeOK, MemoryInv, [Next]_vars,
                    NEW b \in Batches, NEW x \in BatchMessages(b)
             PROVE  /\ Replies(log', b, x) + Cardinality(Delivered(x)') <= Count(outbox', x)
                    /\ Replies(log', b, x) + Cardinality(Holding(x)') <= Mentions(log', b, x)
                    /\ Truthful(log'[Buyer(b, x)], x)
  BY DEF MemoryInv, Replies, Mentions, Truthful
<1> DEFINE H == Holding(x)
           I == Holding(x)'
           D == Delivered(x)
           E == Delivered(x)'
           Goal == /\ Replies(log', b, x) + Cardinality(E) <= Count(outbox', x)
                   /\ Replies(log', b, x) + Cardinality(I) <= Mentions(log', b, x)
                   /\ Truthful(log'[Buyer(b, x)], x)
<1>1. /\ Replies(log, b, x) + Cardinality(D) <= Count(outbox, x)
      /\ Replies(log, b, x) + Cardinality(H) <= Mentions(log, b, x)
      /\ Truthful(log[Buyer(b, x)], x)
  BY DEF MemoryInv
<1>2. /\ H \in SUBSET Handlers /\ I \in SUBSET Handlers
      /\ D \in SUBSET Handlers /\ E \in SUBSET Handlers
  BY DEF Holding, Delivered
<1>3. /\ Cardinality(H) \in Nat /\ Cardinality(I) \in Nat
      /\ Cardinality(D) \in Nat /\ Cardinality(E) \in Nat
      /\ I \subseteq H => Cardinality(I) <= Cardinality(H)
      /\ E \subseteq D => Cardinality(E) <= Cardinality(D)
  BY <1>2, HandlerSets
<1>4. ASSUME NEW h \in Handlers
      PROVE  /\ I \subseteq H \cup {h} => Cardinality(I) <= Cardinality(H) + 1
             /\ E \subseteq D \cup {h} => Cardinality(E) <= Cardinality(D) + 1
             /\ h \in H /\ I \subseteq H \ {h} => Cardinality(I) <= Cardinality(H) - 1
             /\ h \in D /\ E \subseteq D \ {h} => Cardinality(E) <= Cardinality(D) - 1
  <2>1. ASSUME NEW S \in SUBSET Handlers, NEW T \in SUBSET Handlers
        PROVE  /\ T \subseteq S \cup {h} => Cardinality(T) <= Cardinality(S) + 1
               /\ h \in S /\ T \subseteq S \ {h} => Cardinality(T) <= Cardinality(S) - 1
    <3>1. /\ S \cup {h} \in SUBSET Handlers /\ S \ {h} \in SUBSET Handlers
          /\ Cardinality(S) \in Nat /\ Cardinality(T) \in Nat
      BY HandlerSets
    <3>2. /\ T \subseteq S \cup {h} => Cardinality(T) <= Cardinality(S \cup {h})
          /\ T \subseteq S \ {h} => Cardinality(T) <= Cardinality(S \ {h})
      BY <3>1, HandlerSets
    <3>3. /\ h \notin S => Cardinality(S \cup {h}) = Cardinality(S) + 1
          /\ h \in S => S \cup {h} = S
          /\ h \in S => Cardinality(S \ {h}) = Cardinality(S) - 1
      BY HandlerSets
    <3>4. QED
      BY <3>1, <3>2, <3>3
  <2>2. QED
    BY <1>2, <2>1
<1>5. /\ log \in [Buyers -> Seq(Item)]
      /\ outbox \in Seq(Messages) /\ Count(outbox, x) \in Nat
  BY Counters DEF TypeOK
<1>6. Replies(log, b, x) \in Nat /\ Mentions(log, b, x) \in Nat
  BY <1>5, MessageTypes, CountType DEF Replies, Mentions
<1>7. \A h \in Handlers : /\ job[h] \in Batches /\ next[h] \in Nat
                          /\ InHand(h) \in BatchMessages(job[h]) /\ InHand(h) \in Messages
  BY InHandType, MessageTypes
<1> HIDE DEF H, I, D, E
<1>8. CASE Quiet
  <2>1. I \subseteq H /\ E \subseteq D
    BY <1>8 DEF Quiet, I, E, H, D, Holding, Delivered, InHand
  <2>2. QED
    BY <1>1, <1>3, <1>5, <1>6, <1>8, <2>1 DEF Quiet, I, E
<1>9. ASSUME NEW h \in Handlers, NEW c \in Batches, Receives(h, c) PROVE Goal
  <2> DEFINE m == Content[c][1]
  <2>1. m \in BatchMessages(c)
    BY BatchTypes, LenProperties DEF BatchMessages, Range
  <2>2. /\ pc[h] = "idle" /\ outbox' = outbox
        /\ log' = Noted(log, Buyer(c, m), Said(m, "buyer"))
        /\ pc' = [pc EXCEPT ![h] = "llm"]
        /\ job' = [job EXCEPT ![h] = c]
        /\ next' = [next EXCEPT ![h] = 1]
    BY <1>9 DEF Receives, Takes
  <2>3. /\ \A g \in Handlers : g # h =>
             pc'[g] = pc[g] /\ job'[g] = job[g] /\ next'[g] = next[g]
        /\ pc'[h] = "llm" /\ Content[job'[h]][next'[h]] = m
    BY <2>2 DEF TypeOK
  <2> HIDE DEF m
  <2>4. /\ Replies(log', b, x) = Replies(log, b, x)
        /\ Mentions(log', b, x) = Mentions(log, b, x) + (IF x = m THEN 1 ELSE 0)
    BY <1>5, <1>6, <2>1, <2>2, NotedCounts DEF Replies, Mentions
  <2>5. E \subseteq D
    BY <2>3 DEF E, D, Delivered, InHand
  <2>6. IF x = m THEN I \subseteq H \cup {h} ELSE I \subseteq H
    BY <2>3 DEF I, H, Holding, InHand
  <2>7. /\ Replies(log', b, x) + Cardinality(E) <= Count(outbox', x)
        /\ Replies(log', b, x) + Cardinality(I) <= Mentions(log', b, x)
    <3>1. /\ Cardinality(E) <= Cardinality(D)
          /\ Cardinality(I) <= Cardinality(H) + (IF x = m THEN 1 ELSE 0)
      BY <1>3, <1>4, <2>5, <2>6
    <3>2. Count(outbox', x) = Count(outbox, x)
      BY <2>2
    <3>3. QED
      BY <1>1, <1>3, <1>5, <1>6, <2>4, <3>1, <3>2
  <2>8. Truthful(log'[Buyer(b, x)], x)
    <3>1. Replies(log', b, x) <= Mentions(log', b, x)
      BY <1>1, <1>3, <1>6, <2>4
    <3>2. QED
      BY <1>1, <1>5, <2>1, <2>2, <3>1, TruthfulNoted
  <2>9. QED
    BY <2>7, <2>8
<1>10. ASSUME NEW h \in Handlers, Delivers(h) PROVE Goal
  <2>1. /\ outbox' = Append(outbox, InHand(h)) /\ log' = log
        /\ pc' = [pc EXCEPT ![h] = "sent"]
        /\ pc[h] = "sending" /\ UNCHANGED <<job, next>>
    BY <1>10 DEF Delivers
  <2>2. Count(outbox', x) = Count(outbox, x) + (IF InHand(h) = x THEN 1 ELSE 0)
    BY <1>5, <1>7, <2>1, CountAppend
  <2>3. I \subseteq H
    BY <2>1 DEF I, H, Holding, InHand, TypeOK
  <2>4. IF InHand(h) = x THEN E \subseteq D \cup {h} ELSE E \subseteq D
    BY <2>1 DEF E, D, Delivered, InHand, TypeOK
  <2>5. QED
    <3>1. /\ Cardinality(E) <= Cardinality(D) + (IF InHand(h) = x THEN 1 ELSE 0)
          /\ Cardinality(I) <= Cardinality(H)
      BY <1>3, <1>4, <2>3, <2>4
    <3>2. /\ Replies(log', b, x) = Replies(log, b, x)
          /\ Mentions(log', b, x) = Mentions(log, b, x)
          /\ Truthful(log'[Buyer(b, x)], x)
      BY <1>1, <2>1
    <3>3. QED
      BY <1>1, <1>3, <1>5, <1>6, <2>2, <3>1, <3>2
<1>11. ASSUME NEW h \in Handlers, GoesOn(h) \/ Finishes(h) PROVE Goal
  <2> DEFINE m == InHand(h)
             c == job[h]
             lg == Reply(h)
  <2>1. /\ c \in Batches /\ m \in BatchMessages(c) /\ next[h] \in Nat
        /\ pc[h] = "sent" /\ outbox' = outbox
    BY <1>7, <1>11 DEF GoesOn, Finishes
  <2>2. lg = Noted(log, Buyer(c, m), Said(m, "agent"))
    BY DEF Reply
  <2>3. x = m => h \in H /\ h \in D
    BY <2>1 DEF H, D, Holding, Delivered
  <2> HIDE DEF m, c, lg
  <2>4. /\ lg \in [Buyers -> Seq(Item)]
        /\ Replies(lg, b, x) = Replies(log, b, x) + (IF x = m THEN 1 ELSE 0)
        /\ Mentions(lg, b, x) = Mentions(log, b, x)
    BY <1>5, <1>6, <2>1, <2>2, NotedCounts DEF Replies, Mentions
  <2>5. Replies(lg, b, x) <= Mentions(lg, b, x)
    <3>1. x = m => Cardinality(H) >= 1
      <4>1. ASSUME x = m PROVE Cardinality(H) >= 1
        <5>1. h \in H /\ H \ {h} \in SUBSET Handlers
          BY <1>2, <2>3, <4>1
        <5>2. Cardinality(H \ {h}) = Cardinality(H) - 1 /\ Cardinality(H \ {h}) \in Nat
          BY <1>2, <5>1, HandlerSets
        <5>3. QED
          BY <1>3, <5>2
      <4>2. QED
        BY <4>1
    <3>2. QED
      BY <1>1, <1>3, <1>6, <2>4, <3>1
  <2>6. Truthful(lg[Buyer(b, x)], x)
    BY <1>1, <1>5, <2>1, <2>2, <2>5, TruthfulNoted
  <2>7. CASE Finishes(h)
    <3>1. log' = lg /\ pc' = [pc EXCEPT ![h] = "idle"] /\ UNCHANGED <<job, next>>
      BY <2>7 DEF Finishes, lg
    <3>2. /\ I \subseteq H /\ E \subseteq D
          /\ x = m => I \subseteq H \ {h} /\ E \subseteq D \ {h}
      BY <3>1 DEF I, H, E, D, Holding, Delivered, InHand, TypeOK
    <3>3. /\ Cardinality(E) <= Cardinality(D) - (IF x = m THEN 1 ELSE 0)
          /\ Cardinality(I) <= Cardinality(H) - (IF x = m THEN 1 ELSE 0)
      BY <1>3, <1>4, <2>3, <3>2
    <3>4. /\ Replies(log', b, x) = Replies(log, b, x) + (IF x = m THEN 1 ELSE 0)
          /\ Mentions(log', b, x) = Mentions(log, b, x)
          /\ Count(outbox', x) = Count(outbox, x)
      BY <2>1, <2>4, <3>1
    <3>5. QED
      BY <1>1, <1>3, <1>5, <1>6, <2>6, <3>1, <3>3, <3>4
  <2>8. CASE GoesOn(h)
    <3> DEFINE n == Content[c][next[h] + 1]
    <3>1. n \in BatchMessages(c) /\ n # m
      <4>1. /\ next[h] + 1 \in DOMAIN Content[c] /\ next[h] \in DOMAIN Content[c]
        BY <2>1, <2>8, BatchTypes, LenProperties DEF GoesOn, TypeOK, c
      <4>2. next[h] + 1 # next[h]
        BY <2>1
      <4>3. n # m
        BY <2>1, <4>1, <4>2, MessagesAssumption DEF m, c, InHand
      <4>4. QED
        BY <4>1, <4>3 DEF BatchMessages, Range
    <3>2. /\ log' = Noted(lg, Buyer(c, n), Said(n, "buyer"))
          /\ pc' = [pc EXCEPT ![h] = "llm"]
          /\ job' = [job EXCEPT ![h] = c]
          /\ next' = [next EXCEPT ![h] = next[h] + 1]
      BY <2>8 DEF GoesOn, Takes, lg, c
    <3>3. /\ \A g \in Handlers : g # h =>
               pc'[g] = pc[g] /\ job'[g] = job[g] /\ next'[g] = next[g]
          /\ pc'[h] = "llm" /\ Content[job'[h]][next'[h]] = n
      BY <3>2 DEF TypeOK
    <3> HIDE DEF n
    <3>4. /\ Replies(log', b, x) = Replies(lg, b, x)
          /\ Mentions(log', b, x) = Mentions(lg, b, x) + (IF x = n THEN 1 ELSE 0)
      <4>1. Replies(lg, b, x) \in Nat /\ Mentions(lg, b, x) \in Nat
        BY <1>6, <2>4
      <4>2. QED
        BY <2>1, <2>4, <3>1, <3>2, <4>1, NotedCounts DEF Replies, Mentions
    <3>5. /\ E \subseteq D
          /\ x = m => E \subseteq D \ {h}
      BY <3>3 DEF E, D, Delivered, InHand
    <3>6. /\ I \subseteq H \cup {h}
          /\ x # n => I \subseteq H
          /\ x = m => I \subseteq H \ {h}
      BY <3>1, <3>3 DEF I, H, Holding, InHand
    <3>7. /\ Replies(log', b, x) + Cardinality(E) <= Count(outbox', x)
          /\ Replies(log', b, x) + Cardinality(I) <= Mentions(log', b, x)
      <4>1. /\ Cardinality(E) <= Cardinality(D) - (IF x = m THEN 1 ELSE 0)
            /\ Cardinality(I) <= Cardinality(H) - (IF x = m THEN 1 ELSE 0) + (IF x = n THEN 1 ELSE 0)
        <5>1. CASE x = m
          BY <1>3, <1>4, <2>3, <3>1, <3>5, <3>6, <5>1
        <5>2. CASE x # m
          BY <1>3, <1>4, <3>5, <3>6, <5>2
        <5>3. QED
          BY <5>1, <5>2
      <4>2. /\ Replies(log', b, x) = Replies(log, b, x) + (IF x = m THEN 1 ELSE 0)
            /\ Mentions(log', b, x) = Mentions(log, b, x) + (IF x = n THEN 1 ELSE 0)
            /\ Count(outbox', x) = Count(outbox, x)
        BY <2>1, <2>4, <3>4
      <4>3. CASE x = m
        BY <1>1, <1>3, <1>5, <1>6, <3>1, <4>1, <4>2, <4>3
      <4>4. CASE x # m
        BY <1>1, <1>3, <1>5, <1>6, <4>1, <4>2, <4>4
      <4>5. QED
        BY <4>3, <4>4
    <3>8. Replies(log', b, x) <= Mentions(log', b, x)
      BY <1>6, <2>4, <2>5, <3>4
    <3>9. Truthful(log'[Buyer(b, x)], x)
      BY <2>1, <2>4, <2>6, <3>1, <3>2, <3>8, TruthfulNoted
    <3>10. QED
      BY <3>7, <3>9
  <2>9. QED
    BY <1>11, <2>7, <2>8
<1>12. QED
  BY <1>8, <1>9, <1>10, <1>11, StepShape DEF I, E

(* Whatever deliveries interleave, the log a prompt is made of never holds *)
(* a reply the buyer did not get, nor one before the message it answers.   *)
THEOREM MemoryTellsTheTruthThm == Spec => []MemoryTellsTheTruth
<1>1. IInv /\ MemoryInv => MemoryTellsTheTruth
  <2> SUFFICES ASSUME TypeOK, MemoryInv, NEW b \in Batches, NEW m \in BatchMessages(b)
               PROVE  /\ Replies(log, b, m) <= Count(outbox, m)
                      /\ Truthful(log[Buyer(b, m)], m)
    BY DEF MemoryTellsTheTruth, IInv, Replies, Truthful
  <2>1. Delivered(m) \in SUBSET Handlers
    BY DEF Delivered
  <2>2. Cardinality(Delivered(m)) \in Nat /\ Count(outbox, m) \in Nat
    BY <2>1, HandlerSets, Counters
  <2>3. Replies(log, b, m) \in Nat
    BY MessageTypes, CountType DEF Replies, TypeOK
  <2>4. QED
    BY <2>2, <2>3 DEF MemoryInv
<1>2. Init => IInv /\ MemoryInv
  BY InitIInv, InitMemory
<1>3. IInv /\ MemoryInv /\ [Next]_vars => (IInv /\ MemoryInv)'
  BY StepIInv, StepMemory DEF IInv
<1>4. QED
  BY <1>1, <1>2, <1>3, PTL DEF Spec
-----------------------------------------------------------------------------
(* AnsweredInOrder and AckedIsAnswered.  The messages a handler has behind *)
(* it are answered, and the replies to them remembered.                    *)

OrderInv ==
  \A h \in Handlers : pc[h] # "idle" =>
    \A i \in 1 .. next[h] :
      i < next[h] \/ pc[h] = "sent" => Count(outbox, Content[job[h]][i]) > 0

AckInv ==
  \A h \in Handlers : pc[h] # "idle" =>
    \A i \in 1 .. next[h] - 1 : Replies(log, job[h], Content[job[h]][i]) > 0

LEMMA PlaceMessages ==
  ASSUME TypeOK, NEW h \in Handlers, NEW i \in 1 .. next[h]
  PROVE  i \in DOMAIN Content[job[h]] /\ Content[job[h]][i] \in BatchMessages(job[h])
<1>1. next[h] \in Nat /\ next[h] \in 1 .. Len(Content[job[h]]) /\ job[h] \in Batches
  BY DEF TypeOK
<1>2. DOMAIN Content[job[h]] = 1 .. Len(Content[job[h]]) /\ Len(Content[job[h]]) \in Nat
  BY <1>1, BatchTypes, LenProperties
<1>3. i \in DOMAIN Content[job[h]]
  BY <1>1, <1>2
<1>4. QED
  BY <1>3 DEF BatchMessages, Range

LEMMA RepliesType ==
  ASSUME TypeOK, NEW b \in Batches, NEW x \in BatchMessages(b)
  PROVE  Replies(log, b, x) \in Nat
  BY MessageTypes, CountType DEF Replies, TypeOK

(* A handler that resumes remembers the reply it was told the delivery of. *)
LEMMA ResumeReplies ==
  ASSUME TypeOK, NEW h \in Handlers, GoesOn(h) \/ Finishes(h),
         NEW b \in Batches, NEW x \in BatchMessages(b)
  PROVE  Replies(log', b, x) = Replies(log, b, x) + (IF x = InHand(h) THEN 1 ELSE 0)
<1> DEFINE m == InHand(h)
           c == job[h]
           lg == Reply(h)
<1>1. c \in Batches /\ m \in BatchMessages(c) /\ next[h] \in Nat
  BY InHandType
<1>2. lg = Noted(log, Buyer(c, m), Said(m, "agent")) /\ log \in [Buyers -> Seq(Item)]
  BY DEF Reply, TypeOK
<1> HIDE DEF lg, m
<1>3. /\ lg \in [Buyers -> Seq(Item)]
      /\ Replies(lg, b, x) = Replies(log, b, x) + (IF x = m THEN 1 ELSE 0)
  BY <1>1, <1>2, NotedCounts DEF Replies
<1>4. CASE Finishes(h)
  BY <1>3, <1>4 DEF Finishes, lg, m
<1>5. CASE GoesOn(h)
  <2> DEFINE n == Content[c][next[h] + 1]
  <2>1. next[h] + 1 \in DOMAIN Content[c]
    BY <1>1, <1>5, BatchTypes, LenProperties DEF GoesOn, TypeOK
  <2>2. n \in BatchMessages(c)
    BY <2>1 DEF BatchMessages, Range
  <2>3. log' = Noted(lg, Buyer(c, n), Said(n, "buyer"))
    BY <1>5 DEF GoesOn, Takes, lg
  <2> HIDE DEF n, c
  <2>4. Replies(log', b, x) = Replies(lg, b, x) + 0
    BY <1>1, <1>3, <2>2, <2>3, NotedCounts DEF Replies
  <2>5. Replies(lg, b, x) \in Nat
    BY <1>3, RepliesType
  <2>6. QED
    BY <1>3, <2>4, <2>5 DEF m
<1>6. QED
  BY <1>4, <1>5

(* What was answered or remembered stays so.                               *)
LEMMA HistoriesGrow ==
  ASSUME TypeOK, [Next]_vars
  PROVE  /\ \A x : Count(outbox', x) \in Nat /\ Count(outbox', x) >= Count(outbox, x)
         /\ \A b \in Batches : \A x \in BatchMessages(b) :
              Replies(log', b, x) \in Nat /\ Replies(log', b, x) >= Replies(log, b, x)
<1>1. /\ log \in [Buyers -> Seq(Item)]
      /\ outbox \in Seq(Messages) /\ \A x : Count(outbox, x) \in Nat
  BY Counters DEF TypeOK
<1>2. \A b \in Batches : \A x \in BatchMessages(b) : Replies(log, b, x) \in Nat
  BY RepliesType
<1>3. CASE Quiet
  BY <1>1, <1>2, <1>3 DEF Quiet
<1>4. ASSUME NEW h \in Handlers, NEW c \in Batches, Receives(h, c)
      PROVE  /\ outbox' = outbox
             /\ \A b \in Batches : \A x \in BatchMessages(b) : Replies(log', b, x) = Replies(log, b, x)
  <2>1. Content[c][1] \in BatchMessages(c)
    BY BatchTypes, LenProperties DEF BatchMessages, Range
  <2>2. ASSUME NEW b \in Batches, NEW x \in BatchMessages(b)
        PROVE  Replies(log', b, x) = Replies(log, b, x)
    <3>1. Replies(log', b, x) = Replies(log, b, x) + 0
      BY <1>1, <1>4, <2>1, NotedCounts DEF Receives, Takes, Replies
    <3>2. QED
      BY <1>2, <3>1
  <2>3. QED
    BY <1>4, <2>2 DEF Receives
<1>5. ASSUME NEW h \in Handlers, Delivers(h)
      PROVE  /\ log' = log
             /\ \A x : Count(outbox', x) = Count(outbox, x) + (IF InHand(h) = x THEN 1 ELSE 0)
  <2>1. InHand(h) \in Messages
    BY InHandType, MessageTypes
  <2>2. QED
    BY <1>1, <1>5, <2>1, CountAppend DEF Delivers
<1>6. ASSUME NEW h \in Handlers, GoesOn(h) \/ Finishes(h)
      PROVE  /\ outbox' = outbox
             /\ \A b \in Batches : \A x \in BatchMessages(b) :
                  Replies(log', b, x) = Replies(log, b, x) + (IF x = InHand(h) THEN 1 ELSE 0)
  BY <1>6, ResumeReplies DEF GoesOn, Finishes
<1>7. CASE \E h \in Handlers : \E c \in Batches : Receives(h, c)
  BY <1>1, <1>2, <1>4, <1>7
<1>8. CASE \E h \in Handlers : Delivers(h)
  BY <1>1, <1>2, <1>5, <1>8
<1>9. CASE \E h \in Handlers : GoesOn(h) \/ Finishes(h)
  BY <1>1, <1>2, <1>6, <1>9
<1>10. QED
  BY <1>3, <1>7, <1>8, <1>9, StepShape

LEMMA StepOrder == TypeOK /\ OrderInv /\ [Next]_vars => OrderInv'
<1> SUFFICES ASSUME TypeOK, OrderInv, [Next]_vars,
                    NEW g \in Handlers, pc'[g] # "idle", NEW i \in 1 .. next'[g],
                    i < next'[g] \/ pc'[g] = "sent"
             PROVE  Count(outbox', Content[job'[g]][i]) > 0
  BY DEF OrderInv
<1>1. \A x : /\ Count(outbox, x) \in Nat /\ Count(outbox', x) \in Nat
             /\ Count(outbox', x) >= Count(outbox, x)
  BY Counters, HistoriesGrow
<1>2. next[g] \in Nat /\ job[g] \in Batches
  BY DEF TypeOK
<1>3. ASSUME job'[g] = job[g], next'[g] = next[g], pc[g] # "idle",
             pc'[g] = "sent" => pc[g] = "sent"
      PROVE  Count(outbox', Content[job'[g]][i]) > 0
  <2>1. Count(outbox, Content[job[g]][i]) > 0
    BY <1>3 DEF OrderInv
  <2>2. QED
    BY <1>1, <1>3, <2>1
<1>4. CASE Quiet
  <2>1. /\ job'[g] = job[g] /\ next'[g] = next[g] /\ pc[g] # "idle"
        /\ pc'[g] = "sent" => pc[g] = "sent"
    BY <1>4 DEF Quiet
  <2>2. QED
    BY <1>3, <2>1
<1>5. ASSUME NEW h \in Handlers, NEW c \in Batches, Receives(h, c)
      PROVE  Count(outbox', Content[job'[g]][i]) > 0
  <2>1. CASE g = h
    BY <1>5, <2>1 DEF Receives, Takes, TypeOK
  <2>2. CASE g # h
    <3>1. job'[g] = job[g] /\ next'[g] = next[g] /\ pc'[g] = pc[g]
      BY <1>5, <2>2 DEF Receives, Takes, TypeOK
    <3>2. QED
      BY <1>3, <3>1
  <2>3. QED
    BY <2>1, <2>2
<1>6. ASSUME NEW h \in Handlers, Delivers(h)
      PROVE  Count(outbox', Content[job'[g]][i]) > 0
  <2>1. /\ job' = job /\ next' = next /\ outbox' = Append(outbox, InHand(h))
        /\ pc[h] = "sending" /\ pc' = [pc EXCEPT ![h] = "sent"]
    BY <1>6 DEF Delivers
  <2>2. CASE g = h /\ i = next[h]
    <3>1. Content[job'[g]][i] = InHand(h)
      BY <2>1, <2>2 DEF InHand
    <3>2. InHand(h) \in Messages /\ outbox \in Seq(Messages)
      BY InHandType, MessageTypes, Counters
    <3>3. Count(outbox', InHand(h)) = Count(outbox, InHand(h)) + 1
      BY <2>1, <3>2, CountAppend
    <3>4. QED
      BY <1>1, <3>1, <3>3
  <2>3. CASE g = h /\ i # next[h]
    <3>1. i \in 1 .. next[g] /\ i < next[g] /\ pc[g] # "idle"
      BY <1>2, <2>1, <2>3
    <3>2. Count(outbox, Content[job[g]][i]) > 0
      BY <3>1 DEF OrderInv
    <3>3. QED
      BY <1>1, <2>1, <3>2
  <2>4. CASE g # h
    <3>1. pc'[g] = pc[g]
      BY <2>1, <2>4 DEF TypeOK
    <3>2. QED
      BY <1>3, <2>1, <3>1
  <2>5. QED
    BY <2>2, <2>3, <2>4
<1>7. ASSUME NEW h \in Handlers, GoesOn(h)
      PROVE  Count(outbox', Content[job'[g]][i]) > 0
  <2>1. /\ pc[h] = "sent"
        /\ pc' = [pc EXCEPT ![h] = "llm"]
        /\ job' = [job EXCEPT ![h] = job[h]]
        /\ next' = [next EXCEPT ![h] = next[h] + 1]
    BY <1>7 DEF GoesOn, Takes
  <2>2. CASE g = h
    <3>1. job'[g] = job[g] /\ next'[g] = next[g] + 1 /\ pc'[g] = "llm"
      BY <2>1, <2>2 DEF TypeOK
    <3>2. i \in 1 .. next[g]
      BY <1>2, <3>1
    <3>3. Count(outbox, Content[job[g]][i]) > 0
      BY <2>1, <2>2, <3>2 DEF OrderInv
    <3>4. QED
      BY <1>1, <3>1, <3>3
  <2>3. CASE g # h
    <3>1. job'[g] = job[g] /\ next'[g] = next[g] /\ pc'[g] = pc[g]
      BY <2>1, <2>3 DEF TypeOK
    <3>2. QED
      BY <1>3, <3>1
  <2>4. QED
    BY <2>2, <2>3
<1>8. ASSUME NEW h \in Handlers, Finishes(h)
      PROVE  Count(outbox', Content[job'[g]][i]) > 0
  <2>1. g # h /\ job'[g] = job[g] /\ next'[g] = next[g] /\ pc'[g] = pc[g]
    BY <1>8 DEF Finishes, TypeOK
  <2>2. QED
    BY <1>3, <2>1
<1>9. QED
  BY <1>4, <1>5, <1>6, <1>7, <1>8, StepShape

LEMMA StepAck == TypeOK /\ AckInv /\ [Next]_vars => AckInv'
<1> SUFFICES ASSUME TypeOK, AckInv, [Next]_vars,
                    NEW g \in Handlers, pc'[g] # "idle", NEW i \in 1 .. next'[g] - 1
             PROVE  Replies(log', job'[g], Content[job'[g]][i]) > 0
  BY DEF AckInv, Replies
<1>1. next[g] \in Nat /\ job[g] \in Batches
  BY DEF TypeOK
<1>2. \A k \in 1 .. next[g] : LET m == Content[job[g]][k] IN
        /\ m \in BatchMessages(job[g])
        /\ Replies(log, job[g], m) \in Nat /\ Replies(log', job[g], m) \in Nat
        /\ Replies(log', job[g], m) >= Replies(log, job[g], m)
  BY <1>1, PlaceMessages, RepliesType, HistoriesGrow
<1>3. ASSUME job'[g] = job[g], pc[g] # "idle", i \in 1 .. next[g] - 1
      PROVE  Replies(log', job'[g], Content[job'[g]][i]) > 0
  <2>1. Replies(log, job[g], Content[job[g]][i]) > 0
    BY <1>3 DEF AckInv
  <2>2. i \in 1 .. next[g]
    BY <1>1, <1>3
  <2>3. QED
    BY <1>2, <1>3, <2>1, <2>2
<1>4. CASE Quiet
  BY <1>3, <1>4 DEF Quiet
<1>5. ASSUME NEW h \in Handlers, NEW c \in Batches, Receives(h, c)
      PROVE  Replies(log', job'[g], Content[job'[g]][i]) > 0
  <2>1. CASE g = h
    BY <1>5, <2>1 DEF Receives, Takes, TypeOK
  <2>2. CASE g # h
    <3>1. job'[g] = job[g] /\ next'[g] = next[g] /\ pc'[g] = pc[g]
      BY <1>5, <2>2 DEF Receives, Takes, TypeOK
    <3>2. QED
      BY <1>3, <3>1
  <2>3. QED
    BY <2>1, <2>2
<1>6. ASSUME NEW h \in Handlers, Delivers(h)
      PROVE  Replies(log', job'[g], Content[job'[g]][i]) > 0
  <2>1. job' = job /\ next' = next /\ pc[g] # "idle"
    BY <1>6 DEF Delivers, TypeOK
  <2>2. QED
    BY <1>3, <2>1
<1>7. ASSUME NEW h \in Handlers, GoesOn(h)
      PROVE  Replies(log', job'[g], Content[job'[g]][i]) > 0
  <2>1. /\ pc[h] = "sent"
        /\ pc' = [pc EXCEPT ![h] = "llm"]
        /\ job' = [job EXCEPT ![h] = job[h]]
        /\ next' = [next EXCEPT ![h] = next[h] + 1]
    BY <1>7 DEF GoesOn, Takes
  <2>2. CASE g # h \/ i # next[h]
    <3>1. job'[g] = job[g] /\ pc[g] # "idle" /\ i \in 1 .. next[g] - 1
      BY <1>1, <2>1, <2>2 DEF TypeOK
    <3>2. QED
      BY <1>3, <3>1
  <2>3. CASE g = h /\ i = next[h]
    <3>1. job'[g] = job[h] /\ Content[job'[g]][i] = InHand(h)
      BY <2>1, <2>3 DEF TypeOK, InHand
    <3>2. job[h] \in Batches /\ InHand(h) \in BatchMessages(job[h])
      BY InHandType
    <3>3. Replies(log', job[h], InHand(h)) = Replies(log, job[h], InHand(h)) + 1
      BY <1>7, <3>2, ResumeReplies
    <3>4. Replies(log, job[h], InHand(h)) \in Nat
      BY <3>2, RepliesType
    <3>5. QED
      BY <3>1, <3>3, <3>4
  <2>4. QED
    BY <2>2, <2>3
<1>8. ASSUME NEW h \in Handlers, Finishes(h)
      PROVE  Replies(log', job'[g], Content[job'[g]][i]) > 0
  <2>1. g # h /\ job'[g] = job[g] /\ next'[g] = next[g] /\ pc'[g] = pc[g]
    BY <1>8 DEF Finishes, TypeOK
  <2>2. QED
    BY <1>3, <2>1
<1>9. QED
  BY <1>4, <1>5, <1>6, <1>7, <1>8, StepShape

LEMMA InitHands == Init => OrderInv /\ AckInv /\ AnsweredInOrder /\ AckedIsAnswered
<1> SUFFICES ASSUME Init PROVE OrderInv /\ AckInv /\ AnsweredInOrder /\ AckedIsAnswered
  OBVIOUS
<1>1. OrderInv /\ AckInv
  BY DEF Init, OrderInv, AckInv
<1>2. DOMAIN outbox = {}
  BY DEF Init
<1>3. QED
  BY <1>1, <1>2 DEF Init, AnsweredInOrder, AckedIsAnswered

(* A new answer comes after those to the messages before it in its batch,  *)
(* which the handler that sends it has behind it.                          *)
LEMMA StepAnswers == TypeOK /\ OrderInv /\ AnsweredInOrder /\ [Next]_vars => AnsweredInOrder'
<1> SUFFICES ASSUME TypeOK, OrderInv, AnsweredInOrder, [Next]_vars,
                    NEW b \in Batches, NEW i \in DOMAIN Content[b], NEW j \in DOMAIN Content[b],
                    i < j, NEW k \in DOMAIN outbox', outbox'[k] = Content[b][j]
             PROVE  \E l \in 1 .. k - 1 : outbox'[l] = Content[b][i]
  BY DEF AnsweredInOrder
<1>1. outbox \in Seq(Messages) /\ Len(outbox) \in Nat /\ DOMAIN outbox = 1 .. Len(outbox)
  BY Counters, LenProperties
<1>2. CASE outbox' = outbox
  BY <1>2 DEF AnsweredInOrder
<1>3. ASSUME NEW h \in Handlers, Delivers(h)
      PROVE  \E l \in 1 .. k - 1 : outbox'[l] = Content[b][i]
  <2>1. /\ outbox' = Append(outbox, InHand(h)) /\ pc[h] = "sending"
        /\ InHand(h) \in Messages
    BY <1>3, InHandType, MessageTypes DEF Delivers
  <2>2. /\ DOMAIN outbox' = 1 .. Len(outbox) + 1
        /\ \A l \in 1 .. Len(outbox) : outbox'[l] = outbox[l]
        /\ outbox'[Len(outbox) + 1] = InHand(h)
    BY <1>1, <2>1, AppendProperties, LenProperties
  <2>3. CASE k \in DOMAIN outbox
    <3>1. outbox[k] = Content[b][j] /\ k \in 1 .. Len(outbox)
      BY <1>1, <2>2, <2>3
    <3>2. PICK l \in 1 .. k - 1 : outbox[l] = Content[b][i]
      BY <2>3, <3>1 DEF AnsweredInOrder
    <3>3. l \in 1 .. Len(outbox)
      BY <1>1, <3>1
    <3>4. QED
      BY <2>2, <3>2, <3>3
  <2>4. CASE k = Len(outbox) + 1
    <3>1. /\ job[h] \in Batches /\ next[h] \in DOMAIN Content[job[h]]
          /\ Content[job[h]][next[h]] = Content[b][j]
      BY <2>2, <2>4, InHandType DEF InHand
    <3>2. job[h] = b /\ next[h] = j
      BY <3>1, MessagesAssumption
    <3>3. i \in 1 .. next[h] /\ i < next[h]
      BY <3>2, BatchTypes, LenProperties
    <3>4. Count(outbox, Content[b][i]) > 0
      BY <2>1, <3>2, <3>3 DEF OrderInv
    <3>5. PICK l \in DOMAIN outbox : outbox[l] = Content[b][i]
      BY <1>1, <3>4, CountType
    <3>6. l \in 1 .. k - 1 /\ outbox'[l] = outbox[l]
      BY <1>1, <2>2, <2>4, <3>5
    <3>7. QED
      BY <3>5, <3>6
  <2>5. k \in DOMAIN outbox \/ k = Len(outbox) + 1
    BY <1>1, <2>2
  <2>6. QED
    BY <2>3, <2>4, <2>5
<1>4. QED
  BY <1>2, <1>3, StepShape DEF Quiet, Receives, GoesOn, Finishes

LEMMA AckedBatches == TypeOK /\ [Next]_vars => acked' \ dropped' \subseteq Batches
<1> SUFFICES ASSUME TypeOK, [Next]_vars PROVE acked' \ dropped' \subseteq Batches
  OBVIOUS
<1>1. acked \subseteq Batches /\ \A h \in Handlers : job[h] \in Batches
  BY DEF TypeOK
<1>2. \/ acked' \ dropped' \subseteq acked \ dropped
      \/ dropped' = dropped /\ \E h \in Handlers : acked' = acked \cup {job[h]}
  BY StepShape DEF Quiet, Receives, Delivers, GoesOn, Finishes
<1>3. QED
  BY <1>1, <1>2

(* A batch is answered 200 by a handler that has all of it behind it.      *)
LEMMA StepAcked ==
  TypeOK /\ OrderInv /\ AckInv /\ AckedIsAnswered /\ [Next]_vars => AckedIsAnswered'
<1> SUFFICES ASSUME TypeOK, OrderInv, AckInv, AckedIsAnswered, [Next]_vars,
                    NEW b \in acked' \ dropped', b \in Batches, NEW m \in BatchMessages(b)
             PROVE  Count(outbox', m) > 0 /\ Replies(log', b, m) > 0
  BY AckedBatches DEF AckedIsAnswered, Replies
<1>1. /\ Count(outbox, m) \in Nat /\ Count(outbox', m) \in Nat
      /\ Count(outbox', m) >= Count(outbox, m)
      /\ Replies(log, b, m) \in Nat /\ Replies(log', b, m) \in Nat
      /\ Replies(log', b, m) >= Replies(log, b, m)
  BY Counters, RepliesType, HistoriesGrow
<1>2. CASE b \in acked \ dropped
  <2>1. Count(outbox, m) > 0 /\ Replies(log, b, m) > 0
    BY <1>2 DEF AckedIsAnswered, Replies
  <2>2. QED
    BY <1>1, <2>1
<1>3. ASSUME NEW h \in Handlers, Finishes(h), b \notin acked \ dropped
      PROVE  Count(outbox', m) > 0 /\ Replies(log', b, m) > 0
  <2>1. pc[h] = "sent" /\ b = job[h] /\ next[h] = Len(Content[b])
    BY <1>3 DEF Finishes
  <2>2. PICK i \in DOMAIN Content[b] : Content[b][i] = m
    BY DEF BatchMessages, Range
  <2>3. i \in 1 .. next[h] /\ next[h] \in Nat
    BY <2>1, <2>2, BatchTypes, LenProperties
  <2>4. Count(outbox, m) > 0
    BY <2>1, <2>2, <2>3 DEF OrderInv
  <2>5. CASE i = next[h]
    <3>1. m = InHand(h)
      BY <2>1, <2>2, <2>5 DEF InHand
    <3>2. Replies(log', b, m) = Replies(log, b, m) + 1
      BY <1>3, <3>1, ResumeReplies
    <3>3. QED
      BY <1>1, <2>4, <3>2
  <2>6. CASE i # next[h]
    <3>1. i \in 1 .. next[h] - 1
      BY <2>3, <2>6
    <3>2. Replies(log, b, m) > 0
      BY <2>1, <2>2, <3>1 DEF AckInv
    <3>3. QED
      BY <1>1, <2>4, <3>2
  <2>7. QED
    BY <2>5, <2>6
<1>4. ASSUME NEW h \in Handlers, NEW c \in Batches, Receives(h, c)
      PROVE  acked' \ dropped' = acked \ dropped
  BY <1>4 DEF Receives
<1>5. ASSUME NEW h \in Handlers, Delivers(h) \/ GoesOn(h)
      PROVE  acked' \ dropped' = acked \ dropped
  BY <1>5 DEF Delivers, GoesOn
<1>6. CASE Quiet
  BY <1>2, <1>6 DEF Quiet
<1>7. QED
  BY <1>2, <1>3, <1>4, <1>5, <1>6, StepShape

HandsInv == IInv /\ OrderInv /\ AckInv /\ AnsweredInOrder /\ AckedIsAnswered

LEMMA HandsInvariant == Spec => []HandsInv
<1>1. Init => HandsInv
  BY InitIInv, InitHands DEF HandsInv
<1>2. HandsInv /\ [Next]_vars => HandsInv'
  BY StepIInv, StepOrder, StepAck, StepAnswers, StepAcked DEF HandsInv, IInv
<1>3. QED
  BY <1>1, <1>2, PTL DEF Spec

(* The messages of a batch are first answered in their order, also when    *)
(* deliveries of the batch fail half way, overlap or are repeated.         *)
THEOREM AnsweredInOrderThm == Spec => []AnsweredInOrder
<1>1. HandsInv => AnsweredInOrder
  BY DEF HandsInv
<1>2. QED
  BY <1>1, HandsInvariant, PTL

(* A 200 for a payload that was not dropped means that each message of it  *)
(* was answered and its answer remembered, whatever other deliveries of    *)
(* the payload failed.                                                     *)
THEOREM AckedIsAnsweredThm == Spec => []AckedIsAnswered
<1>1. HandsInv => AckedIsAnswered
  BY DEF HandsInv
<1>2. QED
  BY <1>1, HandsInvariant, PTL
=============================================================================
