--------------------------- MODULE Adapters_proofs ---------------------------
(***************************************************************************)
(* Theorems about Adapters, for any handlers, payloads and bounds: behind  *)
(* the adapters the webhook is the webhook, so that what is proved of it   *)
(* holds here, and what the handler writes into the memory is true of what *)
(* the gateway delivered.                                                  *)
(***************************************************************************)
EXTENDS Adapters, Webhook_proofs

-----------------------------------------------------------------------------
(* Every step of a handler with its adapters is a step of the webhook.     *)

LEMMA AdaptersStep == [AdaptersNext]_allVars => [Next]_vars
<1> SUFFICES ASSUME [AdaptersNext]_allVars PROVE [Next]_vars
  OBVIOUS
<1>1. ASSUME NEW h \in Handlers, AgentResponds(h) \/ SendText(h) \/ SendReturns(h) \/ SendRaises(h)
      PROVE  HandlerStep(h)
  BY <1>1 DEF AgentResponds, SendText, SendReturns, SendRaises, HandlerStep
<1>2. CASE AdaptersNext
  BY <1>1, <1>2 DEF AdaptersNext, Next
<1>3. CASE UNCHANGED allVars
  BY <1>3 DEF allVars
<1>4. QED
  BY <1>2, <1>3

(* The webhook with its LLM and gateway adapters implements the webhook    *)
(* whose ports answer whatever they like.                                  *)
THEOREM AdaptersImplementWebhook == AdaptersSpec => Spec
<1>1. AdaptersInit => Init
  BY DEF AdaptersInit
<1>2. QED
  BY <1>1, AdaptersStep, PTL DEF AdaptersSpec, Spec

LEMMA AdaptersTypes == AdaptersSpec => []TypeOK
  BY AdaptersImplementWebhook, TypeCorrect, PTL

(* So its promises are kept behind the adapters too: whatever the services *)
(* answer, buyers get at most one reply for each delivery, in the order of *)
(* their messages, and all of them before a 200; and the memory tells the  *)
(* truth.                                                                  *)
THEOREM AdaptersKeepPromises ==
  AdaptersSpec => [](/\ AnswersWithinDeliveries
                     /\ AnsweredInOrder
                     /\ AckedIsAnswered
                     /\ MemoryTellsTheTruth)
  BY AdaptersImplementWebhook, AnswersWithinDeliveriesThm, AnsweredInOrderThm,
     AckedIsAnsweredThm, MemoryTellsTheTruthThm, PTL

-----------------------------------------------------------------------------
(* What the adapters add.                                                  *)

Delivery == [msg : Messages, turn : Turn]

AdaptersTypeOK ==
  /\ turn \in [Handlers -> Turn]
  /\ wamid \in [Handlers -> Nat]
  /\ sent \in Seq(Delivery)
  /\ notes \in Seq(Note)

(* A handler that was told of a delivery holds the id of it, which no      *)
(* other handler holds and no note has; a note with an id has the id of    *)
(* the delivery it speaks of, and no other note has it.                    *)
VendorInv ==
  /\ \A h \in Handlers : pc[h] = "sent" =>
       /\ wamid[h] \in DOMAIN sent
       /\ sent[wamid[h]] = [msg |-> InHand(h), turn |-> turn[h]]
       /\ \A g \in Handlers : pc[g] = "sent" /\ wamid[g] = wamid[h] => g = h
       /\ \A n \in DOMAIN notes : notes[n].vendor # wamid[h]
  /\ \A n \in DOMAIN notes : notes[n].vendor # 0 =>
       /\ notes[n].vendor \in DOMAIN sent
       /\ sent[notes[n].vendor] = [msg |-> notes[n].msg, turn |-> notes[n].turn]
       /\ \A k \in DOMAIN notes : notes[k].vendor = notes[n].vendor => k = n

AdaptersInv == TypeOK /\ AdaptersTypeOK /\ VendorInv /\ OnlyErrorsHideReplies

(* The handlers whose delivery is not remembered yet.                      *)
InFlight == {h \in Handlers : pc[h] = "sent"}

(* A step of a handler other than a delivery: the handler may leave the    *)
(* gateway, no handler gets there.                                         *)
NoDelivery ==
  /\ sent' = sent
  /\ wamid' = wamid
  /\ \A g \in Handlers : pc'[g] = "sent" =>
       pc[g] = "sent" /\ InHand(g)' = InHand(g) /\ turn'[g] = turn[g]

LEMMA InitAdapters == AdaptersInit => AdaptersInv
<1> SUFFICES ASSUME AdaptersInit PROVE AdaptersInv
  OBVIOUS
<1>1. TypeOK
  BY InitIInv DEF AdaptersInit, IInv
<1>2. \A S : <<>> \in Seq(S) /\ Len(<<>>) = 0
  BY EmptySeq
<1>3. Completed \in Turn
  BY DEF Completed, Turn, Texts, Errors
<1>4. AdaptersTypeOK
  BY <1>2, <1>3 DEF AdaptersInit, AdaptersTypeOK
<1>5. VendorInv
  BY <1>2 DEF AdaptersInit, Init, VendorInv
<1>6. OnlyErrorsHideReplies
  <2>1. InFlight = {}
    BY DEF AdaptersInit, Init, InFlight
  <2>2. /\ Cardinality(InFlight) = 0 /\ errors = 0
        /\ Len(sent) = 0 /\ Len(notes) = 0
    BY <1>2, <2>1, FS_EmptySet DEF AdaptersInit, Init
  <2>3. QED
    BY <2>2 DEF OnlyErrorsHideReplies, InFlight
<1>7. QED
  BY <1>1, <1>4, <1>5, <1>6 DEF AdaptersInv

(* The shapes of the steps: none, one that delivers, one that remembers    *)
(* the delivery of a handler, and one that forgets it.                     *)
LEMMA AdaptersShape ==
  ASSUME TypeOK, AdaptersTypeOK, [AdaptersNext]_allVars
  PROVE  /\ turn' \in [Handlers -> Turn]
         /\ \/ /\ NoDelivery /\ UNCHANGED <<notes, errors>>
               /\ \A g \in Handlers : pc[g] = "sent" => pc'[g] = "sent"
            \/ \E h \in Handlers : SendText(h)
            \/ \E h \in Handlers :
                 /\ NoDelivery /\ RememberReply(h)
                 /\ pc[h] = "sent" /\ pc'[h] # "sent" /\ errors' = errors
                 /\ \A g \in Handlers \ {h} : pc[g] = "sent" => pc'[g] = "sent"
            \/ \E h \in Handlers :
                 /\ NoDelivery /\ notes' = notes
                 /\ pc'[h] # "sent" /\ errors' = errors + 1
                 /\ \A g \in Handlers \ {h} : pc[g] = "sent" => pc'[g] = "sent"
<1>1. ASSUME NEW h \in Handlers, AgentResponds(h)
      PROVE  /\ turn' \in [Handlers -> Turn]
             /\ NoDelivery /\ UNCHANGED <<notes, errors>>
             /\ \A g \in Handlers : pc[g] = "sent" => pc'[g] = "sent"
  <2>1. PICK t \in Turn : turn' = [turn EXCEPT ![h] = t]
    <3>1. Completed \in Turn /\ Failed("LLMError") \in Turn /\ Failed("TypeError") \in Turn
          /\ [Completed EXCEPT !.text = "None"] \in Turn
      BY DEF Completed, Failed, Turn, Texts, Errors
    <3>2. CASE Echo(h) \/ Scripted(h)
      BY <3>1, <3>2 DEF Echo, Scripted
    <3>3. CASE OpenRouter(h)
      <4>1. PICK answer \in {"request failed", "status 400", "shape", "type", "null", "content"} :
              turn' = [turn EXCEPT ![h] = Complete(answer)]
        BY <3>3 DEF OpenRouter
      <4>2. Complete(answer) \in Turn
        BY <3>1 DEF Complete
      <4>3. QED
        BY <4>1, <4>2
    <3>4. QED
      BY <1>1, <3>2, <3>3 DEF AgentResponds
  <2>2. /\ pc[h] = "llm" /\ pc' = [pc EXCEPT ![h] = "sending"]
        /\ UNCHANGED <<job, next, errors, wamid, sent, notes>>
    BY <1>1 DEF AgentResponds, Respond
  <2>3. \A g \in Handlers : /\ pc'[g] = "sent" => g # h /\ pc[g] = "sent"
                            /\ pc[g] = "sent" => pc'[g] = "sent"
                            /\ g # h => turn'[g] = turn[g]
    BY <2>1, <2>2 DEF TypeOK, AdaptersTypeOK
  <2>4. QED
    BY <2>1, <2>2, <2>3 DEF AdaptersTypeOK, NoDelivery, InHand
<1>2. ASSUME NEW h \in Handlers, SendText(h) PROVE turn' \in [Handlers -> Turn]
  BY <1>2 DEF SendText, AdaptersTypeOK
<1>3. ASSUME NEW h \in Handlers, SendReturns(h)
      PROVE  /\ turn' \in [Handlers -> Turn]
             /\ NoDelivery /\ RememberReply(h)
             /\ pc[h] = "sent" /\ pc'[h] # "sent" /\ errors' = errors
             /\ \A g \in Handlers \ {h} : pc[g] = "sent" => pc'[g] = "sent"
  <2>1. /\ Resume(h) /\ RememberReply(h)
        /\ UNCHANGED <<turn, wamid, sent>>
    BY <1>3 DEF SendReturns
  <2>2. /\ pc[h] = "sent" /\ errors' = errors
        /\ \/ /\ pc' = [pc EXCEPT ![h] = "llm"]
              /\ job' = [job EXCEPT ![h] = job[h]]
              /\ next' = [next EXCEPT ![h] = next[h] + 1]
           \/ pc' = [pc EXCEPT ![h] = "idle"] /\ UNCHANGED <<job, next>>
    BY <2>1 DEF Resume, TakeUp
  <2>3. /\ pc'[h] # "sent"
        /\ \A g \in Handlers \ {h} : pc'[g] = pc[g] /\ job'[g] = job[g] /\ next'[g] = next[g]
    BY <2>2 DEF TypeOK
  <2>4. QED
    BY <2>1, <2>2, <2>3 DEF NoDelivery, InHand, AdaptersTypeOK
<1>4. ASSUME NEW h \in Handlers, SendRaises(h)
      PROVE  /\ turn' \in [Handlers -> Turn]
             /\ NoDelivery /\ notes' = notes
             /\ pc'[h] # "sent" /\ errors' = errors + 1
             /\ \A g \in Handlers \ {h} : pc[g] = "sent" => pc'[g] = "sent"
  BY <1>4 DEF SendRaises, GatewayFails, adapterVars, NoDelivery, InHand, TypeOK, AdaptersTypeOK
<1>5. ASSUME NEW b \in Batches, NEW h \in Handlers, Receive(h, b), UNCHANGED adapterVars
      PROVE  /\ turn' \in [Handlers -> Turn]
             /\ NoDelivery /\ UNCHANGED <<notes, errors>>
             /\ \A g \in Handlers : pc[g] = "sent" => pc'[g] = "sent"
  <2>1. /\ pc[h] = "idle" /\ pc' = [pc EXCEPT ![h] = "llm"]
        /\ job' = [job EXCEPT ![h] = b] /\ next' = [next EXCEPT ![h] = 1]
        /\ UNCHANGED <<errors, turn, wamid, sent, notes>>
    BY <1>5 DEF Receive, TakeUp, adapterVars
  <2>2. QED
    BY <2>1 DEF NoDelivery, InHand, TypeOK, AdaptersTypeOK
<1>6. ASSUME UNCHANGED <<pc, job, next, errors, turn, wamid, sent, notes>>
      PROVE  /\ turn' \in [Handlers -> Turn]
             /\ NoDelivery /\ UNCHANGED <<notes, errors>>
             /\ \A g \in Handlers : pc[g] = "sent" => pc'[g] = "sent"
  BY <1>6 DEF NoDelivery, InHand, AdaptersTypeOK
<1>7. CASE \E b \in Batches : Drop(b) /\ UNCHANGED adapterVars
  BY <1>6, <1>7 DEF Drop, adapterVars
<1>8. CASE \E n \in Numbers : (NumberOnboards(n) \/ NumberLeaves(n)) /\ UNCHANGED adapterVars
  BY <1>6, <1>8 DEF NumberOnboards, NumberLeaves, adapterVars
<1>9. CASE UNCHANGED allVars
  BY <1>6, <1>9 DEF allVars, vars, adapterVars
<1>10. QED
  BY <1>1, <1>2, <1>3, <1>4, <1>5, <1>7, <1>8, <1>9 DEF AdaptersNext


(* A reply is remembered with its own delivery's id, or with none.         *)
LEMMA NoteType ==
  ASSUME TypeOK, AdaptersTypeOK, NEW h \in Handlers, RememberReply(h)
  PROVE  \E vendor \in {wamid[h], 0} :
           LET note == [msg |-> InHand(h), vendor |-> vendor, turn |-> turn[h]] IN
           /\ note \in Note
           /\ notes' = Append(notes, note)
           /\ notes' \in Seq(Note)
           /\ Len(notes') = Len(notes) + 1
<1>1. InHand(h) \in Messages
  BY InHandType, MessageTypes
<1>2. wamid[h] \in Nat /\ turn[h] \in Turn /\ notes \in Seq(Note)
  BY DEF AdaptersTypeOK
<1>3. PICK vendor \in {wamid[h], 0} :
        notes' = Append(notes, [msg |-> InHand(h), vendor |-> vendor, turn |-> turn[h]])
  BY DEF RememberReply, VendorIds, InHand
<1> DEFINE note == [msg |-> InHand(h), vendor |-> vendor, turn |-> turn[h]]
<1>4. note \in Note
  BY <1>1, <1>2 DEF Note
<1> HIDE DEF note
<1>5. Append(notes, note) \in Seq(Note) /\ Len(Append(notes, note)) = Len(notes) + 1
  BY <1>2, <1>4, AppendProperties
<1>6. QED
  BY <1>3, <1>4, <1>5 DEF note

LEMMA StepTypes ==
  ASSUME TypeOK, AdaptersTypeOK, [AdaptersNext]_allVars
  PROVE  AdaptersTypeOK'
<1>1. turn' \in [Handlers -> Turn]
  BY AdaptersShape
<1>2. CASE NoDelivery /\ notes' = notes
  BY <1>1, <1>2 DEF NoDelivery, AdaptersTypeOK
<1>3. ASSUME NEW h \in Handlers, NoDelivery, RememberReply(h) PROVE AdaptersTypeOK'
  <2>1. notes' \in Seq(Note)
    BY <1>3, NoteType
  <2>2. QED
    BY <1>1, <1>3, <2>1 DEF NoDelivery, AdaptersTypeOK
<1>4. ASSUME NEW h \in Handlers, SendText(h) PROVE AdaptersTypeOK'
  <2>1. [msg |-> InHand(h), turn |-> turn[h]] \in Delivery
    BY InHandType, MessageTypes DEF Delivery, AdaptersTypeOK
  <2>2. sent' = Append(sent, [msg |-> InHand(h), turn |-> turn[h]])
    BY <1>4 DEF SendText, InHand
  <2>3. sent' \in Seq(Delivery) /\ Len(sent) + 1 \in Nat
    BY <2>1, <2>2, AppendProperties, LenProperties DEF AdaptersTypeOK
  <2>4. QED
    BY <1>1, <1>4, <2>3 DEF SendText, AdaptersTypeOK
<1>5. QED
  BY <1>2, <1>3, <1>4, AdaptersShape

LEMMA StepVendors ==
  ASSUME TypeOK, AdaptersTypeOK, VendorInv, [AdaptersNext]_allVars
  PROVE  VendorInv'
<1>1. /\ Len(sent) \in Nat /\ DOMAIN sent = 1 .. Len(sent)
      /\ Len(notes) \in Nat /\ DOMAIN notes = 1 .. Len(notes)
  BY LenProperties DEF AdaptersTypeOK
<1>2. CASE NoDelivery /\ notes' = notes
  BY <1>2 DEF NoDelivery, VendorInv
<1>3. ASSUME NEW h \in Handlers, NoDelivery, RememberReply(h), pc[h] = "sent", pc'[h] # "sent"
      PROVE  VendorInv'
  <2>1. PICK vendor \in {wamid[h], 0} :
          LET note == [msg |-> InHand(h), vendor |-> vendor, turn |-> turn[h]] IN
          note \in Note /\ notes' = Append(notes, note)
    BY <1>3, NoteType
  <2> DEFINE note == [msg |-> InHand(h), vendor |-> vendor, turn |-> turn[h]]
             last == Len(notes) + 1
  <2>2. /\ DOMAIN notes' = DOMAIN notes \cup {last} /\ last \notin DOMAIN notes
        /\ \A n \in DOMAIN notes : notes'[n] = notes[n]
        /\ notes'[last] = note
    <3>1. notes' = Append(notes, note) /\ notes \in Seq(Note) /\ note \in Note
      BY <2>1 DEF AdaptersTypeOK
    <3>2. /\ Len(notes') = Len(notes) + 1 /\ notes' \in Seq(Note)
          /\ \A n \in 1 .. Len(notes) : notes'[n] = notes[n]
          /\ notes'[last] = note
      BY <3>1, AppendProperties
    <3>3. DOMAIN notes' = 1 .. Len(notes) + 1
      BY <3>2, LenProperties
    <3>4. QED
      BY <1>1, <3>2, <3>3
  <2>3. /\ wamid[h] \in DOMAIN sent
        /\ sent[wamid[h]] = [msg |-> InHand(h), turn |-> turn[h]]
        /\ \A g \in Handlers : pc[g] = "sent" /\ wamid[g] = wamid[h] => g = h
        /\ \A n \in DOMAIN notes : notes[n].vendor # wamid[h]
    BY <1>3 DEF VendorInv
  <2>4. note.vendor = vendor /\ note.msg = InHand(h) /\ note.turn = turn[h]
    OBVIOUS
  <2> HIDE DEF note, last
  <2>5. /\ sent' = sent /\ wamid' = wamid
        /\ \A g \in Handlers : pc'[g] = "sent" =>
             g # h /\ pc[g] = "sent" /\ InHand(g)' = InHand(g) /\ turn'[g] = turn[g]
    BY <1>3 DEF NoDelivery
  <2>6. ASSUME NEW g \in Handlers, pc'[g] = "sent"
        PROVE  /\ wamid'[g] \in DOMAIN sent'
               /\ sent'[wamid'[g]] = [msg |-> InHand(g)', turn |-> turn'[g]]
               /\ \A f \in Handlers : pc'[f] = "sent" /\ wamid'[f] = wamid'[g] => f = g
               /\ \A n \in DOMAIN notes' : notes'[n].vendor # wamid'[g]
    <3>1. /\ wamid[g] \in DOMAIN sent
          /\ sent[wamid[g]] = [msg |-> InHand(g), turn |-> turn[g]]
          /\ \A f \in Handlers : pc[f] = "sent" /\ wamid[f] = wamid[g] => f = g
          /\ \A n \in DOMAIN notes : notes[n].vendor # wamid[g]
          /\ pc[g] = "sent" /\ g # h
      BY <2>5, <2>6 DEF VendorInv
    <3>2. wamid[g] # 0 /\ wamid[g] # wamid[h]
      BY <1>1, <2>3, <3>1
    <3>3. note.vendor # wamid[g]
      BY <2>1, <2>4, <3>2
    <3>4. \A n \in DOMAIN notes' : notes'[n].vendor # wamid[g]
      BY <2>2, <3>1, <3>3
    <3>5. QED
      BY <2>5, <2>6, <3>1, <3>4
  <2>7. ASSUME NEW n \in DOMAIN notes', notes'[n].vendor # 0
        PROVE  /\ notes'[n].vendor \in DOMAIN sent'
               /\ sent'[notes'[n].vendor] = [msg |-> notes'[n].msg, turn |-> notes'[n].turn]
               /\ \A k \in DOMAIN notes' : notes'[k].vendor = notes'[n].vendor => k = n
    <3>1. CASE n = last
      <4>1. notes'[n] = note /\ note.vendor = wamid[h]
        BY <2>1, <2>2, <2>4, <2>7, <3>1
      <4>2. \A k \in DOMAIN notes' : notes'[k].vendor = wamid[h] => k = n
        BY <2>2, <2>3, <3>1
      <4>3. QED
        BY <2>3, <2>4, <2>5, <4>1, <4>2
    <3>2. CASE n \in DOMAIN notes
      <4>1. notes'[n] = notes[n] /\ notes[n].vendor # 0
        BY <2>2, <2>7, <3>2
      <4>2. /\ notes[n].vendor \in DOMAIN sent
            /\ sent[notes[n].vendor] = [msg |-> notes[n].msg, turn |-> notes[n].turn]
            /\ \A k \in DOMAIN notes : notes[k].vendor = notes[n].vendor => k = n
        BY <3>2, <4>1 DEF VendorInv
      <4>3. note.vendor # notes[n].vendor
        BY <2>1, <2>3, <2>4, <3>2, <4>1
      <4>4. \A k \in DOMAIN notes' : notes'[k].vendor = notes[n].vendor => k = n
        BY <2>2, <4>2, <4>3
      <4>5. QED
        BY <2>5, <4>1, <4>2, <4>4
    <3>3. QED
      BY <2>2, <3>1, <3>2
  <2>8. QED
    BY <2>6, <2>7 DEF VendorInv
<1>4. ASSUME NEW h \in Handlers, SendText(h) PROVE VendorInv'
  <2> DEFINE delivery == [msg |-> InHand(h), turn |-> turn[h]]
             last == Len(sent) + 1
  <2>1. /\ pc[h] = "sending" /\ pc' = [pc EXCEPT ![h] = "sent"]
        /\ sent' = Append(sent, delivery)
        /\ wamid' = [wamid EXCEPT ![h] = last]
        /\ UNCHANGED <<job, next, turn, notes>>
    BY <1>4 DEF SendText, GatewayDelivers, InHand
  <2>2. delivery \in Delivery
    BY InHandType, MessageTypes DEF Delivery, AdaptersTypeOK
  <2> HIDE DEF delivery
  <2>3. /\ DOMAIN sent' = DOMAIN sent \cup {last} /\ last \notin DOMAIN sent
        /\ \A i \in DOMAIN sent : sent'[i] = sent[i]
        /\ sent'[last] = delivery
    <3>1. sent \in Seq(Delivery)
      BY DEF AdaptersTypeOK
    <3>2. /\ Len(sent') = Len(sent) + 1 /\ sent' \in Seq(Delivery)
          /\ \A i \in 1 .. Len(sent) : sent'[i] = sent[i]
          /\ sent'[last] = delivery
      BY <2>1, <2>2, <3>1, AppendProperties
    <3>3. DOMAIN sent' = 1 .. Len(sent) + 1
      BY <3>2, LenProperties
    <3>4. QED
      BY <1>1, <3>2, <3>3
  <2>4. /\ \A g \in Handlers \ {h} : pc'[g] = pc[g] /\ wamid'[g] = wamid[g]
        /\ wamid'[h] = last
        /\ \A g \in Handlers : InHand(g)' = InHand(g)
    BY <2>1 DEF TypeOK, AdaptersTypeOK, InHand
  <2>5. \A n \in DOMAIN notes : notes[n].vendor # 0 => notes[n].vendor \in DOMAIN sent
    BY DEF VendorInv
  <2>6. last # 0
    BY <1>1
  <2>7. \A g \in Handlers \ {h} : pc'[g] = "sent" =>
          /\ wamid[g] \in DOMAIN sent
          /\ sent[wamid[g]] = [msg |-> InHand(g), turn |-> turn[g]]
          /\ \A f \in Handlers : pc[f] = "sent" /\ wamid[f] = wamid[g] => f = g
          /\ \A n \in DOMAIN notes : notes[n].vendor # wamid[g]
    BY <2>4 DEF VendorInv
  <2> HIDE DEF last
  <2>8. ASSUME NEW g \in Handlers, pc'[g] = "sent"
        PROVE  /\ wamid'[g] \in DOMAIN sent'
               /\ sent'[wamid'[g]] = [msg |-> InHand(g)', turn |-> turn'[g]]
               /\ \A f \in Handlers : pc'[f] = "sent" /\ wamid'[f] = wamid'[g] => f = g
               /\ \A n \in DOMAIN notes' : notes'[n].vendor # wamid'[g]
    <3>1. CASE g = h
      <4>1. wamid'[g] = last /\ notes' = notes /\ turn' = turn
        BY <2>1, <2>4, <3>1
      <4>2. sent'[last] = [msg |-> InHand(g)', turn |-> turn'[g]]
        BY <2>3, <2>4, <3>1, <4>1 DEF delivery
      <4>3. \A f \in Handlers : pc'[f] = "sent" /\ wamid'[f] = last => f = g
        BY <2>3, <2>4, <2>7, <3>1
      <4>4. \A n \in DOMAIN notes : notes[n].vendor # last
        BY <2>3, <2>5, <2>6
      <4>5. QED
        BY <2>3, <4>1, <4>2, <4>3, <4>4
    <3>2. CASE g # h
      <4>1. wamid'[g] = wamid[g] /\ notes' = notes /\ turn' = turn
        BY <2>1, <2>4, <3>2
      <4>2. \A f \in Handlers : pc'[f] = "sent" /\ wamid'[f] = wamid[g] => f = g
        <5>1. /\ wamid[g] \in DOMAIN sent
              /\ \A f \in Handlers : pc[f] = "sent" /\ wamid[f] = wamid[g] => f = g
          BY <2>7, <2>8, <3>2
        <5>2. wamid'[h] # wamid[g]
          BY <2>3, <2>4, <5>1
        <5>3. \A f \in Handlers \ {h} : pc'[f] = "sent" => pc[f] = "sent" /\ wamid'[f] = wamid[f]
          BY <2>4
        <5>4. QED
          BY <5>1, <5>2, <5>3
      <4>3. QED
        BY <2>3, <2>4, <2>7, <2>8, <3>2, <4>1, <4>2
    <3>3. QED
      BY <3>1, <3>2
  <2>9. ASSUME NEW n \in DOMAIN notes', notes'[n].vendor # 0
        PROVE  /\ notes'[n].vendor \in DOMAIN sent'
               /\ sent'[notes'[n].vendor] = [msg |-> notes'[n].msg, turn |-> notes'[n].turn]
               /\ \A k \in DOMAIN notes' : notes'[k].vendor = notes'[n].vendor => k = n
    BY <2>1, <2>3, <2>9 DEF VendorInv
  <2>10. QED
    BY <2>8, <2>9 DEF VendorInv
<1>5. QED
  BY <1>2, <1>3, <1>4, AdaptersShape

(* A delivery is in flight until the handler resumes, which remembers it,  *)
(* or the gateway raises, which is an error more.                          *)
LEMMA StepHidden ==
  ASSUME TypeOK, AdaptersTypeOK, OnlyErrorsHideReplies, [AdaptersNext]_allVars
  PROVE  OnlyErrorsHideReplies'
<1>1. Len(sent) <= Len(notes) + errors + Cardinality(InFlight)
  BY DEF OnlyErrorsHideReplies, InFlight
<1> SUFFICES Len(sent') <= Len(notes') + errors' + Cardinality(InFlight')
  BY DEF OnlyErrorsHideReplies, InFlight
<1>2. Len(sent) \in Nat /\ Len(notes) \in Nat /\ errors \in Nat
  BY LenProperties, WebhookBoundsAssumption DEF TypeOK, AdaptersTypeOK
<1>3. InFlight \in SUBSET Handlers /\ InFlight' \in SUBSET Handlers
  BY DEF InFlight
<1>4. Cardinality(InFlight) \in Nat /\ Cardinality(InFlight') \in Nat
  BY <1>3, HandlerSets
<1>5. CASE /\ NoDelivery /\ UNCHANGED <<notes, errors>>
           /\ \A g \in Handlers : pc[g] = "sent" => pc'[g] = "sent"
  <2>1. InFlight \subseteq InFlight'
    BY <1>5 DEF InFlight
  <2>2. Cardinality(InFlight) <= Cardinality(InFlight')
    BY <1>3, <2>1, HandlerSets
  <2>3. QED
    BY <1>1, <1>2, <1>4, <1>5, <2>2 DEF NoDelivery
<1>6. ASSUME NEW h \in Handlers, SendText(h)
      PROVE  Len(sent') <= Len(notes') + errors' + Cardinality(InFlight')
  <2>1. /\ pc[h] = "sending" /\ pc' = [pc EXCEPT ![h] = "sent"]
        /\ sent' = Append(sent, [msg |-> InHand(h), turn |-> turn[h]])
        /\ UNCHANGED <<notes, errors>>
    BY <1>6 DEF SendText, GatewayDelivers, InHand
  <2>2. h \notin InFlight /\ InFlight' = InFlight \cup {h}
    BY <2>1 DEF InFlight, TypeOK
  <2>3. Cardinality(InFlight') = Cardinality(InFlight) + 1
    BY <1>3, <2>2, HandlerSets
  <2>4. Len(sent') = Len(sent) + 1
    <3>1. [msg |-> InHand(h), turn |-> turn[h]] \in Delivery
      BY InHandType, MessageTypes DEF Delivery, AdaptersTypeOK
    <3>2. QED
      BY <2>1, <3>1, AppendProperties DEF AdaptersTypeOK
  <2>5. QED
    BY <1>1, <1>2, <1>4, <2>1, <2>3, <2>4
<1>7. ASSUME NEW h \in Handlers, \A g \in Handlers \ {h} : pc[g] = "sent" => pc'[g] = "sent"
      PROVE  Cardinality(InFlight) <= Cardinality(InFlight') + 1
  <2>1. InFlight \subseteq InFlight' \cup {h} /\ InFlight' \cup {h} \in SUBSET Handlers
    BY <1>7 DEF InFlight
  <2>2. Cardinality(InFlight) <= Cardinality(InFlight' \cup {h})
    BY <2>1, HandlerSets
  <2>3. Cardinality(InFlight' \cup {h}) <= Cardinality(InFlight') + 1
    <3>1. CASE h \in InFlight'
      <4>1. InFlight' \cup {h} = InFlight'
        BY <3>1
      <4>2. Cardinality(InFlight' \cup {h}) = Cardinality(InFlight')
        BY <4>1, Zenon
      <4>3. QED
        BY <1>4, <4>2
    <3>2. CASE h \notin InFlight'
      BY <1>3, <1>4, <3>2, HandlerSets
    <3>3. QED
      BY <3>1, <3>2
  <2>4. Cardinality(InFlight' \cup {h}) \in Nat
    BY <2>1, HandlerSets
  <2>5. QED
    BY <1>4, <2>2, <2>3, <2>4
<1>8. ASSUME NEW h \in Handlers,
             NoDelivery, RememberReply(h), errors' = errors,
             \A g \in Handlers \ {h} : pc[g] = "sent" => pc'[g] = "sent"
      PROVE  Len(sent') <= Len(notes') + errors' + Cardinality(InFlight')
  <2>1. Len(notes') = Len(notes) + 1
    BY <1>8, NoteType
  <2>2. Cardinality(InFlight) <= Cardinality(InFlight') + 1
    BY <1>7, <1>8
  <2>3. QED
    BY <1>1, <1>2, <1>4, <1>8, <2>1, <2>2 DEF NoDelivery
<1>9. ASSUME NEW h \in Handlers,
             NoDelivery, notes' = notes, errors' = errors + 1,
             \A g \in Handlers \ {h} : pc[g] = "sent" => pc'[g] = "sent"
      PROVE  Len(sent') <= Len(notes') + errors' + Cardinality(InFlight')
  <2>1. Cardinality(InFlight) <= Cardinality(InFlight') + 1
    BY <1>7, <1>9
  <2>2. QED
    BY <1>1, <1>2, <1>4, <1>9, <2>1 DEF NoDelivery
<1>10. QED
  BY <1>5, <1>6, <1>8, <1>9, AdaptersShape

LEMMA AdaptersInvariant == AdaptersSpec => []AdaptersInv
<1>1. AdaptersInv /\ TypeOK' /\ [AdaptersNext]_allVars => AdaptersInv'
  BY StepTypes, StepVendors, StepHidden DEF AdaptersInv
<1>2. QED
  BY <1>1, InitAdapters, AdaptersTypes, PTL DEF AdaptersSpec

(* However handlers overlap, an id in the memory leads to one delivery of  *)
(* the reply that was remembered with it, and no delivery is remembered    *)
(* twice.                                                                  *)
THEOREM VendorIdsAreTrueThm == AdaptersSpec => []VendorIdsAreTrue
<1>1. AdaptersInv => VendorIdsAreTrue
  <2> SUFFICES ASSUME AdaptersTypeOK, VendorInv, NEW i \in DOMAIN sent
               PROVE  /\ Cardinality(NotesOf(i)) <= 1
                      /\ \A n \in NotesOf(i) : notes[n].msg = sent[i].msg /\ notes[n].turn = sent[i].turn
    BY DEF AdaptersInv, VendorIdsAreTrue
  <2>1. i # 0
    BY LenProperties DEF AdaptersTypeOK
  <2>2. \A n \in NotesOf(i) :
          /\ n \in DOMAIN notes /\ notes[n].vendor = i
          /\ sent[i] = [msg |-> notes[n].msg, turn |-> notes[n].turn]
          /\ \A k \in NotesOf(i) : k = n
    BY <2>1 DEF NotesOf, VendorInv
  <2>3. NotesOf(i) = {} \/ \E n : NotesOf(i) = {n}
    BY <2>2
  <2>4. Cardinality(NotesOf(i)) <= 1
    <3>1. CASE NotesOf(i) = {}
      BY <3>1, FS_EmptySet
    <3>2. CASE \E n : NotesOf(i) = {n}
      <4>1. PICK n : NotesOf(i) = {n}
        BY <3>2
      <4>2. Cardinality({n}) = 1
        BY FS_Singleton
      <4>3. Cardinality(NotesOf(i)) = 1
        BY <4>1, <4>2, Zenon
      <4>4. QED
        BY <4>3
    <3>3. QED
      BY <2>3, <3>1, <3>2
  <2>5. QED
    BY <2>2, <2>4
<1>2. QED
  BY <1>1, AdaptersInvariant, PTL

(* The memory misses no more delivered replies than the gateway raised     *)
(* errors, apart from those whose handler has yet to resume.               *)
THEOREM OnlyErrorsHideRepliesThm == AdaptersSpec => []OnlyErrorsHideReplies
<1>1. AdaptersInv => OnlyErrorsHideReplies
  BY DEF AdaptersInv
<1>2. QED
  BY <1>1, AdaptersInvariant, PTL
=============================================================================
