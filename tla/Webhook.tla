------------------------------ MODULE Webhook ------------------------------
(***************************************************************************)
(* POST /webhook: Meta delivers batches of buyers' messages, the API       *)
(* answers each message through the agent loop and the WhatsApp gateway    *)
(* and keeps the conversation in the buyer memory.                         *)
(*                                                                         *)
(* A handler is the coroutine of one delivery.  Handlers interleave where  *)
(* they await the LLM or the gateway, which are services behind a network; *)
(* everything between two of these awaits is one action.  Meta repeats a   *)
(* delivery it has seen no 200 for, also while an earlier one is in        *)
(* progress (it gives up waiting before the API does) or after the API     *)
(* answered it.  A number that is taken away from its tenant and comes     *)
(* back comes back to the same tenant, and so to the same memories.        *)
(***************************************************************************)
EXTENDS BuyerMemory, FiniteSets, Functions

CONSTANTS Messages,       \* inbound text messages
          Batches,        \* payloads Meta delivers
          Content,        \* the messages of each payload, in order
          Numbers,        \* phone_number_ids messages are sent to
          NumberOf,       \* the number each payload carries
          Senders,        \* buyers' phone numbers
          SenderOf,       \* who sent each message
          Handlers,       \* deliveries being handled at a time
          HistoryTurns,   \* interactions recalled for a prompt
          MaxDeliveries,  \* bound: deliveries of one batch
          MaxErrors       \* bound: errors of the gateway

ASSUME BatchesAssumption ==
  /\ Batches # {}
  /\ Content \in [Batches -> Seq(Messages) \ {<<>>}]
  /\ NumberOf \in [Batches -> Numbers]
  /\ SenderOf \in [Messages -> Senders]
(* A message is sent once: it has one place, in one payload.  What Meta    *)
(* repeats, it repeats as the payload it was.                              *)
ASSUME MessagesAssumption ==
  \A b, c \in Batches : \A i \in DOMAIN Content[b], j \in DOMAIN Content[c] :
    Content[b][i] = Content[c][j] => b = c /\ i = j
ASSUME HandlersAssumption == IsFiniteSet(Handlers)
ASSUME WebhookBoundsAssumption == {HistoryTurns, MaxDeliveries, MaxErrors} \subseteq Nat

Buyers == Numbers \X Senders

Item == [msg : Messages, role : {"buyer", "agent"}]

VARIABLES
  routed,      \* numbers some tenant holds by now
  store,       \* the buyer memory
  pc,          \* what each handler awaits
  job,         \* the batch each handler works on
  next,        \* the place in the batch of the message it works on
  prompt,      \* the turns it gave the LLM, system turn left out
  outbox,      \* history: replies the gateway delivered, in order
  log,         \* history: everything ever remembered of each buyer
  deliveries,  \* how often Meta delivered each batch
  acked,       \* batches answered 200
  dropped,     \* batches answered 200 for want of a tenant
  refused,     \* history: some delivery was answered 500
  errors       \* errors of the gateway so far

vars == <<routed, store, pc, job, next, prompt, outbox, log,
          deliveries, acked, dropped, refused, errors>>

TypeOK ==
  /\ routed \subseteq Numbers
  /\ store \in [Buyers -> Seq(Item)]
  /\ pc \in [Handlers -> {"idle", "llm", "sending", "sent"}]
  /\ job \in [Handlers -> Batches]
  /\ next \in [Handlers -> Nat]
  /\ \A h \in Handlers : next[h] \in 1 .. Len(Content[job[h]])
  /\ prompt \in [Handlers -> Seq(Item)]
  /\ outbox \in Seq(Messages)
  /\ log \in [Buyers -> Seq(Item)]
  /\ deliveries \in [Batches -> 0 .. MaxDeliveries]
  /\ acked \subseteq Batches
  /\ dropped \subseteq acked
  /\ refused \in BOOLEAN
  /\ errors \in 0 .. MaxErrors

AnyBatch == CHOOSE b \in Batches : TRUE

Init ==
  /\ routed \in SUBSET Numbers
  /\ store = [b \in Buyers |-> <<>>]
  /\ pc = [h \in Handlers |-> "idle"]
  /\ job = [h \in Handlers |-> AnyBatch]
  /\ next = [h \in Handlers |-> 1]
  /\ prompt = [h \in Handlers |-> <<>>]
  /\ outbox = <<>>
  /\ log = [b \in Buyers |-> <<>>]
  /\ deliveries = [b \in Batches |-> 0]
  /\ acked = {}
  /\ dropped = {}
  /\ refused = FALSE
  /\ errors = 0

-----------------------------------------------------------------------------
(* Routing a payload.                                                      *)

(* extract_phone_number_id: the number of the first change that carries    *)
(* one, whatever its event; the whole payload is that number's.            *)
PhoneNumberId(batch) == NumberOf[batch]

(* buyer_id_for: the memory of a message's sender at the payload's tenant. *)
Buyer(batch, m) == <<PhoneNumberId(batch), SenderOf[m]>>

Said(m, role) == [msg |-> m, role |-> role]

(* The history of what was remembered, one interaction longer.             *)
Noted(lg, buyer, item) == [lg EXCEPT ![buyer] = Append(@, item)]

-----------------------------------------------------------------------------
(* The agent loop and the handler.                                         *)

(* _compose_prompt: the recent interactions, then the message itself.      *)
Prompt(st, buyer, m) == Append(Recall(st, buyer, HistoryTurns), Said(m, "buyer"))

(* The handler takes up the message at place i: it remembers it, and       *)
(* respond recalls the history, composes the prompt and awaits the LLM.    *)
TakeUp(h, batch, i, st, lg) ==
  LET m     == Content[batch][i]
      buyer == Buyer(batch, m)
      st1   == Remember(st, buyer, Said(m, "buyer"))
  IN /\ store' = st1
     /\ log' = Noted(lg, buyer, Said(m, "buyer"))
     /\ prompt' = [prompt EXCEPT ![h] = Prompt(st1, buyer, m)]
     /\ pc' = [pc EXCEPT ![h] = "llm"]
     /\ job' = [job EXCEPT ![h] = batch]
     /\ next' = [next EXCEPT ![h] = i]

(* Meta delivers a batch, perhaps one whose 200 it has not seen.           *)
Deliver(batch) ==
  /\ deliveries[batch] < MaxDeliveries
  /\ deliveries' = [deliveries EXCEPT ![batch] = @ + 1]

(* A defective early return that does not answer 200.                      *)
Drop_Refuses(batch) ==
  /\ Deliver(batch)
  /\ PhoneNumberId(batch) \notin routed
  /\ dropped' = dropped \cup {batch}
  /\ UNCHANGED <<routed, store, pc, job, next, prompt, outbox, log, acked, refused, errors>>

(* A payload for a number nobody holds is answered 200 and forgotten.      *)
Drop(batch) ==
  /\ Deliver(batch)
  /\ PhoneNumberId(batch) \notin routed
  /\ acked' = acked \cup {batch}
  /\ dropped' = dropped \cup {batch}
  /\ UNCHANGED <<routed, store, pc, job, next, prompt, outbox, log, refused, errors>>

Receive(h, batch) ==
  /\ pc[h] = "idle"
  /\ Deliver(batch)
  /\ PhoneNumberId(batch) \in routed
  /\ TakeUp(h, batch, 1, store, log)
  /\ UNCHANGED <<routed, outbox, acked, dropped, refused, errors>>

(* A defective handler that remembers the reply before it is sent.         *)
Respond_RemembersReply(h) ==
  LET m     == Content[job[h]][next[h]]
      buyer == Buyer(job[h], m)
  IN /\ pc[h] = "llm"
     /\ pc' = [pc EXCEPT ![h] = "sending"]
     /\ prompt' = [prompt EXCEPT ![h] = <<>>]
     /\ store' = Remember(store, buyer, Said(m, "agent"))
     /\ log' = Noted(log, buyer, Said(m, "agent"))
     /\ UNCHANGED <<routed, job, next, outbox, deliveries, acked, dropped, refused, errors>>

(* The LLM completes, or the turn fails and the fallback text takes the    *)
(* reply's place: either way the handler awaits the gateway next.          *)
Respond(h) ==
  /\ pc[h] = "llm"
  /\ pc' = [pc EXCEPT ![h] = "sending"]
  /\ prompt' = [prompt EXCEPT ![h] = <<>>]
  /\ UNCHANGED <<routed, store, job, next, outbox, log, deliveries, acked, dropped, refused, errors>>

(* The gateway delivers the reply some time before the handler resumes.    *)
GatewayDelivers(h) ==
  /\ pc[h] = "sending"
  /\ outbox' = Append(outbox, Content[job[h]][next[h]])
  /\ pc' = [pc EXCEPT ![h] = "sent"]
  /\ UNCHANGED <<routed, store, job, next, prompt, log, deliveries, acked, dropped, refused, errors>>

(* The handler remembers the reply and takes up the next message of the    *)
(* batch, or answers 200 after the last one.                               *)
Resume(h) ==
  LET batch == job[h]
      m     == Content[batch][next[h]]
      buyer == Buyer(batch, m)
      st    == Remember(store, buyer, Said(m, "agent"))
      lg    == Noted(log, buyer, Said(m, "agent"))
  IN /\ pc[h] = "sent"
     /\ IF next[h] < Len(Content[batch])
        THEN TakeUp(h, batch, next[h] + 1, st, lg) /\ UNCHANGED acked
        ELSE /\ store' = st
             /\ log' = lg
             /\ pc' = [pc EXCEPT ![h] = "idle"]
             /\ acked' = acked \cup {batch}
             /\ UNCHANGED <<job, next, prompt>>
     /\ UNCHANGED <<routed, outbox, deliveries, dropped, refused, errors>>

(* A defective handler that swallows the error and answers 200.            *)
GatewayFails_Acks(h) ==
  /\ pc[h] \in {"sending", "sent"}
  /\ errors < MaxErrors
  /\ errors' = errors + 1
  /\ pc' = [pc EXCEPT ![h] = "idle"]
  /\ acked' = acked \cup {job[h]}
  /\ UNCHANGED <<routed, store, job, next, prompt, outbox, log, deliveries, dropped, refused>>

(* A defective handler that goes on with the next message of the batch.    *)
GatewayFails_SkipsMessage(h) ==
  /\ pc[h] \in {"sending", "sent"}
  /\ errors < MaxErrors
  /\ errors' = errors + 1
  /\ IF next[h] < Len(Content[job[h]])
     THEN TakeUp(h, job[h], next[h] + 1, store, log) /\ UNCHANGED refused
     ELSE /\ pc' = [pc EXCEPT ![h] = "idle"]
          /\ refused' = TRUE
          /\ UNCHANGED <<store, log, prompt, job, next>>
  /\ UNCHANGED <<routed, outbox, deliveries, acked, dropped>>

(* A defective handler that sends again after any error.                   *)
GatewayFails_SendsAgain(h) ==
  /\ pc[h] \in {"sending", "sent"}
  /\ errors < MaxErrors
  /\ errors' = errors + 1
  /\ pc' = [pc EXCEPT ![h] = "sending"]
  /\ UNCHANGED <<routed, store, job, next, prompt, outbox, log, deliveries, acked, dropped, refused>>

(* The gateway raises GatewayError, before it delivered the reply or after *)
(* it did.  Nothing catches it: the delivery is answered 500 and the rest  *)
(* of the batch is left alone.                                             *)
GatewayFails(h) ==
  /\ pc[h] \in {"sending", "sent"}
  /\ errors < MaxErrors
  /\ errors' = errors + 1
  /\ pc' = [pc EXCEPT ![h] = "idle"]
  /\ refused' = TRUE
  /\ UNCHANGED <<routed, store, job, next, prompt, outbox, log, deliveries, acked, dropped>>

(* A tenant is onboarded with the number, or given it (module Onboarding). *)
NumberOnboards(n) ==
  /\ n \notin routed
  /\ routed' = routed \cup {n}
  /\ UNCHANGED <<store, pc, job, next, prompt, outbox, log, deliveries, acked, dropped, refused, errors>>

(* PATCH /tenants/{id} gives the tenant of the number another one.         *)
NumberLeaves(n) ==
  /\ n \in routed
  /\ routed' = routed \ {n}
  /\ UNCHANGED <<store, pc, job, next, prompt, outbox, log, deliveries, acked, dropped, refused, errors>>

HandlerStep(h) == Respond(h) \/ GatewayDelivers(h) \/ Resume(h) \/ GatewayFails(h)

Next ==
  \/ \E b \in Batches : Drop(b) \/ \E h \in Handlers : Receive(h, b)
  \/ \E h \in Handlers : HandlerStep(h)
  \/ \E n \in Numbers : NumberOnboards(n) \/ NumberLeaves(n)

Spec == Init /\ [][Next]_vars

(* Coroutines that can run do, the LLM and the gateway answer or fail      *)
(* (their clients have timeouts), and Meta repeats what it has no 200 for. *)
Fairness ==
  /\ \A h \in Handlers : WF_vars(HandlerStep(h))
  /\ \A b \in Batches :
       WF_vars(b \notin acked /\ (Drop(b) \/ \E h \in Handlers : Receive(h, b)))

FairSpec == Spec /\ Fairness

-----------------------------------------------------------------------------
(* Properties.                                                             *)

Count(s, x) == Cardinality({i \in DOMAIN s : s[i] = x})

BatchMessages(b) == Range(Content[b])

(* Whatever the handlers interleave, a buyer's memory is the end of all    *)
(* that was ever remembered of that buyer: nothing lost, nothing reordered *)
(* but for the oldest interactions.                                        *)
RingHoldsLatest ==
  \A buyer \in Buyers : store[buyer] = LastN(log[buyer], MaxItems)

(* A 200 means that every message of the batch got a reply, although an    *)
(* earlier delivery of it may have stopped in the middle, unless nobody    *)
(* held the number.                                                        *)
AckedIsAnswered ==
  \A b \in acked \ dropped : \A m \in BatchMessages(b) :
    /\ Count(outbox, m) > 0
    /\ Count(log[Buyer(b, m)], Said(m, "agent")) > 0

(* The memory never shows the agent a reply the buyer did not get, nor a   *)
(* reply to a message that is not itself remembered before.                *)
MemoryTellsTheTruth ==
  \A b \in Batches : \A m \in BatchMessages(b) :
    LET said == log[Buyer(b, m)] IN
    /\ Count(said, Said(m, "agent")) <= Count(outbox, m)
    /\ \A n \in 1 .. Len(said) :
         Count(SubSeq(said, 1, n), Said(m, "agent")) <= Count(SubSeq(said, 1, n), Said(m, "buyer"))

(* The messages of a batch are first answered in their order, also when    *)
(* deliveries of the batch fail half way or overlap.                       *)
AnsweredInOrder ==
  \A b \in Batches : \A i, j \in DOMAIN Content[b] :
    i < j => \A k \in DOMAIN outbox :
      outbox[k] = Content[b][j] => \E l \in 1 .. k - 1 : outbox[l] = Content[b][i]

(* A message is not answered more often than Meta delivered its batch.     *)
AnswersWithinDeliveries ==
  \A b \in Batches : \A m \in BatchMessages(b) : Count(outbox, m) <= deliveries[b]

(* When Meta repeats a batch more often than the gateway fails, every      *)
(* message for a number somebody holds is answered in the end.             *)
EventuallyAnswered ==
  \A b \in Batches :
    PhoneNumberId(b) \in routed ~> b \in dropped \/ \A m \in BatchMessages(b) : Count(outbox, m) > 0

=============================================================================
