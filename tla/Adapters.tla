------------------------------ MODULE Adapters ------------------------------
(***************************************************************************)
(* The adapters behind the webhook handler's two ports: what the LLM       *)
(* adapters (llm/port.py) and the gateway adapters (whatsapp/gateway.py)   *)
(* make of what the services answer, and what the handler sends to the     *)
(* buyer and writes into the memory of it.                                 *)
(*                                                                         *)
(* Every step of a handler is a step of module Webhook, told with the text *)
(* that is sent and the metadata that is remembered.  Texts are            *)
(* "completion" (what the model wrote), "None" (str of a null content) and *)
(* "fallback" (the apology); a vendor id is the place of its delivery in   *)
(* the log of deliveries.                                                  *)
(***************************************************************************)
EXTENDS Webhook

CONSTANT CannedReplies   \* replies ScriptedLLM is loaded with

ASSUME CannedAssumption == CannedReplies \in Nat

VARIABLES
  llm,       \* the LLM adapter the client was given
  gateway,   \* the gateway adapter the client was given
  replies,   \* ScriptedLLM's canned replies left
  turn,      \* the turn each handler is about to send: its text and error
  wamid,     \* the vendor id of each handler's delivery
  sent,      \* history: every delivery, with its text
  notes      \* history: what was remembered of the agent's replies

adapterVars == <<llm, gateway, replies, turn, wamid, sent, notes>>
allVars == <<vars, adapterVars>>

Texts == {"completion", "None", "fallback"}
Errors == {"none", "LLMError", "TypeError"}
Turn == [text : Texts, error : Errors]
Note == [msg : Messages, turn : Turn, vendor : Nat]

Completed == [text |-> "completion", error |-> "none"]
Failed(error) == [text |-> "fallback", error |-> error]

AdaptersInit ==
  /\ Init
  /\ llm \in {"echo", "scripted", "openrouter"}
  /\ gateway \in {"memory", "kapso"}
  /\ replies = CannedReplies
  /\ turn = [h \in Handlers |-> Completed]
  /\ wamid = [h \in Handlers |-> 0]
  /\ sent = <<>>
  /\ notes = <<>>

-----------------------------------------------------------------------------
(* The LLM adapters.                                                       *)

(* EchoLLM always completes.                                               *)
Echo(h) ==
  /\ llm = "echo"
  /\ turn' = [turn EXCEPT ![h] = Completed]
  /\ UNCHANGED replies

(* ScriptedLLM pops its queue, and raises when it is empty.                *)
Scripted(h) ==
  /\ llm = "scripted"
  /\ \/ /\ replies > 0
        /\ turn' = [turn EXCEPT ![h] = Completed]
        /\ replies' = replies - 1
     \/ /\ replies = 0
        /\ turn' = [turn EXCEPT ![h] = Failed("LLMError")]
        /\ UNCHANGED replies

(* OpenRouter's answers: none at all or a status of 400 and up, a body     *)
(* without choices or not JSON, a body of another type at some place (the  *)
(* TypeError of indexing it is not wrapped), a null content, a content.    *)
Complete(answer) ==
  CASE answer \in {"request failed", "status 400", "shape"} -> Failed("LLMError")
    [] answer = "type" -> Failed("TypeError")
    [] answer = "null" -> [Completed EXCEPT !.text = "None"]
    [] answer = "content" -> Completed

OpenRouter(h) ==
  /\ llm = "openrouter"
  /\ \E answer \in {"request failed", "status 400", "shape", "type", "null", "content"} :
       turn' = [turn EXCEPT ![h] = Complete(answer)]
  /\ UNCHANGED replies

(* respond returns the adapter's reply; whatever it raises, the handler    *)
(* goes on with the apology.                                               *)
AgentResponds(h) ==
  /\ Respond(h)
  /\ Echo(h) \/ Scripted(h) \/ OpenRouter(h)
  /\ UNCHANGED <<llm, gateway, wamid, sent, notes>>

-----------------------------------------------------------------------------
(* The gateway adapters.                                                   *)

(* A defective _post that repeats a request whose answer is late.          *)
SendText_Repeats(h) ==
  LET m == Content[job[h]][next[h]] IN
  /\ pc[h] = "sending"
  /\ pc' = [pc EXCEPT ![h] = "sent"]
  /\ \E times \in IF gateway = "kapso" THEN 1 .. 2 ELSE {1} :
       /\ outbox' = outbox \o [i \in 1 .. times |-> m]
       /\ sent' = sent \o [i \in 1 .. times |-> [msg |-> m, turn |-> turn[h]]]
       /\ wamid' = [wamid EXCEPT ![h] = Len(sent) + times]
  /\ UNCHANGED <<routed, store, job, next, prompt, log, deliveries, acked, dropped, refused, errors>>
  /\ UNCHANGED <<llm, gateway, replies, turn, notes>>

(* InMemoryGateway appends to its list, Kapso takes the message.           *)
SendText(h) ==
  /\ GatewayDelivers(h)
  /\ sent' = Append(sent, [msg |-> Content[job[h]][next[h]], turn |-> turn[h]])
  /\ wamid' = [wamid EXCEPT ![h] = Len(sent) + 1]
  /\ UNCHANGED <<llm, gateway, replies, turn, notes>>

(* A defective _build_outbound that takes the latest delivery for its own. *)
VendorIds_Latest(h) == {Len(sent)}

(* _build_outbound: the id in the answer; none when Kapso's answer holds   *)
(* none where it is looked for.                                            *)
VendorIds(h) == IF gateway = "memory" THEN {wamid[h]} ELSE {wamid[h], 0}

(* The reply is remembered with the vendor id and what the turn says.      *)
RememberReply(h) ==
  \E vendor \in VendorIds(h) :
    notes' = Append(notes, [msg |-> Content[job[h]][next[h]], vendor |-> vendor, turn |-> turn[h]])

SendReturns(h) ==
  /\ Resume(h)
  /\ RememberReply(h)
  /\ UNCHANGED <<llm, gateway, replies, turn, wamid, sent>>

(* _post raises: the request failed or was refused, or Kapso took it and   *)
(* its answer was lost or no JSON.  The in-memory gateway never does.      *)
SendRaises(h) ==
  /\ gateway = "kapso"
  /\ GatewayFails(h)
  /\ UNCHANGED adapterVars

AdaptersNext ==
  \/ \E h \in Handlers : AgentResponds(h) \/ SendText(h) \/ SendReturns(h) \/ SendRaises(h)
  \/ /\ \/ \E b \in Batches : Drop(b) \/ \E h \in Handlers : Receive(h, b)
        \/ \E n \in Numbers : NumberOnboards(n) \/ NumberLeaves(n)
     /\ UNCHANGED adapterVars

AdaptersSpec == AdaptersInit /\ [][AdaptersNext]_allVars

-----------------------------------------------------------------------------
(* Properties.                                                             *)

(* The notes of one delivery: those that carry its vendor id.              *)
NotesOf(i) == {n \in DOMAIN notes : notes[n].vendor = i}

(* A vendor id in the memory leads to one delivery of that very reply, and *)
(* no delivery is remembered twice, however handlers overlap.              *)
VendorIdsAreTrue ==
  \A i \in DOMAIN sent :
    /\ Cardinality(NotesOf(i)) <= 1
    /\ \A n \in NotesOf(i) : notes[n].msg = sent[i].msg /\ notes[n].turn = sent[i].turn

(* Replies that were delivered and never remembered are as many as the     *)
(* gateway's errors at most, apart from those in flight.                   *)
OnlyErrorsHideReplies ==
  Len(sent) <= Len(notes) + errors + Cardinality({h \in Handlers : pc[h] = "sent"})
=============================================================================
