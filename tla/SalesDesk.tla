----------------------------- MODULE SalesDesk -----------------------------
(***************************************************************************)
(* The agent's skills and the goal judge (src/src/sample/skills, goal.py). *)
(* The skills keep nothing of a conversation: the caller (the agent, which *)
(* SOUL.md tells of the parameters) hands sales-closer the stage it was    *)
(* given last; that it makes none up (an unknown stage is refused, any     *)
(* other believed) is assumed.  One conversation, and the calls made about *)
(* it through /skills/invoke, /goal and Client.run_goal.                   *)
(*                                                                         *)
(* A message is the set of the keywords it holds.  sales-closer looks for  *)
(* substrings, so its sets also list the other skills' keywords that hold  *)
(* one ("humano" holds "no"); lead-qualifier looks for whole words.        *)
(***************************************************************************)
EXTENDS Integers, Sequences, FiniteSets

CONSTANTS Words,      \* the keywords messages are made of
          Tenants,    \* tenant ids
          Products,   \* what facts and queries are about
          MaxFacts    \* bound: facts ingested

ASSUME WordsAssumption == IsFiniteSet(Words)
ASSUME FactsAssumption == MaxFacts \in Nat

Stage == {"IDENTIFY", "PRESENT", "OBJECTIONS", "CONFIRM", "NOTIFY", "CLOSED", "ESCALATED"}
GoalType == {"qualify", "sell", "lookup", "follow_up"}

Objects   == {"no", "caro", "otro", "alternativa", "humano", "no mas de"}
Escalates == {"escalar", "humano", "hablar con"}
Buys      == {"ok", "si", "compro", "quiero", "dame", "curiosidad", "necesito",
              "lo antes posible"}
Confirms  == {"pagado", "transferi", "ok", "listo"}

HighIntent == {"comprar", "quiero", "necesito", "precio", "cuento", "costo", "enviar",
               "ordenar", "pedir", "pago", "transferencia", "urgente", "hoy"}
LowIntent  == {"solo", "curiosidad", "viendo", "despues", "luego", "tal vez", "quiza"}
Urgency    == {"urgente", "hoy", "ahora", "inmediato", "ya", "manana", "lo antes posible"}
Budget     == {"presupuesto", "lmite", "maximo", "no mas de", "caro", "barato", "cuesta"}

VARIABLES
  stage,    \* the stage the caller holds
  heard,    \* history: the evidence the conversation gave
  facts,    \* Hindsight's facts, in the order they were added
  paid,     \* the payment has arrived
  result    \* what the latest call returned

vars == <<stage, heard, facts, paid, result>>

Signals == [objects |-> Objects, escalates |-> Escalates, buys |-> Buys, confirms |-> Confirms]

(* The signals a stage listens for.                                        *)
Evidence == {<<"PRESENT", "objects">>, <<"OBJECTIONS", "escalates">>,
             <<"OBJECTIONS", "buys">>, <<"CONFIRM", "confirms">>}

Fact == [tenant : Tenants, about : Products]

Says(m, keywords) == m \cap keywords # {}

-----------------------------------------------------------------------------
(* sales-closer.                                                           *)

(* A defective order of the tests: buying signals win.                     *)
AfterObjections_BuysFirst(m) ==
  IF Says(m, Buys) THEN "CONFIRM" ELSE IF Says(m, Escalates) THEN "ESCALATED" ELSE "OBJECTIONS"

(* Escalation signals win over buying signals.                             *)
AfterObjections(m) ==
  IF Says(m, Escalates) THEN "ESCALATED" ELSE IF Says(m, Buys) THEN "CONFIRM" ELSE "OBJECTIONS"

(* A defective fall-through: any message confirms but an objection.        *)
AfterConfirm_NoEvidence(m) == IF Says(m, Objects) THEN "CONFIRM" ELSE "NOTIFY"

AfterConfirm(m) == IF Says(m, Confirms) THEN "NOTIFY" ELSE "CONFIRM"

(* _transition                                                             *)
Transition(s, m) ==
  CASE s = "IDENTIFY"   -> "PRESENT"
    [] s = "PRESENT"    -> IF Says(m, Objects) THEN "OBJECTIONS" ELSE "CONFIRM"
    [] s = "OBJECTIONS" -> AfterObjections(m)
    [] s = "CONFIRM"    -> AfterConfirm(m)
    [] s = "NOTIFY"     -> "CLOSED"
    [] OTHER            -> s

-----------------------------------------------------------------------------
(* lead-qualifier.                                                         *)

Clamp(n) == IF n < 0 THEN 0 ELSE IF n > 100 THEN 100 ELSE n

(* _score, of the numbers of matches of the four patterns.                 *)
Score(high, low, urgency, budget) == Clamp(50 + 10 * high - 8 * low + 15 * urgency + 5 * budget)

Hits(m, keywords) == Cardinality(m \cap keywords)

IntentScore(m) == Score(Hits(m, HighIntent), Hits(m, LowIntent), Hits(m, Urgency), Hits(m, Budget))

Tag(score) == IF score >= 70 THEN "hot" ELSE IF score >= 40 THEN "warm" ELSE "cold"

NextAction(score, tag) ==
  IF tag = "hot" THEN "prioritize" ELSE IF tag = "warm" /\ score >= 55 THEN "nurture" ELSE "monitor"

Messages == SUBSET Words

(* A lead as lead-qualifier returns it; /goal puts the second in the place *)
(* of a refusal, which an empty message gets.                              *)
Lead(m)  == [intent_score |-> IntentScore(m), tag |-> Tag(IntentScore(m))]
ColdLead == [intent_score |-> 0, tag |-> "cold"]
Leads    == {Lead(m) : m \in Messages \ {{}}} \cup {ColdLead}

-----------------------------------------------------------------------------
(* catalog-lookup over InMemoryHindsight.query.                            *)

(* Matches are the places of facts in Hindsight, in the order of addition. *)

(* matches[:top_k] of Python: a negative top_k drops from the end.         *)
Slice(places, k) ==
  LET kept == IF k < 0 THEN Cardinality(places) + k ELSE k
  IN  {i \in places : Cardinality({j \in places : j <= i}) <= kept}

(* A defective query that forgets the tenant.                              *)
Query_Unscoped(t, q, k) == Slice({i \in DOMAIN facts : facts[i].about = q}, k)

Query(t, q, k) == Slice({i \in DOMAIN facts : facts[i].tenant = t /\ facts[i].about = q}, k)

(* int(params.get("top_k") or 5)                                           *)
TopK(k) == IF k = 0 THEN 5 ELSE k

-----------------------------------------------------------------------------
(* The judge.                                                              *)

(* A defective threshold, apart from lead-qualifier's.                     *)
Qualified_From50(lead) == lead.intent_score >= 50 /\ lead.tag \in {"warm", "hot"}

Qualified(lead) == lead.intent_score >= 40 /\ lead.tag \in {"warm", "hot"}

(* A defective judge that takes the stage for the money.                   *)
Judge_StageOnly(type, context) ==
  CASE type = "qualify" -> Qualified(context.lead)
    [] type = "sell" -> context.stage = "CLOSED"
    [] type = "lookup" -> context.matches # {}
    [] OTHER -> FALSE

(* GoalJudge.judge: an unknown type is never achieved.                     *)
Judge(type, context) ==
  CASE type = "qualify" -> Qualified(context.lead)
    [] type = "sell" -> context.stage = "CLOSED" /\ context.payment_confirmed
    [] type = "lookup" -> context.matches # {}
    [] OTHER -> FALSE

(* The context of a goal of which only a lead is known: the judge's        *)
(* defaults stand in for the rest.                                         *)
Context(lead) == [lead |-> lead, stage |-> "IDENTIFY", payment_confirmed |-> FALSE, matches |-> {}]

-----------------------------------------------------------------------------
(* The calls.                                                              *)

NoResult == [call |-> "none"]

Init ==
  /\ stage = "IDENTIFY"
  /\ heard = {}
  /\ facts = <<>>
  /\ paid = FALSE
  /\ result = NoResult

(* sales-closer with the stage of the previous call.                       *)
Reply(m) ==
  /\ stage' = Transition(stage, m)
  /\ heard' = heard \cup {e \in Evidence : e[1] = stage /\ Says(m, Signals[e[2]])}
  /\ result' = NoResult
  /\ UNCHANGED <<facts, paid>>

(* The caller leaves current_stage out: the conversation starts over.      *)
ReplyFromTheTop(m) ==
  /\ stage' = Transition("IDENTIFY", m)
  /\ heard' = {}
  /\ result' = NoResult
  /\ UNCHANGED <<facts, paid>>

(* POST /goal scores a message and judges by its lead alone.               *)
EvaluateGoal(type, lead) ==
  /\ result' = [call |-> "goal", type |-> type, lead |-> lead, action |-> NextAction(lead.intent_score, lead.tag),
                achieved |-> Judge(type, Context(lead))]
  /\ UNCHANGED <<stage, heard, facts, paid>>

(* Client.run_goal about the conversation as it stands.                    *)
RunGoal(type) ==
  /\ result' = [call |-> "run", type |-> type,
                achieved |-> Judge(type, [Context(ColdLead) EXCEPT !.stage = stage, !.payment_confirmed = paid])]
  /\ UNCHANGED <<stage, heard, facts, paid>>

(* catalog-lookup, and the goal judged by what it found.                   *)
Lookup(t, q, k) ==
  LET matches == Query(t, q, TopK(k)) IN
  /\ result' = [call |-> "lookup", tenant |-> t, query |-> q, top_k |-> k, matches |-> matches,
                achieved |-> Judge("lookup", [Context(ColdLead) EXCEPT !.matches = matches])]
  /\ UNCHANGED <<stage, heard, facts, paid>>

(* A file's fact is added to Hindsight.                                    *)
AddFact(f) ==
  /\ Len(facts) < MaxFacts
  /\ facts' = Append(facts, f)
  /\ result' = NoResult
  /\ UNCHANGED <<stage, heard, paid>>

(* The payment arrives: the caller will say so when it has a goal judged.  *)
PaymentArrives ==
  /\ paid' = TRUE
  /\ result' = NoResult
  /\ UNCHANGED <<stage, heard, facts>>

Next ==
  \/ \E m \in Messages : Reply(m) \/ ReplyFromTheTop(m)
  \/ \E type \in GoalType : RunGoal(type) \/ \E lead \in Leads : EvaluateGoal(type, lead)
  \/ \E t \in Tenants, q \in Products, k \in {-1, 0, 1} : Lookup(t, q, k)
  \/ \E f \in Fact : AddFact(f)
  \/ PaymentArrives

Spec == Init /\ [][Next]_vars

-----------------------------------------------------------------------------
(* Properties.                                                             *)

TypeOK ==
  /\ stage \in Stage
  /\ heard \subseteq Evidence
  /\ facts \in Seq(Fact)
  /\ paid \in BOOLEAN
  /\ result.call = "goal" =>
       result.lead.intent_score \in 0 .. 100 /\ result.action \in {"prioritize", "nurture", "monitor"}

(* A conversation is closed only after the buyer confirmed when asked to,  *)
(* and, when there was an objection, after it was overcome: no order of    *)
(* messages finds a way around.                                            *)
ClosedOnEvidence ==
  stage \in {"NOTIFY", "CLOSED"} =>
    /\ <<"CONFIRM", "confirms">> \in heard
    /\ <<"PRESENT", "objects">> \in heard => <<"OBJECTIONS", "buys">> \in heard

(* A buyer who asks for a human while objecting is escalated and stays so, *)
(* whatever else the message or a later one says; and no other buyer is.   *)
HumanOnRequest == <<"OBJECTIONS", "escalates">> \in heard <=> stage = "ESCALATED"

(* The two files' thresholds agree: a lead is qualified exactly when its   *)
(* tag is not cold.  No other goal is ever achieved through /goal.         *)
VerdictFollowsTag ==
  result.call = "goal" => (result.achieved <=> result.type = "qualify" /\ result.lead.tag # "cold")

(* A sale is judged achieved only with the money in, after a confirmation. *)
SaleNeedsPayment ==
  result.call = "run" /\ result.achieved => result.type = "sell" /\ paid /\ <<"CONFIRM", "confirms">> \in heard

(* A look-up shows the agent facts of its own tenant only, and misses a    *)
(* known product for no top_k but a negative one.                          *)
LookupsAreScoped ==
  result.call = "lookup" =>
    /\ \A i \in result.matches : facts[i].tenant = result.tenant
    /\ result.top_k >= 0 =>
         (result.achieved <=> \E i \in DOMAIN facts : facts[i] = [tenant |-> result.tenant, about |-> result.query])
=============================================================================
