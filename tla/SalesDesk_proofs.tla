-------------------------- MODULE SalesDesk_proofs --------------------------
(* Theorems about SalesDesk: the funnel for messages of any keywords, the  *)
(* lead score for any numbers of matches.                                  *)
EXTENDS SalesDesk, FiniteSetTheorems, SequenceTheorems, WellFoundedInduction, TLAPS

(* The lead score is a percentage, and one more sign of interest, or one   *)
(* less of indifference, never lowers it.                                  *)
THEOREM ScoreMonotone ==
  ASSUME NEW h \in Nat, NEW l \in Nat, NEW u \in Nat, NEW b \in Nat,
         NEW h2 \in Nat, NEW l2 \in Nat, NEW u2 \in Nat, NEW b2 \in Nat,
         h <= h2, l2 <= l, u <= u2, b <= b2
  PROVE  /\ Score(h, l, u, b) \in 0 .. 100
         /\ Score(h, l, u, b) <= Score(h2, l2, u2, b2)
<1>1. \A m, n \in Int : m <= n => Clamp(m) \in 0 .. 100 /\ Clamp(m) <= Clamp(n)
  BY DEF Clamp
<1>2. /\ 50 + 10 * h - 8 * l + 15 * u + 5 * b \in Int
      /\ 50 + 10 * h2 - 8 * l2 + 15 * u2 + 5 * b2 \in Int
      /\ 50 + 10 * h - 8 * l + 15 * u + 5 * b <= 50 + 10 * h2 - 8 * l2 + 15 * u2 + 5 * b2
  OBVIOUS
<1>. QED BY <1>1, <1>2 DEF Score

(* The thresholds of the judge and of lead-qualifier are the same line.    *)
LEMMA Thresholds ==
  ASSUME NEW score \in 0 .. 100
  PROVE  /\ Qualified([intent_score |-> score, tag |-> Tag(score)]) <=> Tag(score) # "cold"
         /\ NextAction(score, Tag(score)) \in {"prioritize", "nurture", "monitor"}
  BY DEF Qualified, Tag, NextAction

LEMMA IntentScoreRange == ASSUME NEW m \in Messages PROVE IntentScore(m) \in 0 .. 100
<1>1. \A keywords : Hits(m, keywords) \in Nat
  <2>. TAKE keywords
  <2>1. IsFiniteSet(m)
    BY WordsAssumption, FS_Subset DEF Messages
  <2>2. IsFiniteSet(m \cap keywords)
    BY <2>1, FS_Subset
  <2>. QED BY <2>2, FS_CardinalityType DEF Hits
<1>2. \A h, l, u, b \in Nat : Score(h, l, u, b) \in 0 .. 100
  BY DEF Score, Clamp
<1>. QED BY <1>1, <1>2 DEF IntentScore

-----------------------------------------------------------------------------
(* The look-up.                                                            *)

(* A positive top_k keeps a match of every set of matches that has one.    *)
LEMMA SliceKeepsFirst ==
  ASSUME NEW places \in SUBSET Nat, NEW k \in Nat \ {0}
  PROVE  Slice(places, k) \subseteq places /\ (places # {} => Slice(places, k) # {})
<1>1. Slice(places, k) = {i \in places : Cardinality({j \in places : j <= i}) <= k}
  BY DEF Slice
<1>2. ASSUME places # {} PROVE Slice(places, k) # {}
  <2>1. PICK m \in places : \A n \in places : ~ (<<n, m>> \in OpToRel(<, Nat))
    BY <1>2, NatLessThanWellFounded, WFMin
  <2>2. \A n \in places : ~ (n < m)
    <3>. SUFFICES ASSUME NEW n \in places, n < m PROVE FALSE
      OBVIOUS
    <3>1. <<n, m>> \in Nat \X Nat /\ <<n, m>>[1] < <<n, m>>[2]
      OBVIOUS
    <3>. QED BY <2>1, <3>1, Zenon DEF OpToRel
  <2>3. {j \in places : j <= m} = {m}
    <3>1. \A n \in places : n <= m <=> n = m
      BY <2>2
    <3>. QED BY <3>1
  <2>4. Cardinality({m}) = 1
    BY FS_Singleton
  <2>5. Cardinality({j \in places : j <= m}) <= k
    <3>1. 1 <= k
      OBVIOUS
    <3>. QED BY <2>3, <2>4, <3>1, Zenon
  <2>6. m \in Slice(places, k)
    BY <1>1, <2>5, Zenon
  <2>. QED BY <2>6
<1>. QED BY <1>1, <1>2

(* Whatever it is asked, catalog-lookup returns facts of the tenant it was *)
(* given, and some when there are some and top_k is not negative.          *)
LEMMA LookupScoped ==
  ASSUME facts \in Seq(Fact), NEW t \in Tenants, NEW q \in Products, NEW k \in Int, Lookup(t, q, k)
  PROVE  LookupsAreScoped'
<1>. DEFINE places == {i \in DOMAIN facts : facts[i].tenant = t /\ facts[i].about = q}
            matches == Slice(places, TopK(k))
<1>1. /\ result'.call = "lookup" /\ result'.tenant = t /\ result'.query = q /\ result'.top_k = k
      /\ result'.matches = matches
      /\ result'.achieved = Judge("lookup", [Context(ColdLead) EXCEPT !.matches = matches])
      /\ facts' = facts
  BY DEF Lookup, Query
<1>2. places \in SUBSET Nat /\ \A i \in DOMAIN facts : facts[i] \in Fact
  BY LenProperties, ElementOfSeq
<1>3. matches \subseteq places
  BY DEF Slice
<1>4. places # {} <=> \E i \in DOMAIN facts : facts[i] = [tenant |-> t, about |-> q]
  BY <1>2 DEF Fact
<1>5. k >= 0 => (matches # {} <=> places # {})
  <2>. SUFFICES ASSUME k >= 0 PROVE matches # {} <=> places # {}
    OBVIOUS
  <2>1. TopK(k) \in Nat \ {0}
    BY DEF TopK
  <2>. HIDE DEF places
  <2>. QED BY <1>2, <2>1, SliceKeepsFirst
<1>. HIDE DEF matches
<1>6. result'.achieved <=> matches # {}
  <2>1. [Context(ColdLead) EXCEPT !.matches = matches].matches = matches
    BY DEF Context
  <2>. QED BY <1>1, <2>1 DEF Judge
<1>7. \A i \in matches : facts[i].tenant = t
  BY <1>3
<1>. HIDE DEF places
<1>. QED BY <1>1, <1>4, <1>5, <1>6, <1>7 DEF LookupsAreScoped

-----------------------------------------------------------------------------

(* What the evidence says at each stage.                                   *)
Funnel ==
  /\ stage \in {"IDENTIFY", "PRESENT"} => heard = {}
  /\ stage \in {"CONFIRM", "NOTIFY", "CLOSED"} =>
       (<<"PRESENT", "objects">> \in heard => <<"OBJECTIONS", "buys">> \in heard)
  /\ stage \in {"NOTIFY", "CLOSED"} => <<"CONFIRM", "confirms">> \in heard
  /\ HumanOnRequest

(* What the latest result says of the conversation.                        *)
Result == TypeOK /\ VerdictFollowsTag /\ SaleNeedsPayment /\ LookupsAreScoped

LEMMA ReplyFunnel ==
  ASSUME stage \in Stage, heard \subseteq Evidence, Funnel, NEW m \in Messages, Reply(m)
  PROVE  Funnel' /\ stage' \in Stage /\ heard' \subseteq Evidence
<1>. USE DEF Reply, Funnel, HumanOnRequest, Transition, AfterObjections, AfterConfirm, Evidence, Signals, Stage
<1>1. stage' \in Stage /\ heard' \subseteq Evidence
  OBVIOUS
<1>2. CASE stage = "IDENTIFY" BY <1>2
<1>3. CASE stage = "PRESENT" BY <1>3
<1>4. CASE stage = "OBJECTIONS" BY <1>4
<1>5. CASE stage = "CONFIRM" BY <1>5
<1>6. CASE stage \in {"NOTIFY", "CLOSED", "ESCALATED"} BY <1>6
<1>. QED BY <1>1, <1>2, <1>3, <1>4, <1>5, <1>6

IInv == Funnel /\ Result

LEMMA InitInv == Init => IInv
<1>. SUFFICES ASSUME Init PROVE IInv
  OBVIOUS
<1>1. result.call = "none" /\ facts \in Seq(Fact)
  BY DEF Init, NoResult
<1>. QED BY <1>1 DEF Init, IInv, Funnel, HumanOnRequest, Result, TypeOK, VerdictFollowsTag, SaleNeedsPayment, LookupsAreScoped, Stage

LEMMA StepInv == IInv /\ [Next]_vars => IInv'
<1>. SUFFICES ASSUME IInv, [Next]_vars PROVE IInv'
  OBVIOUS
<1>. USE DEF IInv, Result
<1>1. ASSUME NEW m \in Messages, Reply(m) PROVE IInv'
  <2>1. Funnel' /\ stage' \in Stage /\ heard' \subseteq Evidence
    BY <1>1, ReplyFunnel DEF TypeOK
  <2>2. result'.call = "none" /\ facts' = facts /\ paid' = paid
    BY <1>1 DEF Reply, NoResult
  <2>. QED BY <2>1, <2>2 DEF TypeOK, VerdictFollowsTag, SaleNeedsPayment, LookupsAreScoped
<1>2. ASSUME NEW m \in Messages, ReplyFromTheTop(m) PROVE IInv'
  BY <1>2 DEF ReplyFromTheTop, NoResult, Transition, Funnel, HumanOnRequest, TypeOK, VerdictFollowsTag, SaleNeedsPayment, LookupsAreScoped, Stage
<1>3. ASSUME NEW type \in GoalType, RunGoal(type) PROVE IInv'
  <2>1. Funnel'
    BY <1>3 DEF RunGoal, Funnel, HumanOnRequest
  <2>2. result'.call = "run" /\ result'.type = type
        /\ result'.achieved = Judge(type, [Context(ColdLead) EXCEPT !.stage = stage, !.payment_confirmed = paid])
    BY <1>3 DEF RunGoal
  <2>3. result'.achieved => type = "sell" /\ paid /\ stage = "CLOSED"
    BY <2>2 DEF Judge, Context, ColdLead, Qualified, GoalType, TypeOK
  <2>. QED BY <1>3, <2>1, <2>2, <2>3 DEF RunGoal, Funnel, TypeOK, VerdictFollowsTag, SaleNeedsPayment, LookupsAreScoped
<1>4. ASSUME NEW type \in GoalType, NEW lead \in Leads, EvaluateGoal(type, lead) PROVE IInv'
  <2>1. Funnel'
    BY <1>4 DEF EvaluateGoal, Funnel, HumanOnRequest
  <2>2. /\ result'.call = "goal" /\ result'.type = type /\ result'.lead = lead
        /\ result'.action = NextAction(lead.intent_score, lead.tag)
        /\ result'.achieved = Judge(type, Context(lead))
    BY <1>4 DEF EvaluateGoal
  <2>3. PICK score \in 0 .. 100 : lead = [intent_score |-> score, tag |-> Tag(score)]
    <3>1. CASE lead = ColdLead
      <4>1. lead = [intent_score |-> 0, tag |-> Tag(0)]
        BY <3>1 DEF ColdLead, Tag
      <4>. QED BY <4>1
    <3>2. ASSUME NEW m \in Messages, lead = Lead(m)
          PROVE  \E score \in 0 .. 100 : lead = [intent_score |-> score, tag |-> Tag(score)]
      BY <3>2, IntentScoreRange DEF Lead
    <3>. QED BY <3>1, <3>2 DEF Leads
  <2>4. lead.intent_score = score /\ lead.tag = Tag(score)
    BY <2>3
  <2>5. Qualified(lead) <=> lead.tag # "cold"
    BY <2>3, <2>4, Thresholds
  <2>6. Judge(type, Context(lead)) <=> type = "qualify" /\ Qualified(lead)
    <3>1. /\ Context(lead).lead = lead /\ Context(lead).stage = "IDENTIFY"
          /\ Context(lead).matches = {}
      BY DEF Context
    <3>. QED BY <3>1 DEF Judge, GoalType
  <2>7. VerdictFollowsTag'
    BY <2>2, <2>5, <2>6 DEF VerdictFollowsTag
  <2>8. result'.action \in {"prioritize", "nurture", "monitor"}
    BY <2>2, <2>4, Thresholds
  <2>. QED BY <1>4, <2>1, <2>2, <2>4, <2>7, <2>8 DEF EvaluateGoal, TypeOK, SaleNeedsPayment, LookupsAreScoped
<1>5. ASSUME NEW t \in Tenants, NEW q \in Products, NEW k \in {-1, 0, 1}, Lookup(t, q, k) PROVE IInv'
  <2>1. result'.call = "lookup"
    BY <1>5 DEF Lookup
  <2>2. LookupsAreScoped'
    BY <1>5, LookupScoped DEF TypeOK
  <2>. QED BY <1>5, <2>1, <2>2 DEF Lookup, Funnel, HumanOnRequest, TypeOK, VerdictFollowsTag, SaleNeedsPayment
<1>6. ASSUME NEW f \in Fact, AddFact(f) PROVE IInv'
  BY <1>6 DEF AddFact, NoResult, Funnel, HumanOnRequest, TypeOK, VerdictFollowsTag, SaleNeedsPayment, LookupsAreScoped
<1>7. CASE PaymentArrives
  BY <1>7 DEF PaymentArrives, NoResult, Funnel, HumanOnRequest, TypeOK, VerdictFollowsTag, SaleNeedsPayment, LookupsAreScoped
<1>8. CASE UNCHANGED vars
  BY <1>8 DEF vars, Funnel, HumanOnRequest, TypeOK, VerdictFollowsTag, SaleNeedsPayment, LookupsAreScoped
<1>. QED BY <1>1, <1>2, <1>3, <1>4, <1>5, <1>6, <1>7, <1>8 DEF Next

LEMMA InvHolds == Spec => []IInv
  BY InitInv, StepInv, PTL DEF Spec

(* Every stage is one of the seven, every score a percentage.              *)
THEOREM TypeCorrect == Spec => []TypeOK
<1>1. IInv => TypeOK BY DEF IInv, Result
<1>. QED BY <1>1, InvHolds, PTL

(* No order of messages closes a conversation without a confirmation, or   *)
(* past an objection that was not overcome.                                *)
THEOREM ClosedOnEvidenceThm == Spec => []ClosedOnEvidence
<1>1. IInv => ClosedOnEvidence BY DEF IInv, Funnel, ClosedOnEvidence
<1>. QED BY <1>1, InvHolds, PTL

(* Asking for a human while objecting, and nothing else, escalates.        *)
THEOREM HumanOnRequestThm == Spec => []HumanOnRequest
<1>1. IInv => HumanOnRequest BY DEF IInv, Funnel
<1>. QED BY <1>1, InvHolds, PTL

(* The judge and lead-qualifier agree on every message.                    *)
THEOREM VerdictFollowsTagThm == Spec => []VerdictFollowsTag
<1>1. IInv => VerdictFollowsTag BY DEF IInv, Result
<1>. QED BY <1>1, InvHolds, PTL

(* No sale is judged achieved without payment and confirmation.            *)
THEOREM SaleNeedsPaymentThm == Spec => []SaleNeedsPayment
<1>1. IInv => SaleNeedsPayment BY DEF IInv, Result
<1>. QED BY <1>1, InvHolds, PTL

(* No tenant's agent is shown another tenant's facts, and a product that   *)
(* Hindsight knows is found.                                               *)
THEOREM LookupsAreScopedThm == Spec => []LookupsAreScoped
<1>1. IInv => LookupsAreScoped BY DEF IInv, Result
<1>. QED BY <1>1, InvHolds, PTL
=============================================================================
