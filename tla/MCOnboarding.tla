---------------------------- MODULE MCOnboarding ----------------------------
(* Instances of Onboarding for TLC.                                        *)
EXTENDS Onboarding, TLC

CONSTANT acme

(* "Acme" and "Acme 2": the second base is the first one's first suffix.   *)
MCBases == {<<acme>>, <<acme, 2>>}

(* Deliveries are alike, and so are operators.                             *)
MCSymmetry == Permutations(Deliveries) \cup Permutations(Operators)

(* The behaviours in which Meta repeats a callback once the former         *)
(* delivery has its answer.                                                *)
InTurn ==
  \A d \in Deliveries : pc[d] = "idle" /\ pc'[d] # "idle" =>
    \A e \in Deliveries : pc[e] \notin InFlight

OneAtATimeSpec == Init /\ [][Next /\ InTurn]_vars
=============================================================================
