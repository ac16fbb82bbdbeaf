----------------------------- MODULE MCAdapters -----------------------------
(* An instance of Adapters for TLC: a batch of two messages.               *)
EXTENDS Adapters, TLC

CONSTANTS b1, m1, m2, n1, s1

MCContent == b1 :> <<m1, m2>>
MCNumberOf == [b \in Batches |-> n1]
MCSenderOf == [m \in Messages |-> s1]
MCSymmetry == Permutations(Handlers)
=============================================================================
