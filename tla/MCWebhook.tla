----------------------------- MODULE MCWebhook -----------------------------
(* Instances of Webhook for TLC: two batches of one buyer's messages.      *)
EXTENDS Webhook, TLC

CONSTANTS b1, b2, m1, m2, m3, n1, s1

MCContent == (b1 :> <<m1, m2>>) @@ (b2 :> <<m3>>)
MCNumberOf == [b \in Batches |-> n1]
MCSenderOf == [m \in Messages |-> s1]
============================================================================
