---------------------------- MODULE MCApiWorkers ----------------------------
(* Instances of ApiWorkers for TLC: messages to one number.                *)
EXTENDS ApiWorkers

CONSTANT n1

MCNumberOf == [m \in Messages |-> n1]
MCLimit == [onboard |-> 2, webhook |-> 2]
=============================================================================
