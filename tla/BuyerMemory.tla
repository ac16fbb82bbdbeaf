---------------------------- MODULE BuyerMemory ----------------------------
(***************************************************************************)
(* The in-memory buyer memory (src/src/sample/memory/buyer.py): a bounded  *)
(* list of interactions per buyer.  Its methods are coroutines that await  *)
(* nothing, so each is one synchronous step of its caller.                 *)
(***************************************************************************)
EXTENDS Integers, Sequences

CONSTANT MaxItems   \* max_items: interactions kept per buyer

ASSUME MaxItemsAssumption == MaxItems \in Nat \ {0}

(* The last n elements of a sequence, all of them when it is shorter.      *)
LastN(s, n) == SubSeq(s, IF Len(s) > n THEN Len(s) - n + 1 ELSE 1, Len(s))

(* A defective Trim that drops two interactions where one is too many.     *)
Trim_OffByOne(bucket) ==
  IF Len(bucket) > MaxItems THEN Tail(Tail(bucket)) ELSE bucket

(* del bucket[: len(bucket) - max_items], when there is anything to drop.  *)
Trim(bucket) ==
  IF Len(bucket) > MaxItems THEN SubSeq(bucket, Len(bucket) - MaxItems + 1, Len(bucket)) ELSE bucket

(* remember: setdefault, append, drop the oldest.                          *)
Remember(store, buyer, item) ==
  [store EXCEPT ![buyer] = Trim(Append(@, item))]

(* recall(limit): the most recent interactions of the buyer.               *)
Recall(store, buyer, limit) ==
  IF limit <= 0 THEN <<>> ELSE LastN(store[buyer], limit)
=============================================================================
