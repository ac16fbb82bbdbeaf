------------------------- MODULE MCIngestionWorker -------------------------
(* Instances of IngestionWorker for TLC: a file of two chunks, a file of   *)
(* one, an empty file, and a file of a format nobody can read.             *)
EXTENDS IngestionWorker, TLC

CONSTANTS catalog, manual, empty, unknown

MCChunks == [job \in Jobs |-> IF job = catalog THEN 2 ELSE IF job = manual THEN 1 ELSE 0]
=============================================================================
