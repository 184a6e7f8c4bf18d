------------------------- MODULE MCSharedRepository -------------------------
(* The API process with its requests and its worker, and a reconciler.      *)
EXTENDS SharedRepository

MCHome == [t \in Threads |-> IF t = "reconciler_loop" THEN "reconciler" ELSE "api"]
=============================================================================
