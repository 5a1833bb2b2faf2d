--------------------------- MODULE MCWorkerManager --------------------------
(* WorkerManager on small instances. *)
EXTENDS WorkerManager, TLC

Symmetry == Permutations(Task) \union Permutations(Worker)
=============================================================================
