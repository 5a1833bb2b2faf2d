-------------------------- MODULE MCWorkerClients --------------------------
(* WorkerClients on small instances. *)
EXTENDS WorkerClients, TLC

Symmetry == Permutations(Worker) \union Permutations(Task) \union Permutations(Tester)
=============================================================================
