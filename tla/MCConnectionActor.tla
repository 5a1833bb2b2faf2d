-------------------------- MODULE MCConnectionActor -------------------------
(* ConnectionActor on small instances. *)
EXTENDS ConnectionActor, TLC

Symmetry == Permutations(Worker) \union Permutations(Client)
=============================================================================
