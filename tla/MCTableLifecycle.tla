-------------------------- MODULE MCTableLifecycle --------------------------
(* TLC instances of TableLifecycle. *)
EXTENDS TableLifecycle, TLC

CONSTANTS c1, c2

Symmetry == Permutations(Clients)
=============================================================================
