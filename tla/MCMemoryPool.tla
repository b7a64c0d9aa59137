---------------------------- MODULE MCMemoryPool ----------------------------
(* TLC instances of MemoryPool. *)
EXTENDS MemoryPool, TLC

CONSTANTS p1, p2, m1, m2, m3

\* ADD m3 TO SHC makes three of them; the key is then on another one.
Criteria3 == (m1 :> {"SC", "SHC"}) @@ (m2 :> {"SHC"}) @@ (m3 :> {"SC"})

Symmetry == Permutations(Threads)
=============================================================================
