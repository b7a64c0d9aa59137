---------------------------- MODULE MCPageCache -----------------------------
(* TLC instances of PageCache. *)
EXTENDS PageCache, TLC

CONSTANTS t1, t2, k1, k2, k3, v1, c1

\* The file system has every table, with a value for every key.
AllPreloaded == Tables \X Keys

\* The file system has a value for one key of the first table.
OnePreloaded == {<<t1, k1>>}

Symmetry    == Permutations(Keys)
OthersAlike == Permutations(Keys \ {k1})
=============================================================================
