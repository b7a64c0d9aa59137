---------------------------- MODULE MCTableStore ----------------------------
(* TLC instances of TableStore. *)
EXTENDS TableStore

CONSTANTS r1

E(k, t) == [key |-> k, ts |-> t]

\* Two inserts of one key: the newer one must win.
TwoInserts == {E(1, 1), E(1, 2)}
=============================================================================
