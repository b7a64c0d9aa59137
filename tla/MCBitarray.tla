----------------------------- MODULE MCBitarray -----------------------------
(* TLC instance of Bitarray. *)
EXTENDS Bitarray

CONSTANTS f1, f2
TwoFiles == {f1, f2}
=============================================================================
