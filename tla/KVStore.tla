------------------------------ MODULE KVStore -------------------------------
(***************************************************************************)
(* What a Lissandra table promises, with no memtable, dump or compaction   *)
(* in sight: for every key, the newest insert wins, and only stopping the  *)
(* process may lose anything.                                              *)
(*                                                                         *)
(* The state is the set of inserts the store accounts for: an insert is    *)
(* accounted for when the store holds one of the same key that is at least *)
(* as new.  The value of a key is its newest insert in the set.            *)
(***************************************************************************)
EXTENDS Integers

CONSTANT Entries    \* the inserts that may be made: [key, ts]

VARIABLES shadow, up

\* The inserts of Entries made irrelevant by those of S, S included.
Shadow(S) == {e \in Entries : \E x \in S : x.key = e.key /\ e.ts <= x.ts}

Init ==
  /\ shadow = {}
  /\ up = TRUE

\* An acknowledged INSERT.
Put(e) ==
  /\ up
  /\ shadow' = shadow \cup Shadow({e})
  /\ UNCHANGED up

\* The process stops: it may lose inserts, it never invents one.
Stop ==
  /\ up
  /\ up' = FALSE
  /\ shadow' \in SUBSET shadow

\* What a stop left is what the next start finds.
Start ==
  /\ ~up
  /\ up' = TRUE
  /\ UNCHANGED shadow

Next == (\E e \in Entries : Put(e)) \/ Stop \/ Start

Spec == Init /\ [][Next]_<<shadow, up>>
=============================================================================
