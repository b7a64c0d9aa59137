------------------------------ MODULE Scripts -------------------------------
(***************************************************************************)
(* What the scheduler of the Kernel promises of the scripts it is given:   *)
(* the queries of each are executed one after the other, in order and once *)
(* each, and a script ends after its last query or at the first that       *)
(* fails.  Only the shutdown gives up scripts half way.                    *)
(***************************************************************************)
EXTENDS Naturals, Sequences

CONSTANTS
  Procs,     \* the processes: one per script, or per query of the console
  Length     \* Length[p]: how many queries p has

VARIABLES
  submitted,  \* the processes the console has created
  ran,        \* ran[p]: the queries of p that were executed, in order
  failed,     \* the processes a query of which failed
  ended,      \* the processes that have ended
  down        \* the shutdown has begun

vars == <<submitted, ran, failed, ended, down>>

Init ==
  /\ submitted = {}
  /\ ran = [p \in Procs |-> <<>>]
  /\ failed = {}
  /\ ended = {}
  /\ down = FALSE

Submit(p) ==
  /\ p \notin submitted
  /\ submitted' = submitted \cup {p}
  /\ UNCHANGED <<ran, failed, ended, down>>

\* The next query of p, and no other.
RunNext(p) ==
  /\ p \in submitted \ (ended \cup failed)
  /\ Len(ran[p]) < Length[p]
  /\ ran' = [ran EXCEPT ![p] = Append(@, Len(@) + 1)]
  /\ UNCHANGED <<submitted, failed, ended, down>>

\* The next query of p fails, and is its last.
Fail(p) ==
  /\ p \in submitted \ (ended \cup failed)
  /\ Len(ran[p]) < Length[p]
  /\ failed' = failed \cup {p}
  /\ UNCHANGED <<submitted, ran, ended, down>>

End(p) ==
  /\ p \in submitted \ ended
  /\ Len(ran[p]) = Length[p] \/ p \in failed
  /\ ended' = ended \cup {p}
  /\ UNCHANGED <<submitted, ran, failed, down>>

Shutdown ==
  /\ down' = TRUE
  /\ UNCHANGED <<submitted, ran, failed, ended>>

GiveUp(P) ==
  /\ down
  /\ ended' = ended \cup P
  /\ UNCHANGED <<submitted, ran, failed, down>>

Next == \/ \E p \in Procs : Submit(p) \/ RunNext(p) \/ Fail(p) \/ End(p)
        \/ Shutdown
        \/ \E P \in SUBSET submitted : GiveUp(P)

Spec == Init /\ [][Next]_vars
=============================================================================
