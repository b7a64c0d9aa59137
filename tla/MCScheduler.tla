---------------------------- MODULE MCScheduler -----------------------------
(* TLC instances of Scheduler. *)
EXTENDS Scheduler, TLC

CONSTANTS p1, p2, p3

\* A script of two queries, a query of the console and an empty script.
Mixed == p1 :> 2 @@ p2 :> 1 @@ p3 :> 0

Single == p1 :> 1
=============================================================================
