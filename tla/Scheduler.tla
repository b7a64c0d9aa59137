----------------------------- MODULE Scheduler ------------------------------
(***************************************************************************)
(* The scheduler of the Kernel: the console puts a process in the queue    *)
(* NEW, the thread new_to_ready moves it to READY when MAX_PROC_READY has  *)
(* room, and MP processors take it from there, run a quantum of its        *)
(* queries and put it back at the end of READY, or destroy it.             *)
(*                                                                         *)
(* A push or a pop under MUTEX_NEW or MUTEX_READY is one step; posting and *)
(* waiting for a semaphore are steps of their own.  What a query does is   *)
(* left out but for its outcome: it is executed (with or without an error  *)
(* from the memory), it aborts the process, or its line does not parse.    *)
(***************************************************************************)
EXTENDS Naturals, Sequences, FiniteSets, Functions

CONSTANTS
  Procs,     \* the processes the console creates, each at most once
  Length,    \* Length[p]: how many queries p has
  MP,        \* the multiprogramming degree: processors, and room in READY
  Quantum,   \* get_quantum
  None       \* no process

Processors == 1 .. MP

ASSUME ProcsAssumption   == Length \in [Procs -> Nat] /\ None \notin Procs
ASSUME DegreeAssumption  == MP \in Nat \ {0}
ASSUME QuantumAssumption == Quantum \in Nat

VARIABLES
  new, ready,   \* the queues
  maxReady,     \* semaphore MAX_PROC_READY
  pendNew,      \* semaphore PROC_PEND_NEW
  pendReady,    \* semaphore PROC_PEND_READY
  main,         \* where the main thread (console, then shutdown) is
  mover,        \* where new_to_ready is
  moving,       \* its variable p
  cpu,          \* cpu[i]: where processor i is
  exec,         \* exec[i]: its variable exec
  turn,         \* turn[i]: how many queries of the quantum it has run
  pc,           \* pc[p]: the pc of process p
  alive,        \* the processes allocated and not destroyed
  exitFlag,
  submitted,    \* history: the processes created
  ran,          \* history: ran[p], the queries of p executed, in order
  failed        \* history: the processes a query of which failed

queues     == <<new, ready>>
semaphores == <<maxReady, pendNew, pendReady>>
moverVars  == <<mover, moving>>
cpuVars    == <<cpu, exec, turn>>
history    == <<submitted, ran, failed>>
vars == <<queues, semaphores, main, moverVars, cpuVars, pc, alive, exitFlag, history>>

Up     == main # "gone"
Killed == main = "killed"

Finished(p) == pc[p] >= Length[p]

-----------------------------------------------------------------------------
(* The console and the shutdown.                                           *)

\* process_create and add_process_to_new: the push, and then the post.
Submit(p) ==
  /\ main = "console"
  /\ p \notin submitted
  /\ submitted' = submitted \cup {p}
  /\ alive' = alive \cup {p}
  /\ new' = Append(new, p)
  /\ main' = "post"
  /\ UNCHANGED <<ready, semaphores, moverVars, cpuVars, pc, exitFlag, ran, failed>>

PostPendNew ==
  /\ main = "post"
  /\ pendNew' = pendNew + 1
  /\ main' = "console"
  /\ UNCHANGED <<queues, maxReady, pendReady, moverVars, cpuVars, pc, alive, exitFlag, history>>

\* An empty line ends the console.
Exit ==
  /\ main = "console"
  /\ exitFlag' = TRUE
  /\ main' = "joining"
  /\ UNCHANGED <<queues, semaphores, moverVars, cpuVars, pc, alive, history>>

\* kill_kernel, once the threads of metrics, metadata and gossip are joined:
\* new_to_ready and the processors are detached, and nobody waits for them.
Kill ==
  /\ main = "joining"
  /\ main' = "killed"
  /\ new' = <<>>
  /\ ready' = <<>>
  /\ alive' = alive \ (Range(new) \cup Range(ready))
  /\ UNCHANGED <<semaphores, moverVars, cpuVars, pc, exitFlag, history>>

\* exit(0).
Leave ==
  /\ main = "killed"
  /\ main' = "gone"
  /\ UNCHANGED <<queues, semaphores, moverVars, cpuVars, pc, alive, exitFlag, history>>

\* A detached thread uses a queue that kill_kernel has destroyed: the process
\* dies of it, or reaches exit(0) in spite of it.
UseDestroyedQueue ==
  /\ Killed
  /\ mover \in {"pop", "push"} \/ \E i \in Processors : cpu[i] \in {"pop", "push"}
  /\ main' = "gone"
  /\ UNCHANGED <<queues, semaphores, moverVars, cpuVars, pc, alive, exitFlag, history>>

-----------------------------------------------------------------------------
(* new_to_ready.                                                           *)

MoverGoto(l) == mover' = l

\* while(!exitFlag)
MoverLoop ==
  /\ Up /\ mover = "loop"
  /\ MoverGoto(IF exitFlag THEN "end" ELSE "max")
  /\ UNCHANGED <<queues, semaphores, main, moving, cpuVars, pc, alive, exitFlag, history>>

WaitMaxReady ==
  /\ Up /\ mover = "max"
  /\ maxReady > 0
  /\ maxReady' = maxReady - 1
  /\ MoverGoto("pend")
  /\ UNCHANGED <<queues, pendNew, pendReady, main, moving, cpuVars, pc, alive, exitFlag, history>>

\* Mutant: it does not wait for PROC_PEND_NEW.
WaitPendNewSkipped ==
  /\ Up /\ mover = "pend"
  /\ MoverGoto("pop")
  /\ UNCHANGED <<queues, semaphores, main, moving, cpuVars, pc, alive, exitFlag, history>>

WaitPendNew ==
  /\ Up /\ mover = "pend"
  /\ pendNew > 0
  /\ pendNew' = pendNew - 1
  /\ MoverGoto("pop")
  /\ UNCHANGED <<queues, maxReady, pendReady, main, moving, cpuVars, pc, alive, exitFlag, history>>

PopNew ==
  /\ Up /\ ~Killed /\ mover = "pop"
  /\ new # <<>>
  /\ moving' = Head(new)
  /\ new' = Tail(new)
  /\ MoverGoto("push")
  /\ UNCHANGED <<ready, semaphores, main, cpuVars, pc, alive, exitFlag, history>>

\* add_process_to_ready.
MoverPush ==
  /\ Up /\ ~Killed /\ mover = "push"
  /\ ready' = Append(ready, moving)
  /\ MoverGoto("post")
  /\ UNCHANGED <<new, semaphores, main, moving, cpuVars, pc, alive, exitFlag, history>>

MoverPost ==
  /\ Up /\ mover = "post"
  /\ pendReady' = pendReady + 1
  /\ MoverGoto("log")
  /\ UNCHANGED <<queues, maxReady, pendNew, main, moving, cpuVars, pc, alive, exitFlag, history>>

\* It logs the pid of a process that is no longer its own, and forgets it.
MoverLog ==
  /\ Up /\ mover = "log"
  /\ moving' = None
  /\ MoverGoto("loop")
  /\ UNCHANGED <<queues, semaphores, main, cpuVars, pc, alive, exitFlag, history>>

Mover == \/ MoverLoop \/ WaitMaxReady \/ WaitPendNew \/ PopNew
         \/ MoverPush \/ MoverPost \/ MoverLog

-----------------------------------------------------------------------------
(* processor_execute.                                                      *)

CpuGoto(i, l) == cpu' = [cpu EXCEPT ![i] = l]

CpuLoop(i) ==
  /\ Up /\ cpu[i] = "loop"
  /\ CpuGoto(i, IF exitFlag THEN "end" ELSE "wait")
  /\ UNCHANGED <<queues, semaphores, main, moverVars, exec, turn, pc, alive, exitFlag, history>>

WaitPendReady(i) ==
  /\ Up /\ cpu[i] = "wait"
  /\ pendReady > 0
  /\ pendReady' = pendReady - 1
  /\ CpuGoto(i, "pop")
  /\ UNCHANGED <<queues, maxReady, pendNew, main, moverVars, exec, turn, pc, alive, exitFlag,
                 history>>

\* Mutant: queue_peek for queue_pop.
PeekReady(i) ==
  /\ Up /\ ~Killed /\ cpu[i] = "pop"
  /\ ready # <<>>
  /\ exec' = [exec EXCEPT ![i] = Head(ready)]
  /\ turn' = [turn EXCEPT ![i] = 0]
  /\ CpuGoto(i, "run")
  /\ UNCHANGED <<queues, semaphores, main, moverVars, pc, alive, exitFlag, history>>

PopReady(i) ==
  /\ Up /\ ~Killed /\ cpu[i] = "pop"
  /\ ready # <<>>
  /\ exec' = [exec EXCEPT ![i] = Head(ready)]
  /\ ready' = Tail(ready)
  /\ turn' = [turn EXCEPT ![i] = 0]
  /\ CpuGoto(i, "run")
  /\ UNCHANGED <<new, semaphores, main, moverVars, pc, alive, exitFlag, history>>

\* Mutant: the loop over the quantum does not ask process_finished.
NextQueryUnchecked(i) ==
  /\ Up /\ cpu[i] = "run"
  /\ turn[i] < Quantum
  /\ pc' = [pc EXCEPT ![exec[i]] = @ + 1]
  /\ CpuGoto(i, "query")
  /\ UNCHANGED <<queues, semaphores, main, moverVars, exec, turn, alive, exitFlag, history>>

\* process_next_query: the line that follows.  A line that does not parse ends
\* the process.
NextQuery(i) ==
  /\ Up /\ cpu[i] = "run"
  /\ turn[i] < Quantum
  /\ ~Finished(exec[i])
  /\ \/ /\ pc' = [pc EXCEPT ![exec[i]] = @ + 1]
        /\ CpuGoto(i, "query")
        /\ UNCHANGED failed
     \/ /\ pc' = [pc EXCEPT ![exec[i]] = Length[exec[i]]]
        /\ failed' = failed \cup {exec[i]}
        /\ CpuGoto(i, "finish")
  /\ UNCHANGED <<queues, semaphores, main, moverVars, exec, turn, alive, exitFlag,
                 submitted, ran>>

\* execute_query: it is done, whatever the memory answers...
EndQuery(i) ==
  /\ Up /\ cpu[i] = "query"
  /\ ran' = [ran EXCEPT ![exec[i]] = Append(@, pc[exec[i]])]
  /\ turn' = [turn EXCEPT ![i] = @ + 1]
  /\ CpuGoto(i, "run")
  /\ UNCHANGED <<queues, semaphores, main, moverVars, exec, pc, alive, exitFlag,
                 submitted, failed>>

\* Mutant: the abort leaves pc where it was, so the rest runs in a later turn.
AbortQueryResumes(i) ==
  /\ Up /\ cpu[i] = "query"
  /\ failed' = failed \cup {exec[i]}
  /\ CpuGoto(i, IF Finished(exec[i]) THEN "finish" ELSE "push")
  /\ UNCHANGED <<queues, semaphores, main, moverVars, exec, turn, pc, alive, exitFlag,
                 submitted, ran>>

\* ... or it returns -1, which aborts the process.
AbortQuery(i) ==
  /\ Up /\ cpu[i] = "query"
  /\ pc' = [pc EXCEPT ![exec[i]] = Length[exec[i]]]
  /\ failed' = failed \cup {exec[i]}
  /\ CpuGoto(i, "finish")
  /\ UNCHANGED <<queues, semaphores, main, moverVars, exec, turn, alive, exitFlag,
                 submitted, ran>>

\* The for loop is over: by its bound or by the length of the script.
EndTurn(i) ==
  /\ Up /\ cpu[i] = "run"
  /\ turn[i] >= Quantum \/ Finished(exec[i])
  /\ CpuGoto(i, IF Finished(exec[i]) THEN "finish" ELSE "push")
  /\ UNCHANGED <<queues, semaphores, main, moverVars, exec, turn, pc, alive, exitFlag, history>>

Destroy(i) ==
  /\ Up /\ cpu[i] = "finish"
  /\ alive' = alive \ {exec[i]}
  /\ exec' = [exec EXCEPT ![i] = None]
  /\ CpuGoto(i, "release")
  /\ UNCHANGED <<queues, semaphores, main, moverVars, turn, pc, exitFlag, history>>

\* Mutant: MAX_PROC_READY is not posted.
PostMaxReadyForgotten(i) ==
  /\ Up /\ cpu[i] = "release"
  /\ CpuGoto(i, "loop")
  /\ UNCHANGED <<queues, semaphores, main, moverVars, exec, turn, pc, alive, exitFlag, history>>

PostMaxReady(i) ==
  /\ Up /\ cpu[i] = "release"
  /\ maxReady' = maxReady + 1
  /\ CpuGoto(i, "loop")
  /\ UNCHANGED <<queues, pendNew, pendReady, main, moverVars, exec, turn, pc, alive, exitFlag,
                 history>>

\* add_process_to_ready.
CpuPush(i) ==
  /\ Up /\ ~Killed /\ cpu[i] = "push"
  /\ ready' = Append(ready, exec[i])
  /\ exec' = [exec EXCEPT ![i] = None]
  /\ CpuGoto(i, "post")
  /\ UNCHANGED <<new, semaphores, main, moverVars, turn, pc, alive, exitFlag, history>>

\* Mutant: a processor posts MAX_PROC_READY at the end of every turn.
PostPendReadyAndMax(i) ==
  /\ Up /\ cpu[i] = "post"
  /\ pendReady' = pendReady + 1
  /\ maxReady' = maxReady + 1
  /\ CpuGoto(i, "loop")
  /\ UNCHANGED <<queues, pendNew, main, moverVars, exec, turn, pc, alive, exitFlag, history>>

PostPendReady(i) ==
  /\ Up /\ cpu[i] = "post"
  /\ pendReady' = pendReady + 1
  /\ CpuGoto(i, "loop")
  /\ UNCHANGED <<queues, maxReady, pendNew, main, moverVars, exec, turn, pc, alive, exitFlag,
                 history>>

Cpu(i) == \/ CpuLoop(i) \/ WaitPendReady(i) \/ PopReady(i) \/ NextQuery(i) \/ EndQuery(i)
          \/ AbortQuery(i) \/ EndTurn(i) \/ Destroy(i) \/ PostMaxReady(i) \/ CpuPush(i) \/ PostPendReady(i)

-----------------------------------------------------------------------------
Init ==
  /\ new = <<>> /\ ready = <<>>
  /\ maxReady = MP /\ pendNew = 0 /\ pendReady = 0
  /\ main = "console"
  /\ mover = "loop" /\ moving = None
  /\ cpu = [i \in Processors |-> "loop"]
  /\ exec = [i \in Processors |-> None]
  /\ turn = [i \in Processors |-> 0]
  /\ pc = [p \in Procs |-> 0]
  /\ alive = {}
  /\ exitFlag = FALSE
  /\ submitted = {}
  /\ ran = [p \in Procs |-> <<>>]
  /\ failed = {}

Main == (\E p \in Procs : Submit(p)) \/ PostPendNew \/ Exit \/ Kill \/ Leave

Next == Main \/ UseDestroyedQueue \/ Mover \/ \E i \in Processors : Cpu(i)

Spec == Init /\ [][Next]_vars

\* The threads run; a query returns.  Nothing makes the console type.
FairSpec == /\ Spec
            /\ WF_vars(PostPendNew)
            /\ WF_vars(Mover)
            /\ \A i \in Processors : WF_vars(Cpu(i))

-----------------------------------------------------------------------------
TypeOK ==
  /\ new \in Seq(Procs) /\ ready \in Seq(Procs)
  /\ maxReady \in Nat /\ pendNew \in Nat /\ pendReady \in Nat
  /\ main \in {"console", "post", "joining", "killed", "gone"}
  /\ mover \in {"loop", "max", "pend", "pop", "push", "post", "log", "end"}
  /\ moving \in Procs \cup {None}
  /\ cpu \in [Processors -> {"loop", "wait", "pop", "run", "query", "finish",
                             "release", "push", "post", "end"}]
  /\ exec \in [Processors -> Procs \cup {None}]
  /\ turn \in [Processors -> 0 .. Quantum]
  /\ pc \in [Procs -> Nat] /\ \A p \in Procs : pc[p] <= Length[p]
  /\ alive \subseteq submitted /\ failed \subseteq submitted
  /\ submitted \subseteq Procs
  /\ exitFlag \in BOOLEAN
  /\ ran \in [Procs -> Seq(Nat)]

CpusAt(ls) == {i \in Processors : cpu[i] \in ls}
One(b) == IF b THEN 1 ELSE 0

\* The permits of MAX_PROC_READY, through waits and posts of several threads:
\* each of the MP is either free, or with new_to_ready, or a process in READY
\* or on a processor has it, until it is posted back.  So no more than MP
\* processes are ever admitted, and no permit is lost.
MultiprogrammingBound ==
  main \notin {"killed", "gone"} =>
    maxReady + One(mover \in {"pend", "pop", "push"}) + Len(ready)
      + Cardinality(CpusAt({"run", "query", "finish", "release", "push"})) = MP

\* The tokens of PROC_PEND_NEW and PROC_PEND_READY follow the queues: who has
\* got past the semaphore finds a process, and a process in a queue has a token
\* or one that is about to be posted.
TokensMatchQueues ==
  main \notin {"killed", "gone"} =>
    /\ pendNew + One(mover = "pop") + One(main = "post") = Len(new)
    /\ pendReady + Cardinality(CpusAt({"pop"})) + One(mover = "post")
         + Cardinality(CpusAt({"post"})) = Len(ready)

OnCpu == {exec[i] : i \in Processors} \ {None}
InMover == IF mover = "push" THEN {moving} ELSE {}

\* A process that was created and not destroyed is in NEW, or in the hands of
\* new_to_ready, or in READY, or on a processor: in one of them, once.
EveryProcessIsInOnePlace ==
  /\ alive = Range(new) \cup InMover \cup Range(ready) \cup OnCpu
  /\ IsInjective(new) /\ IsInjective(ready)
  /\ \A i, j \in Processors : exec[i] = exec[j] /\ exec[i] # None => i = j
  /\ Range(new) \cap (InMover \cup Range(ready) \cup OnCpu) = {}
  /\ InMover \cap (Range(ready) \cup OnCpu) = {}
  /\ Range(ready) \cap OnCpu = {}

S == INSTANCE Scripts WITH ended <- submitted \ alive, down <- exitFlag

\* Whatever the processors and the quantum do to a script, its queries are
\* executed in order and once each, and it ends after the last one or at the
\* first that fails; only the shutdown gives scripts up.
ImplementsScripts == S!Spec

\* Every process that is submitted ends, unless the Kernel is told to exit.
EveryProcessEnds ==
  \A p \in Procs : p \in submitted ~> (p \notin alive \/ exitFlag)
=============================================================================
