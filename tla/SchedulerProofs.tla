-------------------------- MODULE SchedulerProofs ---------------------------
(***************************************************************************)
(* Proofs about the scheduler, for every set of processes, every degree of *)
(* multiprogramming and every quantum.                                     *)
(***************************************************************************)
EXTENDS Scheduler, FiniteSetTheorems, TLAPS

Holding == {"run", "query", "finish", "push"}

\* A thread holds a process exactly where its code says so.
HoldInv ==
  /\ \A i \in Processors : exec[i] # None <=> cpu[i] \in Holding
  /\ mover \in {"push", "post", "log"} <=> moving # None
  /\ \A i \in Processors : cpu[i] = "query" => turn[i] < Quantum
  /\ main \in {"killed", "gone"} => new = <<>> /\ ready = <<>>
  /\ main \notin {"console", "post"} => exitFlag

Waiting == Range(new) \cup InMover \cup Range(ready)

Fresh(p) == p \notin failed /\ pc[p] = Len(ran[p])

\* How far a process has got, by the place it is in.
ProgressInv ==
  /\ \A p \in Procs \ submitted : Fresh(p)
  /\ \A p \in Waiting : Fresh(p)
  /\ \A i \in Processors :
       /\ cpu[i] \in {"run", "push"} => Fresh(exec[i])
       /\ cpu[i] = "query" => exec[i] \notin failed /\ pc[exec[i]] = Len(ran[exec[i]]) + 1
       /\ cpu[i] = "finish" => \/ exec[i] \in failed
                                 \/ /\ Fresh(exec[i])
                                    /\ pc[exec[i]] = Length[exec[i]]

PlaceInv == EveryProcessIsInOnePlace

IInv == /\ TypeOK
        /\ HoldInv
        /\ PlaceInv
        /\ ProgressInv
        /\ MultiprogrammingBound
        /\ TokensMatchQueues

-----------------------------------------------------------------------------
(* Sequences without repeats, and counting.                                *)

\* Adding an element to a queue, and what the queue has then.
LEMMA RangeAppend ==
  ASSUME NEW T, NEW s \in Seq(T), NEW e \in T
  PROVE  /\ Append(s, e) \in Seq(T)
         /\ Range(Append(s, e)) = Range(s) \cup {e}
         /\ IsInjective(s) /\ e \notin Range(s) => IsInjective(Append(s, e))
<1>1. DOMAIN s = 1 .. Len(s) /\ Len(s) \in Nat OBVIOUS
<1>2. DOMAIN Append(s, e) = 1 .. Len(s) + 1 OBVIOUS
<1>3. \A n \in 1 .. Len(s) : Append(s, e)[n] = s[n] OBVIOUS
<1>4. Append(s, e)[Len(s) + 1] = e OBVIOUS
<1>5. 1 .. Len(s) + 1 = (1 .. Len(s)) \cup {Len(s) + 1} BY <1>1
<1>6. Range(Append(s, e)) = Range(s) \cup {e}
  BY <1>1, <1>2, <1>3, <1>4, <1>5 DEF Range
<1>7. IsInjective(s) /\ e \notin Range(s) => IsInjective(Append(s, e))
  BY <1>1, <1>2, <1>3, <1>4, <1>5 DEF Range, IsInjective
<1> QED BY <1>6, <1>7

\* Taking the first element of a queue without repeats.
LEMMA RangeTail ==
  ASSUME NEW T, NEW s \in Seq(T), s # <<>>, IsInjective(s)
  PROVE  /\ Tail(s) \in Seq(T)
         /\ Head(s) \in T /\ Head(s) \in Range(s)
         /\ Range(Tail(s)) = Range(s) \ {Head(s)}
         /\ IsInjective(Tail(s))
<1>1. DOMAIN s = 1 .. Len(s) /\ Len(s) \in Nat \ {0} OBVIOUS
<1>2. DOMAIN Tail(s) = 1 .. Len(s) - 1 /\ Tail(s) \in Seq(T) OBVIOUS
<1>3. \A n \in 1 .. Len(s) - 1 : Tail(s)[n] = s[n + 1] OBVIOUS
<1>4. Head(s) = s[1] OBVIOUS
<1>5. Head(s) \in T /\ Head(s) \in Range(s) BY <1>1, <1>4 DEF Range
<1>6. Range(Tail(s)) \subseteq Range(s) \ {Head(s)}
  <2> SUFFICES ASSUME NEW n \in 1 .. Len(s) - 1
               PROVE  s[n + 1] \in Range(s) \ {Head(s)}
    BY <1>2, <1>3 DEF Range
  <2>1. n + 1 \in DOMAIN s /\ 1 \in DOMAIN s /\ n + 1 # 1 BY <1>1
  <2> QED BY <2>1, <1>4 DEF Range, IsInjective
<1>7. Range(s) \ {Head(s)} \subseteq Range(Tail(s))
  <2> SUFFICES ASSUME NEW n \in 1 .. Len(s), s[n] # Head(s)
               PROVE  s[n] \in Range(Tail(s))
    BY <1>1 DEF Range
  <2>1. n - 1 \in 1 .. Len(s) - 1 /\ (n - 1) + 1 = n BY <1>1, <1>4
  <2>2. Tail(s)[n - 1] = s[n] BY <2>1, <1>3
  <2> QED BY <2>1, <2>2, <1>2 DEF Range
<1>8. IsInjective(Tail(s))
  <2> SUFFICES ASSUME NEW a \in 1 .. Len(s) - 1, NEW b \in 1 .. Len(s) - 1, s[a + 1] = s[b + 1]
               PROVE  a = b
    BY <1>2, <1>3 DEF IsInjective
  <2>1. a + 1 \in DOMAIN s /\ b + 1 \in DOMAIN s BY <1>1
  <2>2. a + 1 = b + 1 BY <2>1 DEF IsInjective
  <2> QED BY <2>2
<1> QED BY <1>2, <1>5, <1>6, <1>7, <1>8

LEMMA Lengths ==
  ASSUME NEW T, NEW s \in Seq(T)
  PROVE  /\ Len(s) \in Nat
         /\ \A e \in T : Len(Append(s, e)) = Len(s) + 1
         /\ s # <<>> => Len(Tail(s)) = Len(s) - 1
OBVIOUS

\* The processors are finitely many, so those at some points can be counted.
LEMMA CpusFinite ==
  ASSUME NEW ls
  PROVE  IsFiniteSet(CpusAt(ls)) /\ Cardinality(CpusAt(ls)) \in Nat
<1>1. IsFiniteSet(Processors) BY DegreeAssumption, FS_Interval DEF Processors
<1>2. CpusAt(ls) \in SUBSET Processors BY DEF CpusAt
<1>3. IsFiniteSet(CpusAt(ls)) BY <1>1, <1>2, FS_Subset
<1> QED BY <1>3, FS_CardinalityType

\* A processor that moves changes the count by one, or not.
LEMMA CpuMoves ==
  ASSUME TypeOK, NEW i \in Processors, NEW l, CpuGoto(i, l), NEW ls
  PROVE  Cardinality(CpusAt(ls))' =
           Cardinality(CpusAt(ls)) - One(cpu[i] \in ls) + One(l \in ls)
<1> DEFINE A == CpusAt(ls)
<1>1. cpu' = [cpu EXCEPT ![i] = l] /\ cpu'[i] = l
  BY DEF CpuGoto, TypeOK
<1>2. \A j \in Processors \ {i} : cpu'[j] = cpu[j] BY <1>1 DEF TypeOK
<1>3. IsFiniteSet(A) /\ Cardinality(A) \in Nat BY CpusFinite
<1>4. i \in A <=> cpu[i] \in ls BY DEF CpusAt
<1>5. CASE l \in ls
  <2>1. A' = A \cup {i} BY <1>1, <1>2, <1>5 DEF CpusAt
  <2>2. Cardinality(A') = IF i \in A THEN Cardinality(A) ELSE Cardinality(A) + 1
    BY <2>1, <1>3, FS_AddElement
  <2> QED BY <2>2, <1>3, <1>4, <1>5 DEF One
<1>6. CASE l \notin ls
  <2>1. A' = A \ {i} BY <1>1, <1>2, <1>6 DEF CpusAt
  <2>2. Cardinality(A') = IF i \in A THEN Cardinality(A) - 1 ELSE Cardinality(A)
    BY <2>1, <1>3, FS_RemoveElement
  <2> QED BY <2>2, <1>3, <1>4, <1>6 DEF One
<1> QED BY <1>5, <1>6

LEMMA CpusStay == ASSUME NEW ls, UNCHANGED cpu
                  PROVE  Cardinality(CpusAt(ls))' = Cardinality(CpusAt(ls))
<1>1. CpusAt(ls)' = CpusAt(ls) BY DEF CpusAt
<1> QED BY <1>1

-----------------------------------------------------------------------------
(* The steps preserve the invariant, a part at a time.                     *)

LEMMA TypeStart == Init => TypeOK
<1> SUFFICES ASSUME Init PROVE TypeOK OBVIOUS
<1> USE DEF Init, TypeOK
<1>1. \A T : <<>> \in Seq(T) OBVIOUS
<1>2. new \in Seq(Procs) /\ ready \in Seq(Procs) /\ ran \in [Procs -> Seq(Nat)] BY <1>1
<1>3. pc \in [Procs -> Nat] /\ \A p \in Procs : pc[p] <= Length[p] BY ProcsAssumption
<1>4. turn \in [Processors -> 0 .. Quantum] /\ maxReady \in Nat
  BY DegreeAssumption, QuantumAssumption
<1> QED BY <1>2, <1>3, <1>4

LEMMA TypeStep == IInv /\ [Next]_vars => TypeOK'
<1> SUFFICES ASSUME IInv, [Next]_vars PROVE TypeOK'
  OBVIOUS
<1> USE DEF TypeOK, queues, semaphores, moverVars, cpuVars, history
<1>0. TypeOK /\ HoldInv /\ PlaceInv BY DEF IInv
<1>a. \A s \in Seq(Procs) : s # <<>> => Head(s) \in Procs /\ Tail(s) \in Seq(Procs)
  OBVIOUS
<1>b. \A s \in Seq(Procs) : \A p \in Procs : Append(s, p) \in Seq(Procs)
  OBVIOUS
<1>c. \A i \in Processors : cpu[i] \in Holding => exec[i] \in Procs /\ exec[i] \in submitted
  BY <1>0, ProcsAssumption DEF HoldInv, PlaceInv, EveryProcessIsInOnePlace, OnCpu
<1>1. ASSUME NEW p \in Procs, Submit(p) PROVE TypeOK'
  BY <1>0, <1>1, <1>b DEF Submit
<1>2. CASE PostPendNew BY <1>0, <1>2 DEF PostPendNew
<1>3. CASE Exit BY <1>0, <1>3 DEF Exit
<1>4. CASE Kill
  <2>1. <<>> \in Seq(Procs) OBVIOUS
  <2> QED BY <1>0, <1>4, <2>1 DEF Kill
<1>5. CASE Leave BY <1>0, <1>5 DEF Leave
<1>6. CASE UseDestroyedQueue BY <1>0, <1>6 DEF UseDestroyedQueue
<1>7. CASE Mover
  <2>1. CASE MoverLoop BY <1>0, <2>1 DEF MoverLoop, MoverGoto
  <2>2. CASE WaitMaxReady BY <1>0, <2>2 DEF WaitMaxReady, MoverGoto
  <2>3. CASE WaitPendNew BY <1>0, <2>3 DEF WaitPendNew, MoverGoto
  <2>4. CASE PopNew BY <1>0, <2>4, <1>a DEF PopNew, MoverGoto
  <2>5. CASE MoverPush
    <3>1. moving \in Procs BY <1>0, <2>5, ProcsAssumption DEF MoverPush, HoldInv
    <3> QED BY <1>0, <2>5, <3>1, <1>b DEF MoverPush, MoverGoto
  <2>6. CASE MoverPost BY <1>0, <2>6 DEF MoverPost, MoverGoto
  <2>7. CASE MoverLog BY <1>0, <2>7 DEF MoverLog, MoverGoto
  <2> QED BY <1>7, <2>1, <2>2, <2>3, <2>4, <2>5, <2>6, <2>7 DEF Mover
<1>8. ASSUME NEW i \in Processors, Cpu(i) PROVE TypeOK'
  <2>1. CASE CpuLoop(i) BY <1>0, <2>1 DEF CpuLoop, CpuGoto
  <2>2. CASE WaitPendReady(i) BY <1>0, <2>2 DEF WaitPendReady, CpuGoto
  <2>3. CASE PopReady(i) BY SMTT(30), <1>0, <2>3, <1>a, QuantumAssumption DEF PopReady, CpuGoto
  <2>4. CASE NextQuery(i)
    <3>1. exec[i] \in Procs /\ exec[i] \in submitted BY <1>c, <2>4 DEF NextQuery, Holding
    <3>2. pc[exec[i]] + 1 \in Nat /\ pc[exec[i]] + 1 <= Length[exec[i]] /\ Length[exec[i]] \in Nat
      BY <1>0, <2>4, <3>1, ProcsAssumption DEF NextQuery, Finished
    <3>3. PICK n \in Nat : n <= Length[exec[i]] /\ pc' = [pc EXCEPT ![exec[i]] = n]
      <4>1. Length[exec[i]] <= Length[exec[i]] BY <3>2
      <4> QED BY <2>4, <3>2, <4>1 DEF NextQuery
    <3>4. pc' \in [Procs -> Nat] /\ \A p \in Procs : pc'[p] <= Length[p]
      BY <1>0, <3>1, <3>3
    <3>5. failed' \subseteq submitted BY <1>0, <2>4, <3>1 DEF NextQuery
    <3> QED BY <1>0, <2>4, <3>5, <3>4 DEF NextQuery, CpuGoto
  <2>5. CASE EndQuery(i)
    <3>1. exec[i] \in Procs BY <1>c, <2>5 DEF EndQuery, Holding
    <3>2. turn[i] + 1 \in 0 .. Quantum BY <1>0, <2>5, QuantumAssumption DEF EndQuery, HoldInv
    <3>3. Append(ran[exec[i]], pc[exec[i]]) \in Seq(Nat) BY <1>0, <3>1
    <3> QED BY <1>0, <2>5, <3>1, <3>2, <3>3 DEF EndQuery, CpuGoto
  <2>6. CASE AbortQuery(i)
    <3>1. exec[i] \in Procs /\ exec[i] \in submitted BY <1>c, <2>6 DEF AbortQuery, Holding
    <3>2. Length[exec[i]] \in Nat BY <3>1, ProcsAssumption
    <3> QED BY <1>0, <2>6, <3>1, <3>2 DEF AbortQuery, CpuGoto
  <2>7. CASE EndTurn(i) BY <1>0, <2>7 DEF EndTurn, CpuGoto
  <2>8. CASE Destroy(i) BY <1>0, <2>8 DEF Destroy, CpuGoto
  <2>9. CASE PostMaxReady(i) BY <1>0, <2>9 DEF PostMaxReady, CpuGoto
  <2>10. CASE CpuPush(i)
    <3>1. exec[i] \in Procs BY <1>c, <2>10 DEF CpuPush, Holding
    <3> QED BY <1>0, <2>10, <3>1, <1>b DEF CpuPush, CpuGoto
  <2>11. CASE PostPendReady(i) BY <1>0, <2>11 DEF PostPendReady, CpuGoto
  <2> QED BY <1>8, <2>1, <2>2, <2>3, <2>4, <2>5, <2>6, <2>7, <2>8, <2>9, <2>10, <2>11 DEF Cpu
<1>9. CASE UNCHANGED vars BY <1>0, <1>9 DEF vars
<1> QED BY <1>1, <1>2, <1>3, <1>4, <1>5, <1>6, <1>7, <1>8, <1>9 DEF Next, Main

LEMMA HoldStart == Init => HoldInv
BY DEF Init, HoldInv, Holding

LEMMA HoldStep == IInv /\ [Next]_vars => HoldInv'
<1> SUFFICES ASSUME IInv, [Next]_vars PROVE HoldInv'
  OBVIOUS
<1> USE DEF HoldInv, Holding, queues, semaphores, moverVars, cpuVars, history, Up, Killed
<1>0. TypeOK /\ HoldInv BY DEF IInv
<1>a. \A s \in Seq(Procs) : s # <<>> => Head(s) # None
  <2>1. \A s \in Seq(Procs) : s # <<>> => Head(s) \in Procs OBVIOUS
  <2> QED BY <2>1, ProcsAssumption
<1>1. ASSUME NEW p \in Procs, Submit(p) PROVE HoldInv' BY <1>0, <1>1 DEF Submit
<1>2. CASE PostPendNew BY <1>0, <1>2 DEF PostPendNew
<1>3. CASE Exit BY <1>0, <1>3 DEF Exit
<1>4. CASE Kill BY <1>0, <1>4 DEF Kill
<1>5. CASE Leave BY <1>0, <1>5 DEF Leave
<1>6. CASE UseDestroyedQueue BY <1>0, <1>6 DEF UseDestroyedQueue
<1>7. CASE Mover
  <2>1. CASE MoverLoop BY <1>0, <2>1 DEF MoverLoop, MoverGoto
  <2>2. CASE WaitMaxReady BY <1>0, <2>2 DEF WaitMaxReady, MoverGoto
  <2>3. CASE WaitPendNew BY <1>0, <2>3 DEF WaitPendNew, MoverGoto
  <2>4. CASE PopNew
    <3>1. moving' # None BY <1>0, <1>a, <2>4 DEF PopNew, TypeOK
    <3> QED BY <1>0, <2>4, <3>1 DEF PopNew, MoverGoto
  <2>5. CASE MoverPush BY <1>0, <2>5 DEF MoverPush, MoverGoto
  <2>6. CASE MoverPost BY <1>0, <2>6 DEF MoverPost, MoverGoto
  <2>7. CASE MoverLog BY <1>0, <2>7 DEF MoverLog, MoverGoto
  <2> QED BY <1>7, <2>1, <2>2, <2>3, <2>4, <2>5, <2>6, <2>7 DEF Mover
<1>8. ASSUME NEW i \in Processors, Cpu(i) PROVE HoldInv'
  <2> USE DEF TypeOK, CpuGoto
  <2>1. CASE CpuLoop(i) BY <1>0, <2>1 DEF CpuLoop
  <2>2. CASE WaitPendReady(i) BY <1>0, <2>2 DEF WaitPendReady
  <2>3. CASE PopReady(i)
    <3>1. exec'[i] # None BY <1>0, <1>a, <2>3 DEF PopReady
    <3> QED BY <1>0, <2>3, <3>1 DEF PopReady
  <2>4. CASE NextQuery(i) BY <1>0, <2>4 DEF NextQuery
  <2>5. CASE EndQuery(i) BY <1>0, <2>5 DEF EndQuery
  <2>6. CASE AbortQuery(i) BY <1>0, <2>6 DEF AbortQuery
  <2>7. CASE EndTurn(i) BY <1>0, <2>7 DEF EndTurn
  <2>8. CASE Destroy(i) BY <1>0, <2>8 DEF Destroy
  <2>9. CASE PostMaxReady(i) BY <1>0, <2>9 DEF PostMaxReady
  <2>10. CASE CpuPush(i) BY <1>0, <2>10 DEF CpuPush
  <2>11. CASE PostPendReady(i) BY <1>0, <2>11 DEF PostPendReady
  <2> QED BY <1>8, <2>1, <2>2, <2>3, <2>4, <2>5, <2>6, <2>7, <2>8, <2>9, <2>10, <2>11 DEF Cpu
<1>9. CASE UNCHANGED vars BY <1>0, <1>9 DEF vars
<1> QED BY <1>1, <1>2, <1>3, <1>4, <1>5, <1>6, <1>7, <1>8, <1>9 DEF Next, Main

LEMMA BoundStart == Init => MultiprogrammingBound
<1> SUFFICES ASSUME Init PROVE MultiprogrammingBound OBVIOUS
<1>1. CpusAt({"run", "query", "finish", "release", "push"}) = {} BY DEF Init, CpusAt
<1>2. Cardinality(CpusAt({"run", "query", "finish", "release", "push"})) = 0
  BY <1>1, FS_EmptySet
<1> QED BY <1>2, DegreeAssumption DEF Init, MultiprogrammingBound, One

LEMMA BoundStep == IInv /\ [Next]_vars => MultiprogrammingBound'
<1> SUFFICES ASSUME IInv, [Next]_vars PROVE MultiprogrammingBound'
  OBVIOUS
<1> DEFINE Used == {"run", "query", "finish", "release", "push"}
           N == Cardinality(CpusAt(Used))
           M == One(mover \in {"pend", "pop", "push"})
<1> HIDE DEF Used, N, M
<1>0. TypeOK /\ HoldInv BY DEF IInv
<1>m. main \notin {"killed", "gone"} => maxReady + M + Len(ready) + N = MP
  BY DEF IInv, MultiprogrammingBound, N, M, Used
<1>g. MultiprogrammingBound' <=>
        (main' \notin {"killed", "gone"} => maxReady' + M' + Len(ready') + N' = MP)
  BY DEF MultiprogrammingBound, N, M, Used
<1>t. maxReady \in Nat /\ Len(ready) \in Nat /\ N \in Nat /\ M \in {0, 1} /\ MP \in Nat
  BY <1>0, CpusFinite, Lengths, DegreeAssumption DEF TypeOK, N, M, One
<1>s. UNCHANGED cpu => N' = N BY CpusStay DEF N, Used
<1>c. ASSUME NEW i \in Processors, NEW l, CpuGoto(i, l)
      PROVE  N' = N - One(cpu[i] \in Used) + One(l \in Used)
  BY <1>0, <1>c, CpuMoves DEF N, Used
<1>1. ASSUME NEW p \in Procs, Submit(p) PROVE MultiprogrammingBound'
  BY <1>1, <1>m, <1>g, <1>s DEF Submit, M, semaphores, moverVars, cpuVars
<1>2. CASE PostPendNew
  BY <1>2, <1>m, <1>g, <1>s DEF PostPendNew, M, queues, moverVars, cpuVars
<1>3. CASE Exit
  BY <1>3, <1>m, <1>g, <1>s DEF Exit, M, queues, semaphores, moverVars, cpuVars
<1>4. CASE Kill \/ Leave \/ UseDestroyedQueue
  BY <1>4, <1>g DEF Kill, Leave, UseDestroyedQueue
<1>7. CASE Mover
  <2> USE <1>m, <1>g, <1>s, <1>t DEF M, One, MoverGoto, queues, semaphores, cpuVars
  <2>1. CASE MoverLoop BY <2>1 DEF MoverLoop
  <2>2. CASE WaitMaxReady BY <2>2 DEF WaitMaxReady
  <2>3. CASE WaitPendNew BY <2>3 DEF WaitPendNew
  <2>4. CASE PopNew BY <2>4 DEF PopNew
  <2>5. CASE MoverPush
    <3>1. moving \in Procs
      BY <1>0, <2>5, ProcsAssumption DEF MoverPush, HoldInv, TypeOK
    <3>2. Len(ready') = Len(ready) + 1 BY <1>0, <2>5, <3>1, Lengths DEF MoverPush, TypeOK
    <3> QED BY <2>5, <3>2 DEF MoverPush
  <2>6. CASE MoverPost BY <2>6 DEF MoverPost
  <2>7. CASE MoverLog BY <2>7 DEF MoverLog
  <2> QED BY <1>7, <2>1, <2>2, <2>3, <2>4, <2>5, <2>6, <2>7 DEF Mover
\* A processor that keeps its permit, or its lack of one.
<1>q. ASSUME NEW i \in Processors, NEW l, CpuGoto(i, l), cpu[i] \in Used <=> l \in Used,
             UNCHANGED <<ready, maxReady, mover, main>>
      PROVE  MultiprogrammingBound'
  <2>1. N' = N BY <1>c, <1>q, <1>t DEF One
  <2> QED BY <1>q, <2>1, <1>m, <1>g DEF M
<1>8. ASSUME NEW i \in Processors, Cpu(i) PROVE MultiprogrammingBound'
  <2> USE DEF Used, queues, semaphores, moverVars
  <2>1. CASE CpuLoop(i) BY <1>q, <2>1 DEF CpuLoop
  <2>2. CASE WaitPendReady(i) BY <1>q, <2>2 DEF WaitPendReady
  <2>3. CASE PopReady(i)
    <3>1. Len(ready') = Len(ready) - 1 BY <1>0, <2>3, Lengths DEF PopReady, TypeOK
    <3>2. CpuGoto(i, "run") /\ cpu[i] = "pop" /\ UNCHANGED <<maxReady, mover, main>>
      BY <2>3 DEF PopReady
    <3>3. N' = N + 1 BY <1>c, <1>t, <3>2 DEF One
    <3> QED BY SMTT(30), <1>m, <1>g, <1>t, <3>1, <3>2, <3>3 DEF M
  <2>4. CASE NextQuery(i)
    <3>1. PICK l \in {"query", "finish"} : CpuGoto(i, l) BY <2>4 DEF NextQuery
    <3>2. cpu[i] = "run" /\ UNCHANGED <<ready, maxReady, mover, main>> BY <2>4 DEF NextQuery
    <3> QED BY <1>q, <3>1, <3>2
  <2>5. CASE EndQuery(i) BY <1>q, <2>5 DEF EndQuery
  <2>6. CASE AbortQuery(i) BY <1>q, <2>6 DEF AbortQuery
  <2>7. CASE EndTurn(i) BY <1>q, <2>7 DEF EndTurn
  <2>8. CASE Destroy(i) BY <1>q, <2>8 DEF Destroy
  <2>9. CASE PostMaxReady(i)
    <3>1. /\ CpuGoto(i, "loop") /\ cpu[i] = "release" /\ maxReady' = maxReady + 1
          /\ UNCHANGED <<ready, mover, main>>
      BY <2>9 DEF PostMaxReady
    <3>2. N' = N - 1 BY <1>c, <1>t, <3>1 DEF One
    <3> QED BY <1>m, <1>g, <1>t, <3>1, <3>2 DEF M
  <2>10. CASE CpuPush(i)
    <3>1. exec[i] \in Procs
      BY <1>0, <2>10, ProcsAssumption DEF CpuPush, HoldInv, Holding, TypeOK
    <3>2. Len(ready') = Len(ready) + 1 BY <1>0, <2>10, <3>1, Lengths DEF CpuPush, TypeOK
    <3>3. CpuGoto(i, "post") /\ cpu[i] = "push" /\ UNCHANGED <<maxReady, mover, main>>
      BY <2>10 DEF CpuPush
    <3>4. N' = N - 1 BY <1>c, <1>t, <3>3 DEF One
    <3> QED BY <1>m, <1>g, <1>t, <3>2, <3>3, <3>4 DEF M
  <2>11. CASE PostPendReady(i) BY <1>q, <2>11 DEF PostPendReady
  <2> QED BY <1>8, <2>1, <2>2, <2>3, <2>4, <2>5, <2>6, <2>7, <2>8, <2>9, <2>10, <2>11 DEF Cpu
<1>9. CASE UNCHANGED vars
  BY <1>9, <1>m, <1>g, <1>s DEF vars, M, queues, semaphores, moverVars, cpuVars
<1> QED BY <1>1, <1>2, <1>3, <1>4, <1>7, <1>8, <1>9 DEF Next, Main

LEMMA TokensStart == Init => TokensMatchQueues
<1> SUFFICES ASSUME Init PROVE TokensMatchQueues OBVIOUS
<1>1. CpusAt({"pop"}) = {} /\ CpusAt({"post"}) = {} BY DEF Init, CpusAt
<1>2. Cardinality(CpusAt({"pop"})) = 0 /\ Cardinality(CpusAt({"post"})) = 0
  BY <1>1, FS_EmptySet
<1> QED BY <1>2 DEF Init, TokensMatchQueues, One

LEMMA TokensStep == IInv /\ [Next]_vars => TokensMatchQueues'
<1> SUFFICES ASSUME IInv, [Next]_vars PROVE TokensMatchQueues'
  OBVIOUS
<1> DEFINE AtPop == Cardinality(CpusAt({"pop"}))
           AtPost == Cardinality(CpusAt({"post"}))
<1> HIDE DEF AtPop, AtPost
<1>0. TypeOK /\ HoldInv BY DEF IInv
<1>m. main \notin {"killed", "gone"} =>
        /\ pendNew + One(mover = "pop") + One(main = "post") = Len(new)
        /\ pendReady + AtPop + One(mover = "post") + AtPost = Len(ready)
  BY DEF IInv, TokensMatchQueues, AtPop, AtPost
<1>g. TokensMatchQueues' <=>
        (main' \notin {"killed", "gone"} =>
          /\ pendNew' + One(mover' = "pop") + One(main' = "post") = Len(new')
          /\ pendReady' + AtPop' + One(mover' = "post") + AtPost' = Len(ready'))
  BY DEF TokensMatchQueues, AtPop, AtPost
<1>t. /\ pendNew \in Nat /\ pendReady \in Nat /\ AtPop \in Nat /\ AtPost \in Nat
      /\ Len(new) \in Nat /\ Len(ready) \in Nat
  BY <1>0, CpusFinite, Lengths DEF TypeOK, AtPop, AtPost
<1>s. UNCHANGED cpu => AtPop' = AtPop /\ AtPost' = AtPost BY CpusStay DEF AtPop, AtPost
<1>c. ASSUME NEW i \in Processors, NEW l, CpuGoto(i, l)
      PROVE  /\ AtPop' = AtPop - One(cpu[i] = "pop") + One(l = "pop")
             /\ AtPost' = AtPost - One(cpu[i] = "post") + One(l = "post")
  <2>1. \A x, y : x \in {y} <=> x = y OBVIOUS
  <2> QED BY <1>0, <1>c, <2>1, CpuMoves DEF AtPop, AtPost
<1>1. ASSUME NEW p \in Procs, Submit(p) PROVE TokensMatchQueues'
  <2>1. Len(new') = Len(new) + 1 BY <1>0, <1>1, Lengths DEF Submit, TypeOK
  <2> QED BY <1>1, <2>1, <1>m, <1>g, <1>s, <1>t DEF Submit, One, semaphores, moverVars, cpuVars
<1>2. CASE PostPendNew
  BY <1>2, <1>m, <1>g, <1>s, <1>t DEF PostPendNew, One, queues, moverVars, cpuVars
<1>3. CASE Exit
  BY <1>3, <1>m, <1>g, <1>s, <1>t DEF Exit, One, queues, semaphores, moverVars, cpuVars
<1>4. CASE Kill \/ Leave \/ UseDestroyedQueue
  BY <1>4, <1>g DEF Kill, Leave, UseDestroyedQueue
<1>7. CASE Mover
  <2> USE <1>m, <1>g, <1>s, <1>t DEF One, MoverGoto, queues, semaphores, cpuVars
  <2>1. CASE MoverLoop BY <2>1 DEF MoverLoop
  <2>2. CASE WaitMaxReady BY <2>2 DEF WaitMaxReady
  <2>3. CASE WaitPendNew BY <2>3 DEF WaitPendNew
  <2>4. CASE PopNew
    <3>1. Len(new') = Len(new) - 1 BY <1>0, <2>4, Lengths DEF PopNew, TypeOK
    <3>2. UNCHANGED <<AtPop, AtPost, ready, pendNew, pendReady, main>> /\ mover = "pop" /\ mover' = "push"
      BY <2>4 DEF PopNew
    <3> QED BY <3>1, <3>2
  <2>5. CASE MoverPush
    <3>1. moving \in Procs
      BY <1>0, <2>5, ProcsAssumption DEF MoverPush, HoldInv, TypeOK
    <3>2. Len(ready') = Len(ready) + 1 BY <1>0, <2>5, <3>1, Lengths DEF MoverPush, TypeOK
    <3> QED BY <2>5, <3>2 DEF MoverPush
  <2>6. CASE MoverPost BY <2>6 DEF MoverPost
  <2>7. CASE MoverLog BY <2>7 DEF MoverLog
  <2> QED BY <1>7, <2>1, <2>2, <2>3, <2>4, <2>5, <2>6, <2>7 DEF Mover
\* What a processor's step leaves alone, and where it goes.
<1>q. ASSUME NEW i \in Processors, NEW l, CpuGoto(i, l), cpu[i] \notin {"pop", "post"},
             l \notin {"pop", "post"},
             UNCHANGED <<new, ready, pendNew, pendReady, mover, main>>
      PROVE  TokensMatchQueues'
  <2>1. AtPop' = AtPop /\ AtPost' = AtPost BY <1>c, <1>q, <1>t DEF One
  <2> QED BY <1>q, <2>1, <1>m, <1>g
<1>8. ASSUME NEW i \in Processors, Cpu(i) PROVE TokensMatchQueues'
  <2> USE DEF queues, semaphores, moverVars
  <2>1. CASE CpuLoop(i) BY <1>q, <2>1 DEF CpuLoop
  <2>2. CASE WaitPendReady(i)
    <3>1. /\ CpuGoto(i, "pop") /\ cpu[i] = "wait" /\ pendReady' = pendReady - 1
          /\ UNCHANGED <<new, ready, pendNew, mover, main>>
      BY <2>2 DEF WaitPendReady
    <3>2. AtPop' = AtPop + 1 /\ AtPost' = AtPost BY <1>c, <1>t, <3>1 DEF One
    <3> QED BY <1>m, <1>g, <1>t, <3>1, <3>2 DEF One
  <2>3. CASE PopReady(i)
    <3>1. Len(ready') = Len(ready) - 1 BY <1>0, <2>3, Lengths DEF PopReady, TypeOK
    <3>2. /\ CpuGoto(i, "run") /\ cpu[i] = "pop"
          /\ UNCHANGED <<new, pendNew, pendReady, mover, main>>
      BY <2>3 DEF PopReady
    <3>3. AtPop' = AtPop - 1 /\ AtPost' = AtPost BY <1>c, <1>t, <3>2 DEF One
    <3> QED BY <1>m, <1>g, <1>t, <3>1, <3>2, <3>3 DEF One
  <2>4. CASE NextQuery(i)
    <3>1. PICK l \in {"query", "finish"} : CpuGoto(i, l) BY <2>4 DEF NextQuery
    <3>2. cpu[i] = "run" /\ UNCHANGED <<new, ready, pendNew, pendReady, mover, main>>
      BY <2>4 DEF NextQuery
    <3> QED BY <1>q, <3>1, <3>2
  <2>5. CASE EndQuery(i) BY <1>q, <2>5 DEF EndQuery
  <2>6. CASE AbortQuery(i) BY <1>q, <2>6 DEF AbortQuery
  <2>7. CASE EndTurn(i) BY <1>q, <2>7 DEF EndTurn
  <2>8. CASE Destroy(i) BY <1>q, <2>8 DEF Destroy
  <2>9. CASE PostMaxReady(i) BY <1>q, <2>9 DEF PostMaxReady
  <2>10. CASE CpuPush(i)
    <3>1. exec[i] \in Procs
      BY <1>0, <2>10, ProcsAssumption DEF CpuPush, HoldInv, Holding, TypeOK
    <3>2. Len(ready') = Len(ready) + 1 BY <1>0, <2>10, <3>1, Lengths DEF CpuPush, TypeOK
    <3>3. /\ CpuGoto(i, "post") /\ cpu[i] = "push"
          /\ UNCHANGED <<new, pendNew, pendReady, mover, main>>
      BY <2>10 DEF CpuPush
    <3>4. AtPop' = AtPop /\ AtPost' = AtPost + 1 BY <1>c, <1>t, <3>3 DEF One
    <3> QED BY <1>m, <1>g, <1>t, <3>2, <3>3, <3>4 DEF One
  <2>11. CASE PostPendReady(i)
    <3>1. /\ CpuGoto(i, "loop") /\ cpu[i] = "post" /\ pendReady' = pendReady + 1
          /\ UNCHANGED <<new, ready, pendNew, mover, main>>
      BY <2>11 DEF PostPendReady
    <3>2. AtPop' = AtPop /\ AtPost' = AtPost - 1 BY <1>c, <1>t, <3>1 DEF One
    <3> QED BY <1>m, <1>g, <1>t, <3>1, <3>2 DEF One
  <2> QED BY <1>8, <2>1, <2>2, <2>3, <2>4, <2>5, <2>6, <2>7, <2>8, <2>9, <2>10, <2>11 DEF Cpu
<1>9. CASE UNCHANGED vars
  BY <1>9, <1>m, <1>g, <1>s, <1>t DEF vars, queues, semaphores, moverVars, cpuVars
<1> QED BY <1>1, <1>2, <1>3, <1>4, <1>7, <1>8, <1>9 DEF Next, Main

LEMMA PlaceStart == Init => PlaceInv
BY DEF Init, PlaceInv, EveryProcessIsInOnePlace, Range, IsInjective, InMover, OnCpu

\* Who holds no process gets one that is nowhere else.
LEMMA GainOnCpu ==
  ASSUME TypeOK, NEW i \in Processors, exec[i] = None, NEW p \in Procs,
         exec' = [exec EXCEPT ![i] = p]
  PROVE  OnCpu' = OnCpu \cup {p}
BY ProcsAssumption DEF OnCpu, TypeOK

LEMMA LoseOnCpu ==
  ASSUME TypeOK, PlaceInv, NEW i \in Processors, exec[i] \in Procs,
         exec' = [exec EXCEPT ![i] = None]
  PROVE  exec[i] \in OnCpu /\ OnCpu' = OnCpu \ {exec[i]}
BY ProcsAssumption DEF OnCpu, TypeOK, PlaceInv, EveryProcessIsInOnePlace

LEMMA PlaceStep == IInv /\ [Next]_vars => PlaceInv'
<1> SUFFICES ASSUME IInv, [Next]_vars PROVE PlaceInv'
  OBVIOUS
<1>0. TypeOK /\ HoldInv /\ PlaceInv BY DEF IInv
<1> DEFINE Distinct == \A i, j \in Processors : exec[i] = exec[j] /\ exec[i] # None => i = j
<1>p. /\ alive = Range(new) \cup InMover \cup Range(ready) \cup OnCpu
      /\ IsInjective(new) /\ IsInjective(ready)
      /\ Distinct
      /\ Range(new) \cap (InMover \cup Range(ready) \cup OnCpu) = {}
      /\ InMover \cap (Range(ready) \cup OnCpu) = {}
      /\ Range(ready) \cap OnCpu = {}
  BY <1>0 DEF PlaceInv, EveryProcessIsInOnePlace
<1>g. PlaceInv' <=>
        /\ alive' = Range(new') \cup InMover' \cup Range(ready') \cup OnCpu'
        /\ IsInjective(new') /\ IsInjective(ready')
        /\ Distinct'
        /\ Range(new') \cap (InMover' \cup Range(ready') \cup OnCpu') = {}
        /\ InMover' \cap (Range(ready') \cup OnCpu') = {}
        /\ Range(ready') \cap OnCpu' = {}
  BY DEF PlaceInv, EveryProcessIsInOnePlace
<1>o. UNCHANGED exec => OnCpu' = OnCpu /\ Distinct' = Distinct BY DEF OnCpu
<1> HIDE DEF Distinct
\* Nothing moves.
<1>f. CASE UNCHANGED <<alive, new, InMover, ready, exec>>
  BY <1>f, <1>p, <1>g, <1>o
<1>1. ASSUME NEW p \in Procs, Submit(p) PROVE PlaceInv'
  <2>1. p \notin alive BY <1>0, <1>1 DEF Submit, TypeOK
  <2>2. Range(new') = Range(new) \cup {p} /\ IsInjective(new')
    BY <1>0, <1>1, <1>p, <2>1, RangeAppend DEF Submit, TypeOK
  <2>3. alive' = alive \cup {p} /\ InMover' = InMover /\ UNCHANGED <<ready, exec>>
    BY <1>1 DEF Submit, InMover, moverVars, cpuVars
  <2> QED BY <2>1, <2>2, <2>3, <1>p, <1>g, <1>o
<1>2. CASE PostPendNew \/ Exit \/ Leave \/ UseDestroyedQueue
  BY <1>2, <1>f DEF PostPendNew, Exit, Leave, UseDestroyedQueue, InMover, queues,
                    moverVars, cpuVars
<1>4. CASE Kill
  <2>1. Range(new') = {} /\ Range(ready') = {} /\ IsInjective(new') /\ IsInjective(ready')
    BY <1>4 DEF Kill, Range, IsInjective
  <2>2. /\ alive' = alive \ (Range(new) \cup Range(ready))
        /\ InMover' = InMover /\ UNCHANGED exec
    BY <1>4 DEF Kill, InMover, moverVars, cpuVars
  <2> QED BY <2>1, <2>2, <1>p, <1>g, <1>o
<1>7. CASE Mover
  <2>1. CASE MoverLoop \/ WaitMaxReady \/ WaitPendNew \/ MoverPost \/ MoverLog
    BY <2>1, <1>f DEF MoverLoop, WaitMaxReady, WaitPendNew, MoverPost, MoverLog, MoverGoto,
                      InMover, queues, cpuVars
  <2>4. CASE PopNew
    <3>1. /\ Head(new) \in Range(new) /\ Range(new') = Range(new) \ {Head(new)}
          /\ IsInjective(new')
      BY <1>0, <2>4, <1>p, RangeTail DEF PopNew, TypeOK
    <3>2. InMover = {} /\ InMover' = {Head(new)} /\ UNCHANGED <<alive, ready, exec>>
      BY <2>4 DEF PopNew, InMover, MoverGoto, cpuVars
    <3> QED BY <3>1, <3>2, <1>p, <1>g, <1>o
  <2>5. CASE MoverPush
    <3>1. moving \in Procs BY <1>0, <2>5, ProcsAssumption DEF MoverPush, HoldInv, TypeOK
    <3>2. InMover = {moving} /\ InMover' = {} /\ UNCHANGED <<alive, new, exec>>
      BY <2>5 DEF MoverPush, InMover, MoverGoto, cpuVars
    <3>3. Range(ready') = Range(ready) \cup {moving} /\ IsInjective(ready')
      BY <1>0, <2>5, <1>p, <3>1, <3>2, RangeAppend DEF MoverPush, TypeOK
    <3> QED BY <3>2, <3>3, <1>p, <1>g, <1>o
  <2> QED BY <1>7, <2>1, <2>4, <2>5 DEF Mover
<1>8. ASSUME NEW i \in Processors, Cpu(i) PROVE PlaceInv'
  <2>1. CASE \/ CpuLoop(i) \/ WaitPendReady(i) \/ NextQuery(i) \/ EndQuery(i) \/ AbortQuery(i)
             \/ EndTurn(i) \/ PostMaxReady(i) \/ PostPendReady(i)
    BY <2>1, <1>f DEF CpuLoop, WaitPendReady, NextQuery, EndQuery, AbortQuery, EndTurn,
                      PostMaxReady, PostPendReady, InMover, queues, moverVars
  <2>3. CASE PopReady(i)
    <3>1. /\ Head(ready) \in Procs
          /\ Head(ready) \in Range(ready) /\ Range(ready') = Range(ready) \ {Head(ready)}
          /\ IsInjective(ready')
      BY <1>0, <2>3, <1>p, RangeTail DEF PopReady, TypeOK
    <3>2. /\ exec[i] = None /\ exec' = [exec EXCEPT ![i] = Head(ready)]
          /\ InMover' = InMover /\ UNCHANGED <<alive, new>>
      BY <1>0, <2>3 DEF PopReady, HoldInv, Holding, InMover, moverVars
    <3>3. OnCpu' = OnCpu \cup {Head(ready)} BY <1>0, <3>1, <3>2, GainOnCpu
    <3>4. Distinct'
      <4>1. \A j \in Processors : exec[j] # Head(ready)
        BY <3>1, <1>p, ProcsAssumption DEF OnCpu
      <4> QED BY <1>0, <3>2, <4>1, <1>p DEF TypeOK, Distinct
    <3> QED BY <3>1, <3>2, <3>3, <3>4, <1>p, <1>g
  <2>8. CASE Destroy(i) \/ CpuPush(i)
    <3>1. /\ exec[i] \in Procs /\ exec' = [exec EXCEPT ![i] = None]
          /\ InMover' = InMover /\ UNCHANGED new
      BY <1>0, <2>8, ProcsAssumption
      DEF Destroy, CpuPush, HoldInv, Holding, TypeOK, InMover, moverVars, queues
    <3>2. exec[i] \in OnCpu /\ OnCpu' = OnCpu \ {exec[i]} BY <1>0, <3>1, LoseOnCpu
    <3>3. Distinct' BY <1>0, <3>1, <1>p DEF TypeOK, Distinct
    <3>4. CASE Destroy(i)
      <4>1. alive' = alive \ {exec[i]} /\ UNCHANGED ready BY <3>4 DEF Destroy, queues
      <4> QED BY <3>1, <3>2, <3>3, <4>1, <1>p, <1>g
    <3>5. CASE CpuPush(i)
      <4>1. Range(ready') = Range(ready) \cup {exec[i]} /\ IsInjective(ready')
        BY <1>0, <3>5, <1>p, <3>1, <3>2, RangeAppend DEF CpuPush, TypeOK
      <4>2. UNCHANGED alive BY <3>5 DEF CpuPush
      <4> QED BY <3>1, <3>2, <3>3, <4>1, <4>2, <1>p, <1>g
    <3> QED BY <2>8, <3>4, <3>5
  <2> QED BY <1>8, <2>1, <2>3, <2>8 DEF Cpu
<1>9. CASE UNCHANGED vars
  BY <1>9, <1>f DEF vars, InMover, queues, moverVars, cpuVars
<1> QED BY <1>1, <1>2, <1>4, <1>7, <1>8, <1>9 DEF Next, Main

LEMMA ProgressStart == Init => ProgressInv
<1> SUFFICES ASSUME Init PROVE ProgressInv OBVIOUS
<1>1. Waiting = {} BY DEF Init, Waiting, Range, InMover
<1>2. \A p \in Procs : Fresh(p) BY DEF Init, Fresh
<1> QED BY <1>1, <1>2 DEF Init, ProgressInv

LEMMA ProgressStep == IInv /\ [Next]_vars => ProgressInv'
<1> SUFFICES ASSUME IInv, [Next]_vars PROVE ProgressInv'
  OBVIOUS
<1>0. TypeOK /\ HoldInv /\ PlaceInv /\ ProgressInv BY DEF IInv
<1>a. \A p : UNCHANGED <<pc, ran, failed>> => Fresh(p)' = Fresh(p) BY DEF Fresh
<1>w. Waiting \subseteq alive /\ alive \subseteq submitted /\ submitted \subseteq Procs
  BY <1>0 DEF Waiting, PlaceInv, EveryProcessIsInOnePlace, TypeOK
\* What waits is still what waited, and the processors have not moved.
<1>f. CASE Waiting' \subseteq Waiting /\ submitted \subseteq submitted'
             /\ UNCHANGED <<pc, ran, failed, cpu, exec>>
  BY <1>f, <1>0, <1>a DEF ProgressInv
\* The place of an executed process is its own.
<1>x. \A i \in Processors : exec[i] # None =>
        /\ exec[i] \in submitted
        /\ exec[i] \notin Waiting
        /\ \A j \in Processors \ {i} : exec[j] # exec[i]
  BY <1>0 DEF PlaceInv, EveryProcessIsInOnePlace, Waiting, OnCpu, TypeOK
<1>1. ASSUME NEW p \in Procs, Submit(p) PROVE ProgressInv'
  <2>1. Fresh(p) BY <1>0, <1>1 DEF Submit, ProgressInv
  <2>2. Waiting' = Waiting \cup {p}
    BY <1>0, <1>1, RangeAppend DEF Submit, TypeOK, Waiting, InMover, moverVars
  <2>3. submitted' = submitted \cup {p} /\ UNCHANGED <<pc, ran, failed, cpu, exec>>
    BY <1>1 DEF Submit, cpuVars
  <2> QED BY <1>0, <1>a, <2>1, <2>2, <2>3 DEF ProgressInv
<1>2. CASE PostPendNew \/ Exit \/ Leave \/ UseDestroyedQueue
  BY <1>2, <1>f DEF PostPendNew, Exit, Leave, UseDestroyedQueue, Waiting, InMover, queues,
                    moverVars, cpuVars, history
<1>4. CASE Kill
  <2>1. Range(new') = {} /\ Range(ready') = {} BY <1>4 DEF Kill, Range
  <2> QED BY <1>4, <1>f, <2>1 DEF Kill, Waiting, InMover, moverVars, cpuVars, history
<1>7. CASE Mover
  <2>1. CASE MoverLoop \/ WaitMaxReady \/ WaitPendNew \/ MoverPost \/ MoverLog
    BY <2>1, <1>f DEF MoverLoop, WaitMaxReady, WaitPendNew, MoverPost, MoverLog, MoverGoto,
                      Waiting, InMover, queues, cpuVars, history
  <2>4. CASE PopNew
    <3>1. new \in Seq(Procs) /\ new # <<>> /\ IsInjective(new) /\ new' = Tail(new)
      BY <1>0, <2>4 DEF PopNew, TypeOK, PlaceInv, EveryProcessIsInOnePlace
    <3>2. Range(new') \cup {Head(new)} = Range(new)
      BY <3>1, RangeTail
    <3> QED BY <2>4, <3>2, <1>f DEF PopNew, MoverGoto, Waiting, InMover, cpuVars, history
  <2>5. CASE MoverPush
    <3>1. moving \in Procs BY <1>0, <2>5, ProcsAssumption DEF MoverPush, HoldInv, TypeOK
    <3>2. Range(ready') = Range(ready) \cup {moving}
      BY <1>0, <2>5, <3>1, RangeAppend DEF MoverPush, TypeOK
    <3> QED BY <2>5, <3>2, <1>f DEF MoverPush, MoverGoto, Waiting, InMover, cpuVars, history
  <2> QED BY <1>7, <2>1, <2>4, <2>5 DEF Mover
<1>8. ASSUME NEW i \in Processors, Cpu(i) PROVE ProgressInv'
  <2>a. \A j \in Processors : cpu[j] \in Holding => exec[j] \in Procs /\ exec[j] # None
    BY <1>0, ProcsAssumption DEF HoldInv, TypeOK
  <2>b. ASSUME NEW l, CpuGoto(i, l)
        PROVE  cpu'[i] = l /\ \A j \in Processors \ {i} : cpu'[j] = cpu[j]
    BY <1>0, <2>b DEF CpuGoto, TypeOK
  \* It goes somewhere it holds nothing, or goes on as before.
  <2>1. CASE CpuLoop(i) \/ WaitPendReady(i) \/ PostMaxReady(i) \/ PostPendReady(i)
    <3>1. PICK l \in {"wait", "end", "pop", "loop"} : CpuGoto(i, l)
      BY <2>1 DEF CpuLoop, WaitPendReady, PostMaxReady, PostPendReady
    <3>2. UNCHANGED <<Waiting, submitted, pc, ran, failed, exec>>
      BY <2>1 DEF CpuLoop, WaitPendReady, PostMaxReady, PostPendReady, Waiting, InMover, queues,
                  moverVars, history
    <3> QED BY <1>0, <1>a, <2>b, <3>1, <3>2 DEF ProgressInv
  <2>3. CASE PopReady(i)
    <3>1. Head(ready) \in Procs /\ Head(ready) \in Waiting /\ Range(ready') \subseteq Range(ready)
      BY <1>0, <2>3, RangeTail
      DEF PopReady, TypeOK, PlaceInv, EveryProcessIsInOnePlace, Waiting
    <3>2. /\ exec' = [exec EXCEPT ![i] = Head(ready)] /\ CpuGoto(i, "run")
          /\ UNCHANGED <<new, InMover, submitted, pc, ran, failed>>
      BY <2>3 DEF PopReady, InMover, moverVars, history
    <3>3. exec'[i] = Head(ready) /\ \A j \in Processors \ {i} : exec'[j] = exec[j]
      BY <1>0, <3>2 DEF TypeOK
    <3>4. Waiting' \subseteq Waiting BY <3>1, <3>2 DEF Waiting
    <3> QED BY <1>0, <1>a, <2>b, <3>1, <3>2, <3>3, <3>4 DEF ProgressInv
  <2>7. CASE EndTurn(i)
    <3>1. CpuGoto(i, IF Finished(exec[i]) THEN "finish" ELSE "push") BY <2>7 DEF EndTurn
    <3>2. UNCHANGED <<Waiting, submitted, pc, ran, failed, exec>> /\ cpu[i] = "run"
      BY <2>7 DEF EndTurn, Waiting, InMover, queues, moverVars, history
    <3>3. exec[i] \in Procs /\ Fresh(exec[i]) BY <1>0, <2>a, <3>2 DEF ProgressInv, Holding
    <3>4. Finished(exec[i]) => pc[exec[i]] = Length[exec[i]]
      BY <1>0, <3>3, ProcsAssumption DEF Finished, TypeOK
    <3> QED BY <1>0, <1>a, <2>b, <3>1, <3>2, <3>3, <3>4 DEF ProgressInv
  <2>8. CASE Destroy(i)
    <3>1. CpuGoto(i, "release") /\ UNCHANGED <<Waiting, submitted, pc, ran, failed>>
      BY <2>8 DEF Destroy, Waiting, InMover, queues, moverVars, history
    <3>2. \A j \in Processors \ {i} : exec'[j] = exec[j] BY <1>0, <2>8 DEF Destroy, TypeOK
    <3> QED BY <1>0, <1>a, <2>b, <3>1, <3>2 DEF ProgressInv
  <2>10. CASE CpuPush(i)
    <3>1. exec[i] \in Procs /\ Fresh(exec[i])
      BY <1>0, <2>10, <2>a DEF CpuPush, ProgressInv, Holding
    <3>2. Range(ready') = Range(ready) \cup {exec[i]}
      BY <1>0, <2>10, <3>1, RangeAppend DEF CpuPush, TypeOK
    <3>3. CpuGoto(i, "post") /\ UNCHANGED <<submitted, pc, ran, failed>>
          /\ Waiting' = Waiting \cup {exec[i]}
      BY <2>10, <3>2 DEF CpuPush, Waiting, InMover, moverVars, history
    <3>4. \A j \in Processors \ {i} : exec'[j] = exec[j] BY <1>0, <2>10 DEF CpuPush, TypeOK
    <3> QED BY <1>0, <1>a, <2>b, <3>1, <3>3, <3>4 DEF ProgressInv
  \* It changes the progress of the process it holds, and of no other.
  <2>c. ASSUME NEW p \in Procs, exec[i] = p, UNCHANGED <<exec, Waiting, submitted>>,
               \A q \in Procs \ {p} : /\ pc'[q] = pc[q] /\ ran'[q] = ran[q]
                                      /\ q \in failed' <=> q \in failed,
               NEW l \in Holding, CpuGoto(i, l),
               /\ l = "run" => Fresh(p)'
               /\ l = "query" => p \notin failed' /\ pc'[p] = Len(ran'[p]) + 1
               /\ l = "finish" => p \in failed',
               l # "push"
        PROVE  ProgressInv'
    <3>1. \A q \in Procs \ {p} : Fresh(q)' = Fresh(q) BY <2>c DEF Fresh
    <3>2. p \notin Waiting /\ p \in submitted /\ \A j \in Processors \ {i} : exec[j] # p
      BY <1>x, <2>c, ProcsAssumption
    <3>3. (\A q \in Procs \ submitted : Fresh(q))' /\ (\A q \in Waiting : Fresh(q))'
      BY <1>0, <1>w, <2>c, <3>1, <3>2 DEF ProgressInv
    <3>4. ASSUME NEW j \in Processors \ {i}
          PROVE  /\ cpu'[j] \in {"run", "push"} => Fresh(exec[j])'
                 /\ cpu'[j] = "query" => exec[j] \notin failed' /\ pc'[exec[j]] = Len(ran'[exec[j]]) + 1
                 /\ cpu'[j] = "finish" => \/ exec[j] \in failed'
                                          \/ /\ Fresh(exec[j])'
                                             /\ pc'[exec[j]] = Length[exec[j]]
      <4>1. cpu'[j] = cpu[j] BY <2>b, <2>c
      <4>2. cpu[j] \in Holding => exec[j] \in Procs \ {p} BY <2>a, <3>2
      <4> QED BY <1>0, <2>c, <3>1, <4>1, <4>2 DEF ProgressInv, Holding
    <3>5. cpu'[i] = l BY <2>b, <2>c
    <3> QED BY <2>c, <3>3, <3>4, <3>5 DEF ProgressInv, Holding
  <2>4. CASE NextQuery(i)
    <3>1. exec[i] \in Procs /\ Fresh(exec[i])
      BY <1>0, <2>4, <2>a DEF NextQuery, ProgressInv, Holding
    <3>2. UNCHANGED <<exec, Waiting, submitted, ran>>
      BY <2>4 DEF NextQuery, Waiting, InMover, queues, moverVars
    <3>3. CASE /\ pc' = [pc EXCEPT ![exec[i]] = @ + 1] /\ CpuGoto(i, "query")
               /\ UNCHANGED failed
      BY <1>0, <2>c, <3>1, <3>2, <3>3 DEF Fresh, TypeOK, Holding
    <3>4. CASE /\ pc' = [pc EXCEPT ![exec[i]] = Length[exec[i]]]
               /\ failed' = failed \cup {exec[i]} /\ CpuGoto(i, "finish")
      BY <1>0, <2>c, <3>1, <3>2, <3>4 DEF TypeOK, Holding
    <3> QED BY <2>4, <3>3, <3>4 DEF NextQuery
  <2>5. CASE EndQuery(i)
    <3>1. /\ exec[i] \in Procs /\ exec[i] \notin failed
          /\ pc[exec[i]] = Len(ran[exec[i]]) + 1
      BY <1>0, <2>5, <2>a DEF EndQuery, ProgressInv, Holding
    <3>2. UNCHANGED <<exec, Waiting, submitted, pc, failed>> /\ CpuGoto(i, "run")
      BY <2>5 DEF EndQuery, Waiting, InMover, queues, moverVars
    <3>3. ran' = [ran EXCEPT ![exec[i]] = Append(@, pc[exec[i]])] BY <2>5 DEF EndQuery
    <3>4. Len(ran'[exec[i]]) = Len(ran[exec[i]]) + 1
      BY <1>0, <3>1, <3>3, Lengths DEF TypeOK
    <3>5. Fresh(exec[i])' BY <3>1, <3>2, <3>4 DEF Fresh
    <3> QED BY <1>0, <2>c, <3>1, <3>2, <3>3, <3>5 DEF TypeOK, Holding
  <2>6. CASE AbortQuery(i)
    <3>1. exec[i] \in Procs BY <2>6, <2>a DEF AbortQuery, Holding
    <3>2. UNCHANGED <<exec, Waiting, submitted, ran>>
      BY <2>6 DEF AbortQuery, Waiting, InMover, queues, moverVars
    <3> QED BY <1>0, <2>6, <2>c, <3>1, <3>2 DEF AbortQuery, TypeOK, Holding
  <2> QED BY <1>8, <2>1, <2>3, <2>4, <2>5, <2>6, <2>7, <2>8, <2>10 DEF Cpu
<1>9. CASE UNCHANGED vars
  BY <1>9, <1>f DEF vars, Waiting, InMover, queues, moverVars, cpuVars, history
<1> QED BY <1>1, <1>2, <1>4, <1>7, <1>8, <1>9 DEF Next, Main

-----------------------------------------------------------------------------
(* The theorems.                                                           *)

LEMMA Invariance == Spec => []IInv
<1>1. Init => IInv
  BY TypeStart, HoldStart, PlaceStart, ProgressStart, BoundStart, TokensStart DEF IInv
<1>2. IInv /\ [Next]_vars => IInv'
  BY TypeStep, HoldStep, PlaceStep, ProgressStep, BoundStep, TokensStep DEF IInv
<1> QED BY <1>1, <1>2, PTL DEF Spec

\* The scheduler's state is well typed, and no process runs past its script.
THEOREM Typing == Spec => []TypeOK
<1>1. IInv => TypeOK BY DEF IInv
<1> QED BY <1>1, Invariance, PTL

\* The permits of MAX_PROC_READY are neither lost nor doubled, for every number
\* of processors, processes and queries.
THEOREM Multiprogramming == Spec => []MultiprogrammingBound
<1>1. IInv => MultiprogrammingBound BY DEF IInv
<1> QED BY <1>1, Invariance, PTL

\* A thread that has got past PROC_PEND_NEW or PROC_PEND_READY finds a process.
THEOREM Tokens == Spec => []TokensMatchQueues
<1>1. IInv => TokensMatchQueues BY DEF IInv
<1> QED BY <1>1, Invariance, PTL

\* No process is lost, and none is in two queues or on two processors.
THEOREM Conservation == Spec => []EveryProcessIsInOnePlace
<1>1. IInv => EveryProcessIsInOnePlace BY DEF IInv, PlaceInv
<1> QED BY <1>1, Invariance, PTL

\* Each step of a thread is the next query of a script, its end, or nothing.
LEMMA RefinementStep == IInv /\ [Next]_vars => [S!Next]_(S!vars)
<1> SUFFICES ASSUME IInv, [Next]_vars PROVE [S!Next]_(S!vars)
  OBVIOUS
<1> DEFINE ended == submitted \ alive
<1>0. TypeOK /\ HoldInv /\ PlaceInv /\ ProgressInv BY DEF IInv
<1>u. CASE UNCHANGED <<submitted, ran, failed, alive, exitFlag>>
  BY <1>u DEF S!vars
<1>e. \A i \in Processors : cpu[i] \in Holding =>
        /\ exec[i] \in Procs
        /\ exec[i] \in alive /\ exec[i] \in submitted
  BY SMTT(30), <1>0, ProcsAssumption
  DEF HoldInv, PlaceInv, EveryProcessIsInOnePlace, OnCpu, TypeOK
<1>l. \A p \in Procs : /\ Len(ran[p]) \in Nat /\ Length[p] \in Nat
                       /\ pc[p] \in Nat /\ pc[p] <= Length[p]
  BY <1>0, ProcsAssumption, Lengths DEF TypeOK
<1>1. ASSUME NEW p \in Procs, Submit(p) PROVE S!Submit(p)
  <2>1. UNCHANGED ended BY <1>0, <1>1 DEF Submit, TypeOK
  <2> QED BY <1>1, <2>1 DEF Submit, S!Submit
<1>2. CASE PostPendNew \/ Leave \/ UseDestroyedQueue
  BY <1>2, <1>u DEF PostPendNew, Leave, UseDestroyedQueue, history
<1>3. CASE Exit
  <2>1. S!Shutdown BY <1>3 DEF Exit, S!Shutdown, history
  <2> QED BY <2>1 DEF S!Next
<1>4. CASE Kill
  <2> DEFINE P == Range(new) \cup Range(ready)
  <2>1. P \subseteq alive /\ alive \subseteq submitted
    BY <1>0 DEF PlaceInv, EveryProcessIsInOnePlace, TypeOK
  <2>2. exitFlag /\ alive' = alive \ P /\ UNCHANGED <<submitted, ran, failed, exitFlag>>
    BY <1>0, <1>4 DEF Kill, HoldInv, history
  <2>3. ended' = ended \cup P BY <2>1, <2>2
  <2>4. S!GiveUp(P) BY <2>2, <2>3 DEF S!GiveUp
  <2> QED BY <2>1, <2>4 DEF S!Next
<1>7. CASE Mover
  BY <1>7, <1>u DEF Mover, MoverLoop, WaitMaxReady, WaitPendNew, PopNew, MoverPush, MoverPost,
                    MoverLog, history
<1>8. ASSUME NEW i \in Processors, Cpu(i) PROVE [S!Next]_(S!vars)
  <2>1. CASE \/ CpuLoop(i) \/ WaitPendReady(i) \/ PopReady(i) \/ EndTurn(i)
             \/ PostMaxReady(i) \/ CpuPush(i) \/ PostPendReady(i)
    BY <2>1, <1>u DEF CpuLoop, WaitPendReady, PopReady, EndTurn, PostMaxReady, CpuPush,
                      PostPendReady, history
  <2>4. CASE NextQuery(i)
    <3>1. /\ exec[i] \in Procs /\ exec[i] \in alive /\ exec[i] \in submitted
          /\ Fresh(exec[i]) /\ pc[exec[i]] < Length[exec[i]]
      BY <1>0, <1>e, <1>l, <2>4 DEF NextQuery, ProgressInv, Holding, Finished
    <3>2. UNCHANGED <<submitted, ran, alive, exitFlag>> BY <2>4 DEF NextQuery
    <3>3. CASE UNCHANGED failed BY <1>u, <3>2, <3>3
    <3>4. CASE failed' = failed \cup {exec[i]}
      <4>1. S!Fail(exec[i]) BY <3>1, <3>2, <3>4 DEF Fresh, S!Fail
      <4> QED BY <3>1, <4>1 DEF S!Next
    <3> QED BY <2>4, <3>3, <3>4 DEF NextQuery
  <2>5. CASE EndQuery(i)
    <3>1. /\ exec[i] \in Procs /\ exec[i] \in alive /\ exec[i] \in submitted
          /\ exec[i] \notin failed
          /\ pc[exec[i]] = Len(ran[exec[i]]) + 1
      BY <1>0, <1>e, <2>5 DEF EndQuery, ProgressInv, Holding
    <3>2. Len(ran[exec[i]]) < Length[exec[i]] BY <3>1, <1>l
    <3>3. ran' = [ran EXCEPT ![exec[i]] = Append(@, Len(@) + 1)]
      BY <2>5, <3>1 DEF EndQuery
    <3>4. UNCHANGED <<submitted, failed, alive, exitFlag>> BY <2>5 DEF EndQuery
    <3>5. S!RunNext(exec[i]) BY <3>1, <3>2, <3>3, <3>4 DEF S!RunNext
    <3> QED BY <3>1, <3>5 DEF S!Next
  <2>6. CASE AbortQuery(i)
    <3>1. /\ exec[i] \in Procs /\ exec[i] \in alive /\ exec[i] \in submitted
          /\ exec[i] \notin failed
          /\ pc[exec[i]] = Len(ran[exec[i]]) + 1
      BY <1>0, <1>e, <2>6 DEF AbortQuery, ProgressInv, Holding
    <3>2. Len(ran[exec[i]]) < Length[exec[i]] BY <3>1, <1>l
    <3>3. /\ failed' = failed \cup {exec[i]}
          /\ UNCHANGED <<submitted, ran, alive, exitFlag>>
      BY <2>6 DEF AbortQuery
    <3>4. S!Fail(exec[i]) BY <3>1, <3>2, <3>3 DEF S!Fail
    <3> QED BY <3>1, <3>4 DEF S!Next
  <2>8. CASE Destroy(i)
    <3>1. /\ exec[i] \in Procs /\ exec[i] \in alive /\ exec[i] \in submitted
          /\ \/ exec[i] \in failed
             \/ Fresh(exec[i]) /\ pc[exec[i]] = Length[exec[i]]
      BY <1>0, <1>e, <2>8 DEF Destroy, ProgressInv, Holding
    <3>2. Len(ran[exec[i]]) = Length[exec[i]] \/ exec[i] \in failed BY <3>1 DEF Fresh
    <3>3. /\ alive' = alive \ {exec[i]}
          /\ UNCHANGED <<submitted, ran, failed, exitFlag>>
      BY <2>8 DEF Destroy, history
    <3>4. ended' = ended \cup {exec[i]} BY <3>1, <3>3
    <3>5. S!End(exec[i]) BY <3>1, <3>2, <3>3, <3>4 DEF S!End
    <3> QED BY <3>1, <3>5 DEF S!Next
  <2> QED BY <1>8, <2>1, <2>4, <2>5, <2>6, <2>8 DEF Cpu
<1>9. CASE UNCHANGED vars BY <1>9, <1>u DEF vars, history
<1>10. (\E p \in Procs : Submit(p)) => S!Next BY <1>1 DEF S!Next
<1> QED BY <1>2, <1>3, <1>4, <1>7, <1>8, <1>9, <1>10 DEF Next, Main

\* Under every schedule of the threads, the queries of a script run in order
\* and once each, until the last or the first that fails.
THEOREM Refinement == Spec => ImplementsScripts
<1>1. Init => S!Init BY DEF Init, S!Init
<1> QED BY <1>1, Invariance, RefinementStep, PTL DEF Spec, ImplementsScripts, S!Spec
=============================================================================
