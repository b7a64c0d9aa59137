--------------------------- MODULE BitarrayProofs ---------------------------
(***************************************************************************)
(* Proofs about the block allocator, for every number of files and blocks  *)
(* and every bound.                                                        *)
(***************************************************************************)
EXTENDS Bitarray, TLAPS

\* Whoever is inside the search holds the mutex, and nobody else does.
MutexInv == \A f \in Files : (pc[f] \in Searching) <=> (mutex = f)

\* What a search has established about the bits behind its cursor, and what
\* the remaining labels know about the block number they carry.
SearchInv ==
  \A f \in Files :
    /\ At(f, "scan") =>
         /\ lastBlockAssigned <= cur[f]
         /\ \A b \in Blocks : lastBlockAssigned <= b /\ b < cur[f] => b \in bitarray
    /\ At(f, "wrap") =>
         /\ 0 <= cur[f]
         /\ \A b \in Blocks : lastBlockAssigned <= b \/ b < cur[f] => b \in bitarray
    /\ pc[f] \in {"take", "takeWrapped"} => cur[f] \in Blocks /\ cur[f] \notin bitarray
    /\ At(f, "list") => cur[f] \in Blocks \cup {NoBlock}
    /\ pc[f] \in {"save", "append"} => cur[f] \in Blocks
    /\ del[f] = "free" => victim[f] \in todo[f]

\* The inductive core of ownership: holders are disjoint, what is held is set,
\* and what is set or not empty on disk is held.
OwnershipInv ==
  ~damaged /\ races = 0 =>
    /\ Disjoint
    /\ \A f \in Files : \A b \in Holding(f) : b \in bitarray
    /\ \A b \in Blocks :
         b \in bitarray \/ b \in filled => \E f \in Files : b \in Holding(f)
    /\ \A f \in Files : del[f] = "free" => victim[f] \notin filled

-----------------------------------------------------------------------------
(* Arithmetic on block numbers, used in place of the definitions. *)
LEMMA Numbers ==
  /\ NBlocks \in Nat
  /\ NoBlock \in NoBlock .. NBlocks
  /\ 0 \in Blocks
  /\ NoBlock \notin Blocks
  /\ \A b \in Blocks : b \in Int /\ 0 <= b /\ b < NBlocks
  /\ \A b \in NoBlock .. NBlocks : b \in Int
  /\ \A b \in Int : 0 <= b /\ b < NBlocks => b \in Blocks
  /\ \A b \in Blocks : b \in NoBlock .. NBlocks /\ b + 1 \in NoBlock .. NBlocks
BY BlocksAssumption DEF NoBlock, Blocks

(* No step of a thread leaves the types. *)
LEMMA StepType ==
  ASSUME TypeOK, SearchInv,
         NEW f \in Files, Step(f)
  PROVE  TypeOK'
<1> USE Numbers DEF TypeOK, SearchInv, allocator, disk, writers, deleters, history,
           At, Goto, SetCur, Labels, Race, Deleting
<1>1. CASE BeginAlloc(f) BY <1>1 DEF BeginAlloc
<1>2. CASE Lock(f) BY <1>2 DEF Lock
<1>3. CASE Scan(f) BY <1>3 DEF Scan
<1>4. CASE Take(f) BY <1>4 DEF Take
<1>5. CASE Wrap(f) BY <1>5 DEF Wrap
<1>6. CASE TakeWrapped(f) BY <1>6 DEF TakeWrapped
<1>7. CASE ListBlock(f) BY <1>7 DEF ListBlock
<1>8. CASE SaveIntoBlock(f) BY <1>8 DEF SaveIntoBlock, Writes
<1>9. CASE AppendData(f) BY <1>9 DEF AppendData, Writes
<1>10. CASE BeginDelete(f) BY <1>10 DEF BeginDelete
<1>11. CASE Truncate(f) BY <1>11 DEF Truncate
<1>12. CASE FreeBlock(f) BY <1>12 DEF FreeBlock, Freed
<1>13. CASE Unlink(f) BY <1>13 DEF Unlink
<1>14. CASE ChooseBlock(f) BY <1>14 DEF ChooseBlock
<1> QED BY <1>1, <1>2, <1>3, <1>4, <1>5, <1>6, <1>7, <1>8, <1>9,
           <1>10, <1>11, <1>12, <1>13, <1>14 DEF Step, GetNewBlock

(* No step of a thread enters the search without the mutex. *)
LEMMA StepMutex ==
  ASSUME TypeOK, MutexInv,
         NEW f \in Files, Step(f)
  PROVE  MutexInv'
<1> USE NoFileAssumption DEF TypeOK, MutexInv, Searching,
           allocator, disk, writers, deleters, history, At, Goto, SetCur, Race, Deleting
<1>1. CASE BeginAlloc(f) BY <1>1 DEF BeginAlloc
<1>2. CASE Lock(f) BY <1>2 DEF Lock
<1>3. CASE Scan(f) BY <1>3 DEF Scan
<1>4. CASE Take(f) BY <1>4 DEF Take
<1>5. CASE Wrap(f) BY <1>5 DEF Wrap
<1>6. CASE TakeWrapped(f) BY <1>6 DEF TakeWrapped
<1>7. CASE ListBlock(f) BY <1>7 DEF ListBlock
<1>8. CASE SaveIntoBlock(f) BY <1>8 DEF SaveIntoBlock, Writes
<1>9. CASE AppendData(f) BY <1>9 DEF AppendData, Writes
<1>10. CASE BeginDelete(f) BY <1>10 DEF BeginDelete
<1>11. CASE Truncate(f) BY <1>11 DEF Truncate
<1>12. CASE FreeBlock(f) BY <1>12 DEF FreeBlock, Freed
<1>13. CASE Unlink(f) BY <1>13 DEF Unlink
<1>14. CASE ChooseBlock(f) BY <1>14 DEF ChooseBlock
<1> QED BY <1>1, <1>2, <1>3, <1>4, <1>5, <1>6, <1>7, <1>8, <1>9,
           <1>10, <1>11, <1>12, <1>13, <1>14 DEF Step, GetNewBlock

(* No step of a thread spoils what a search has seen. *)
LEMMA StepSearch ==
  ASSUME TypeOK, MutexInv, SearchInv,
         NEW f \in Files, Step(f)
  PROVE  SearchInv'
<1> USE Numbers, NoFileAssumption DEF TypeOK, MutexInv, SearchInv, Searching,
           allocator, disk, writers, deleters, history, At, Goto, SetCur, Race, Deleting
<1>1. CASE BeginAlloc(f) BY <1>1 DEF BeginAlloc
<1>2. CASE Lock(f) BY <1>2 DEF Lock
<1>3. CASE Scan(f) BY <1>3 DEF Scan
<1>4. CASE Take(f) BY <1>4 DEF Take
<1>5. CASE Wrap(f) BY <1>5 DEF Wrap
<1>6. CASE TakeWrapped(f) BY <1>6 DEF TakeWrapped
<1>7. CASE ListBlock(f) BY <1>7 DEF ListBlock
<1>8. CASE SaveIntoBlock(f) BY <1>8 DEF SaveIntoBlock, Writes
<1>9. CASE AppendData(f) BY <1>9 DEF AppendData, Writes
<1>10. CASE BeginDelete(f) BY <1>10 DEF BeginDelete
<1>11. CASE Truncate(f) BY <1>11 DEF Truncate
<1>12. CASE FreeBlock(f) BY <1>12 DEF FreeBlock, Freed
<1>13. CASE Unlink(f) BY <1>13 DEF Unlink
<1>14. CASE ChooseBlock(f) BY <1>14 DEF ChooseBlock
<1> QED BY <1>1, <1>2, <1>3, <1>4, <1>5, <1>6, <1>7, <1>8, <1>9,
           <1>10, <1>11, <1>12, <1>13, <1>14 DEF Step, GetNewBlock

(* The flag goes down only over a full bitmap, and no bit is cleaned under it. *)
LEMMA StepFlag ==
  ASSUME TypeOK, SearchInv, FlagDownMeansFull,
         NEW f \in Files, Step(f)
  PROVE  FlagDownMeansFull'
<1> USE Numbers DEF TypeOK, SearchInv, FlagDownMeansFull,
           allocator, disk, writers, deleters, history, At, Goto, SetCur, Race, Deleting
<1>1. CASE BeginAlloc(f) BY <1>1 DEF BeginAlloc
<1>2. CASE Lock(f) BY <1>2 DEF Lock
<1>3. CASE Scan(f) BY <1>3 DEF Scan
<1>4. CASE Take(f) BY <1>4 DEF Take
<1>5. CASE Wrap(f)
  <2>1. ASSUME cur[f] >= lastBlockAssigned, At(f, "wrap") PROVE bitarray = Blocks
    <3>1. \A b \in Blocks : lastBlockAssigned <= b \/ b < cur[f] BY <2>1, Numbers
    <3>2. Blocks \subseteq bitarray BY <2>1, <3>1
    <3> QED BY <3>2
  <2> QED BY <1>5, <2>1 DEF Wrap
<1>6. CASE TakeWrapped(f) BY <1>6 DEF TakeWrapped
<1>7. CASE ListBlock(f) BY <1>7 DEF ListBlock
<1>8. CASE SaveIntoBlock(f) BY <1>8 DEF SaveIntoBlock, Writes
<1>9. CASE AppendData(f) BY <1>9 DEF AppendData, Writes
<1>10. CASE BeginDelete(f) BY <1>10 DEF BeginDelete
<1>11. CASE Truncate(f) BY <1>11 DEF Truncate
<1>12. CASE FreeBlock(f) BY <1>12 DEF FreeBlock, Freed
<1>13. CASE Unlink(f) BY <1>13 DEF Unlink
<1>14. CASE ChooseBlock(f) BY <1>14 DEF ChooseBlock
<1> QED BY <1>1, <1>2, <1>3, <1>4, <1>5, <1>6, <1>7, <1>8, <1>9,
           <1>10, <1>11, <1>12, <1>13, <1>14 DEF Step, GetNewBlock

(* No step of a thread gives a block two holders, or loses one. *)
LEMMA StepOwnership ==
  ASSUME TypeOK, MutexInv, SearchInv, OwnershipInv,
         NEW f \in Files, Step(f)
  PROVE  OwnershipInv'
<1> USE Numbers DEF TypeOK, MutexInv, SearchInv, OwnershipInv, Disjoint, Holding, Listed,
           allocator, disk, writers, deleters, history, At, Goto, SetCur, Race, Deleting
<1>1. CASE BeginAlloc(f) BY SMTT(30), <1>1 DEF BeginAlloc
<1>2. CASE Lock(f) BY <1>2 DEF Lock
<1>3. CASE Scan(f) BY <1>3 DEF Scan
<1>4. CASE Take(f) BY <1>4 DEF Take
<1>5. CASE Wrap(f) BY <1>5 DEF Wrap
<1>6. CASE TakeWrapped(f) BY <1>6 DEF TakeWrapped
<1>7. CASE ListBlock(f) BY <1>7 DEF ListBlock
<1>8. CASE SaveIntoBlock(f) BY <1>8 DEF SaveIntoBlock, Writes
<1>9. CASE AppendData(f) BY <1>9 DEF AppendData, Writes
<1>10. CASE BeginDelete(f) BY <1>10 DEF BeginDelete
<1>11. CASE Truncate(f) BY <1>11 DEF Truncate
<1>12. CASE FreeBlock(f)
  <2> SUFFICES ASSUME ~damaged, races = 0 PROVE OwnershipInv'
    BY <1>12 DEF FreeBlock, Freed
  <2>1. Holding(f)' = Holding(f) \ {victim[f]}
    <3>1. At(f, "list") => cur[f] \notin Listed(f) OBVIOUS
    <3>2. victim[f] \in Blocks => victim[f] \in Listed(f) BY <1>12 DEF FreeBlock
    <3> QED BY <1>12, <3>1, <3>2 DEF FreeBlock, Freed
  <2>2. \A g \in Files \ {f} : Holding(g)' = Holding(g) BY <1>12 DEF FreeBlock, Freed
  <2>3. victim[f] \in Blocks => victim[f] \in Holding(f) BY <1>12 DEF FreeBlock
  <2>4. \A g \in Files \ {f} : victim[f] \notin Holding(g) BY <1>12, <2>3 DEF FreeBlock
  <2>5. victim[f] \notin filled BY <1>12 DEF FreeBlock
  <2> QED BY <1>12, <2>1, <2>2, <2>3, <2>4, <2>5 DEF FreeBlock, Freed
<1>13. CASE Unlink(f) BY <1>13 DEF Unlink
<1>14. CASE ChooseBlock(f) BY <1>14 DEF ChooseBlock
<1> QED BY <1>1, <1>2, <1>3, <1>4, <1>5, <1>6, <1>7, <1>8, <1>9,
           <1>10, <1>11, <1>12, <1>13, <1>14 DEF Step, GetNewBlock

(* A start-up re-establishes everything: the bitmap is rebuilt from the disk,
   and the start that cannot trust the disk raises damaged.                  *)
LEMMA Startup ==
  ASSUME TypeOK, OwnershipInv, Restart \/ Crash
  PROVE  (TypeOK /\ MutexInv /\ SearchInv /\ FlagDownMeansFull /\ OwnershipInv)'
<1> USE Numbers, NoFileAssumption DEF Load, TypeOK, At
<1>1. Load BY DEF Restart, Crash
<1>2. damaged' \in BOOLEAN BY DEF Restart, Crash
<1>3. TypeOK'
  <2>1. bitarray' \subseteq Blocks /\ restarts' \in Nat BY <1>1
  <2> QED BY <1>1, <1>2, <2>1 DEF Labels, disk
<1>4. MutexInv' BY <1>1 DEF MutexInv, Searching
<1>5. SearchInv' BY <1>1 DEF SearchInv
<1>6. FlagDownMeansFull' BY <1>1 DEF FlagDownMeansFull
<1>7. OwnershipInv'
  <2> SUFFICES ASSUME ~damaged', races' = 0 PROVE OwnershipInv'
    BY DEF OwnershipInv
  <2>1. Restart /\ ~damaged /\ races = 0 /\ Quiescent /\ AllMarked
    BY <1>1 DEF Restart, Crash
  <2>2. \A g \in Files : Holding(g) = blocks[g] \ {NoBlock} /\ Holding(g)' = Holding(g)
    BY <1>1, <2>1 DEF Quiescent, Holding, Listed, Deleting, disk
  <2> QED BY <1>1, <2>1, <2>2 DEF OwnershipInv, Disjoint, AllMarked, disk
<1> QED BY <1>3, <1>4, <1>5, <1>6, <1>7

(* The whole inductive invariant. *)
Inv == TypeOK /\ MutexInv /\ SearchInv /\ FlagDownMeansFull /\ OwnershipInv

(* The initial state satisfies the inductive invariant. *)
LEMMA InitInv == Init => Inv
<1> SUFFICES ASSUME Init PROVE Inv
  OBVIOUS
<1> USE Numbers, NoFileAssumption DEF Init, At
<1>1. TypeOK BY DEF TypeOK, Labels
<1>2. MutexInv BY DEF MutexInv, Searching
<1>3. SearchInv BY DEF SearchInv
<1>4. FlagDownMeansFull BY DEF FlagDownMeansFull
<1>5. OwnershipInv BY DEF OwnershipInv, Disjoint, Holding, Listed, Deleting
<1> QED BY <1>1, <1>2, <1>3, <1>4, <1>5 DEF Inv

(* Every step preserves it. *)
LEMMA NextInv == Inv /\ [Next]_vars => Inv'
<1> SUFFICES ASSUME Inv, [Next]_vars PROVE Inv'
  OBVIOUS
<1> USE DEF Inv
<1>1. ASSUME NEW f \in Files, Step(f) PROVE Inv'
  BY <1>1, StepType, StepMutex, StepSearch, StepFlag, StepOwnership
<1>2. CASE Restart \/ Crash BY <1>2, Startup
<1>3. CASE UNCHANGED vars
  <2> USE <1>3 DEF vars, allocator, disk, writers, deleters, history, At
  <2>1. TypeOK' BY DEF TypeOK
  <2>2. MutexInv' BY DEF MutexInv
  <2>3. SearchInv' BY DEF SearchInv
  <2>4. FlagDownMeansFull' BY DEF FlagDownMeansFull
  <2>5. OwnershipInv' BY DEF OwnershipInv, Disjoint, Holding, Listed, Deleting
  <2> QED BY <2>1, <2>2, <2>3, <2>4, <2>5
<1> QED BY <1>1, <1>2, <1>3 DEF Next

(* The invariant holds of every behaviour, crashes and restarts included. *)
THEOREM Invariance == Spec => []Inv
BY InitInv, NextInv, PTL DEF Spec

-----------------------------------------------------------------------------
(* Every variable of the allocator keeps its type, the cursor of a search and
   the block number it returns included. *)
THEOREM Typing == Spec => []TypeOK
<1>1. Inv => TypeOK BY DEF Inv
<1> QED BY <1>1, Invariance, PTL

(* ba_getNewBlock never hands out a block another file holds, DROPs of files
   that are being written included, until some start-up found a listed block
   empty (one that TakeWrapped left unmarked) or cut an operation short, or a
   write reached a file while it was being deleted. *)
THEOREM Exclusive == Spec => []NoDoubleAllocation
<1>1. Inv => NoDoubleAllocation BY DEF Inv, OwnershipInv, NoDoubleAllocation
<1> QED BY <1>1, Invariance, PTL

(* Under the same provisos no block is lost to the bitmap: a set bit has a file. *)
THEOREM Complete == Spec => []NoLeak
<1>1. Inv => NoLeak BY DEF Inv, OwnershipInv, NoLeak, TypeOK
<1> QED BY <1>1, Invariance, PTL

(* The unlocked test of flagBloquesLibres is sound: while it is down no block
   is free. *)
THEOREM FlagIsSound == Spec => []FlagDownMeansFull
<1>1. Inv => FlagDownMeansFull BY DEF Inv
<1> QED BY <1>1, Invariance, PTL

(* A search gives up only over a bitmap that is full at that instant. *)
THEOREM FailureIsSound == Spec => FailsOnlyWhenFull
<1>1. ASSUME Inv, [Next]_vars, NEW f \in Files, At(f, "wrap"), pc'[f] = "list"
      PROVE  bitarray = Blocks
  <2>1. UNCHANGED pc => FALSE BY <1>1 DEF At
  <2>2. ~(Restart \/ Crash) BY <1>1 DEF Restart, Crash, Load
  <2>3. PICK g \in Files : Step(g) BY <1>1, <2>1, <2>2 DEF Next, vars, writers
  <2>4. g = f
    BY <1>1, <2>3 DEF Step, GetNewBlock, At, Goto, Inv, TypeOK, BeginAlloc, Lock, Scan, Take,
       Wrap, TakeWrapped, ListBlock, ChooseBlock, SaveIntoBlock, AppendData, BeginDelete,
       Truncate, FreeBlock, Freed, Unlink, Writes, writers
  <2>5. Wrap(f)
    BY <1>1, <2>3, <2>4 DEF Step, GetNewBlock, At, BeginAlloc, Lock, Scan, Take, TakeWrapped,
       ListBlock, ChooseBlock, SaveIntoBlock, AppendData, BeginDelete, Truncate, FreeBlock,
       Freed, Unlink, Writes, writers
  <2>6. cur[f] >= lastBlockAssigned
    BY <1>1, <2>5 DEF Wrap, At, Goto, Inv, TypeOK
  <2>7. \A b \in Blocks : lastBlockAssigned <= b \/ b < cur[f]
    BY <1>1, <2>6, Numbers DEF Inv, TypeOK
  <2>8. Blocks \subseteq bitarray BY <1>1, <2>7 DEF Inv, SearchInv
  <2> QED BY <1>1, <2>8 DEF Inv, TypeOK
<1>2. Inv /\ [Next]_vars
        => [\A f \in Files : (At(f, "wrap") /\ pc'[f] = "list") => bitarray = Blocks]_vars
  BY <1>1
<1> QED BY <1>2, Invariance, PTL DEF Spec, FailsOnlyWhenFull
=============================================================================
