------------------------ MODULE TableLifecycleProofs ------------------------
(***************************************************************************)
(* Proofs about the life of a table, for every number of clients, CREATEs  *)
(* and starts: types, the work of MUTEX_DROP_TABLE, and what a CREATE or   *)
(* DROP that no other overlaps does to the table.                          *)
(*                                                                         *)
(* Why one thread at a time is in the files although a table may have      *)
(* several entries, each with a mutex of its own: who has a pointer to an  *)
(* entry that is not freed has the first of the list, because entries      *)
(* leave the list only from its front, and are freed then.                 *)
(***************************************************************************)
EXTENDS TableLifecycle, FiniteSetTheorems, TLAPS

ClientInside == {"free", "unlink", "unlock"}
CompInside   == {"getCTime", "compact", "save", "unlock"}

\* The numbers of entries: never used twice while the process runs.
EntriesInv ==
  /\ \A m, n \in DOMAIN sysTables : sysTables[m] = sysTables[n] => m = n
  /\ \A n \in DOMAIN sysTables : sysTables[n] <= gen
  /\ \A i \in freed : i <= gen
  /\ \A i \in Ids : comp[i].pc # "idle" => i <= gen
  /\ \A c \in Clients : client[c].pc \in CreatePcs =>
       LET i == client[c].ptr IN
       /\ i <= gen /\ i \notin freed /\ comp[i].pc = "idle"
       /\ \A n \in DOMAIN sysTables : sysTables[n] # i
       /\ \A d \in Clients \ {c} : client[d].pc \in CreatePcs => client[d].ptr # i

\* A pointer to an entry that is not freed is one to the first of the list.
First(i) == i \in freed \/ (sysTables # <<>> /\ i = Head(sysTables))

PointerInv ==
  /\ \A c \in Clients : client[c].pc \in {"lock"} \cup ClientInside => First(client[c].ptr)
  /\ \A i \in Ids : comp[i].pc \in {"lock"} \cup CompInside => First(comp[i].ptr)

\* Who is inside has the mutex, and who has the mutex is inside.
LockInv ==
  /\ \A c \in Clients : client[c].pc \in ClientInside /\ client[c].ptr \notin freed =>
       dropLock[client[c].ptr] = c
  /\ \A i \in Ids : comp[i].pc \in CompInside /\ comp[i].ptr \notin freed =>
       dropLock[comp[i].ptr] = i
  /\ \A i \in Ids \ freed : dropLock[i] # NoOne =>
       \/ /\ dropLock[i] \in Clients
          /\ client[dropLock[i]].pc \in ClientInside
          /\ client[dropLock[i]].ptr = i
       \/ /\ dropLock[i] \in Ids
          /\ comp[dropLock[i]].pc \in CompInside
          /\ comp[dropLock[i]].ptr = i

\* A process that is down has no threads and no memory.
DownInv ==
  ~Up => /\ sysTables = <<>> /\ freed = {}
         /\ \A i \in Ids : dropLock[i] = NoOne /\ comp[i] = Idle
         /\ \A c \in Clients : client[c] = Idle
         /\ dump = Idle

Rest == EntriesInv /\ PointerInv /\ LockInv /\ DownInv
IInv == TypeOK /\ Rest

-----------------------------------------------------------------------------
LEMMA GenBound == Ids \subseteq Nat /\ \A i \in Ids : i <= MaxCreates
BY BoundsAssumption DEF Ids

LEMMA InitType == Init => TypeOK
<1> SUFFICES ASSUME Init PROVE TypeOK OBVIOUS
<1>1. 0 \in Ids BY BoundsAssumption DEF Ids
<1>2. Idle \in Thread(Files) /\ Idle \in Thread(Ids) /\ Idle \in Thread({})
  BY <1>1 DEF Idle, Thread, Pcs, NotLooked
<1>3. Asleep \in Thread(Ids) BY <1>1 DEF Asleep, Idle, Thread, Pcs, NotLooked
<1>4. NoDir \in Dir /\ WholeDir \in Dir BY <1>1 DEF NoDir, WholeDir, Dir
<1>5. sysTables \in Seq(Ids) BY <1>1 DEF Init
<1>6. starts \in 0 .. MaxStarts BY BoundsAssumption DEF Init
<1> QED BY <1>1, <1>2, <1>3, <1>4, <1>5, <1>6 DEF Init, TypeOK


LEMMA InitRest == Init => Rest
<1> SUFFICES ASSUME Init PROVE Rest OBVIOUS
<1>1. 0 \in Ids BY BoundsAssumption DEF Ids
<1>2. EntriesInv
  BY <1>1, GenBound DEF Init, EntriesInv, Idle, Asleep, CreatePcs
<1>3. PointerInv
  BY <1>1 DEF Init, PointerInv, First, Idle, Asleep, ClientInside, CompInside
<1>4. LockInv BY <1>1, ClientsAssumption DEF Ids, Init, LockInv, Idle, Asleep, ClientInside, CompInside
<1>5. DownInv BY DEF Init, DownInv, Up
<1> QED BY <1>2, <1>3, <1>4, <1>5 DEF Rest

-----------------------------------------------------------------------------
(* The process ends, or starts.                                            *)

LEMMA IdleTypes ==
  /\ Idle \in Thread(Files) /\ Idle \in Thread(Ids) /\ Idle \in Thread({})
  /\ Asleep \in Thread(Ids)
  /\ 0 \in Ids
<1>1. 0 \in Ids BY BoundsAssumption DEF Ids
<1> QED BY <1>1 DEF Idle, Asleep, Thread, Pcs, NotLooked

\* However it ends.
LEMMA EndsInv ==
  ASSUME IInv, NEW how \in {"killed", "raced", "unfinished", "renamed", "died"}, Ends(how)
  PROVE  IInv'
<1>1. Disturbed \in BOOLEAN BY DEF IInv, TypeOK, Disturbed
<1>2. TypeOK' BY <1>1, IdleTypes DEF IInv, TypeOK, Ends
<1>3. EntriesInv' BY DEF Ends, EntriesInv, Idle, CreatePcs
<1>4. PointerInv' BY DEF Ends, PointerInv, Idle, ClientInside, CompInside
<1>5. LockInv' BY DEF Ends, LockInv, Idle, ClientInside, CompInside
<1>6. DownInv' BY DEF Ends, DownInv, Idle
<1> QED BY <1>2, <1>3, <1>4, <1>5, <1>6 DEF IInv, Rest

LEMMA DiesInv == ASSUME IInv, NEW t, Dies(t) PROVE IInv'
BY EndsInv DEF Dies

LEMMA StartInv == ASSUME IInv, Start PROVE IInv'
<1> USE DEF IInv
<1>1. TypeOK' BY IdleTypes, BoundsAssumption DEF TypeOK, Start
<1>2. ~Up BY DEF Start, Up
<1>3. DownInv BY DEF Rest
<1>4. EntriesInv'
  BY <1>2, <1>3, IdleTypes, GenBound DEF DownInv, Start, EntriesInv, Idle, Asleep, CreatePcs,
     TypeOK
<1>5. PointerInv'
  BY <1>2, <1>3, IdleTypes
     DEF DownInv, Start, PointerInv, Idle, Asleep, ClientInside, CompInside, TypeOK
<1>6. LockInv'
  BY <1>2, <1>3, IdleTypes
     DEF DownInv, Start, LockInv, Idle, Asleep, ClientInside, CompInside, TypeOK
<1>7. DownInv' BY <1>2, <1>3, IdleTypes DEF DownInv, Start, Up
<1> QED BY <1>1, <1>4, <1>5, <1>6, <1>7 DEF Rest

-----------------------------------------------------------------------------
(* Three ways for a thread to go on, one of which is in every action.      *)

\* What a thread was and what it becomes: it is inside only if it was, by the
\* same entry, and waits for a mutex only of the first entry.
GoesOn(old, new, Within) ==
  /\ old.pc # "idle"
  /\ new.pc \in Within <=> old.pc \in Within
  /\ new.pc \in Within => new.ptr = old.ptr
  /\ new.pc = "lock" => First(new.ptr)

\* A client does something that leaves the lists and the compactors alone.
LEMMA ClientMoves ==
  ASSUME Rest, NEW c \in Clients, NEW t, client'[c] = t,
         \A d \in Clients \ {c} : client'[d] = client[d],
         \/ GoesOn(client[c], t, ClientInside)
         \/ Up /\ client[c].pc = "idle" /\ t.pc \notin ClientInside \cup {"lock"},
         t.pc \in CreatePcs => client[c].pc \in CreatePcs /\ t.ptr = client[c].ptr,
         UNCHANGED <<sysTables, freed, dropLock, comp, dump, gen, status>>
  PROVE  Rest'
<1> USE DEF Rest
<1>1. Up BY DEF DownInv, Idle, GoesOn
<1>2. EntriesInv' BY DEF EntriesInv
<1>3. PointerInv' BY DEF PointerInv, GoesOn, First, ClientInside
<1>4. LockInv'
  <2>1. \A d \in Clients : client'[d].pc \in ClientInside =>
          client[d].pc \in ClientInside /\ client'[d].ptr = client[d].ptr
    BY DEF GoesOn
  <2>2. \A d \in Clients : client[d].pc \in ClientInside =>
          client'[d].pc \in ClientInside /\ client'[d].ptr = client[d].ptr
    BY DEF GoesOn, ClientInside
  <2> QED BY <2>1, <2>2 DEF LockInv
<1>5. DownInv' BY <1>1 DEF DownInv, Up
<1> QED BY <1>2, <1>3, <1>4, <1>5

\* The same of a compactor.
LEMMA CompMoves ==
  ASSUME IInv, NEW i \in Ids, NEW t, comp'[i] = t,
         \A j \in Ids \ {i} : comp'[j] = comp[j],
         GoesOn(comp[i], t, CompInside),
         UNCHANGED <<sysTables, freed, dropLock, client, dump, gen, status>>
  PROVE  Rest'
<1> USE DEF Rest, IInv
<1>1. Up BY DEF DownInv, Idle, GoesOn
<1>2. EntriesInv'
  <2>1. \A j \in Ids : comp'[j].pc # "idle" => j <= gen BY DEF EntriesInv, GoesOn
  <2>2. \A d \in Clients : client[d].pc \in CreatePcs => comp'[client[d].ptr].pc = "idle"
    <3> SUFFICES ASSUME NEW d \in Clients, client[d].pc \in CreatePcs
                 PROVE  comp'[client[d].ptr].pc = "idle"
      OBVIOUS
    <3>1. client[d].ptr \in Ids /\ comp[client[d].ptr].pc = "idle"
      BY DEF EntriesInv, TypeOK, Thread
    <3> QED BY <3>1 DEF GoesOn
  <2> QED BY <2>1, <2>2 DEF EntriesInv
<1>3. PointerInv' BY DEF PointerInv, GoesOn, First, CompInside
<1>4. LockInv'
  <2>1. \A j \in Ids : comp'[j].pc \in CompInside =>
          comp[j].pc \in CompInside /\ comp'[j].ptr = comp[j].ptr
    BY DEF GoesOn
  <2>2. \A j \in Ids : comp[j].pc \in CompInside =>
          comp'[j].pc \in CompInside /\ comp'[j].ptr = comp[j].ptr
    BY DEF GoesOn
  <2> QED BY <2>1, <2>2 DEF LockInv
<1>5. DownInv' BY <1>1 DEF DownInv, Up
<1> QED BY <1>2, <1>3, <1>4, <1>5

\* A client takes the mutex of the entry it is to drop.
LEMMA ClientLocks ==
  ASSUME IInv, NEW c \in Clients, client[c].pc = "lock", client[c].ptr \notin freed,
         dropLock[client[c].ptr] = NoOne,
         dropLock' = [dropLock EXCEPT ![client[c].ptr] = c],
         Goto(c, "free"),
         UNCHANGED <<sysTables, freed, comp, dump, gen, status>>
  PROVE  Rest'
<1> USE DEF Rest, IInv
<1> DEFINE e == client[c].ptr
<1>1. e \in Ids BY DEF TypeOK, Thread
<1>2. Up BY DEF DownInv, Idle
<1>3. /\ client'[c].pc = "free" /\ client'[c].ptr = e
      /\ \A d \in Clients \ {c} : client'[d] = client[d]
  BY DEF TypeOK, Thread, Goto
<1>4. /\ dropLock'[e] = c
      /\ \A j \in Ids \ {e} : dropLock'[j] = dropLock[j]
  BY <1>1 DEF TypeOK
<1>5. EntriesInv' BY <1>3 DEF EntriesInv, CreatePcs
<1>6. PointerInv' BY <1>3 DEF PointerInv, First, ClientInside
<1>7. LockInv'
  <2>1. \A d \in Clients : client'[d].pc \in ClientInside /\ client'[d].ptr \notin freed' =>
          dropLock'[client'[d].ptr] = d
    <3> SUFFICES ASSUME NEW d \in Clients, d # c, client[d].pc \in ClientInside,
                        client[d].ptr \notin freed
                 PROVE  dropLock'[client[d].ptr] = d
      BY <1>3, <1>4 DEF ClientInside
    <3>1. dropLock[client[d].ptr] = d BY DEF LockInv
    <3>2. client[d].ptr # e BY <3>1, ClientsAssumption
    <3> QED BY <3>1, <3>2, <1>4 DEF TypeOK, Thread
  <2>2. \A j \in Ids : comp'[j].pc \in CompInside /\ comp'[j].ptr \notin freed' =>
          dropLock'[comp'[j].ptr] = j
    <3> SUFFICES ASSUME NEW j \in Ids, comp[j].pc \in CompInside, comp[j].ptr \notin freed
                 PROVE  dropLock'[comp[j].ptr] = j
      OBVIOUS
    <3>1. dropLock[comp[j].ptr] = j BY DEF LockInv
    <3>2. comp[j].ptr # e BY <3>1, ClientsAssumption DEF Ids
    <3> QED BY <3>1, <3>2, <1>4 DEF TypeOK, Thread
  <2>3. ASSUME NEW j \in Ids \ freed, dropLock'[j] # NoOne
        PROVE  \/ /\ dropLock'[j] \in Clients
                  /\ client'[dropLock'[j]].pc \in ClientInside
                  /\ client'[dropLock'[j]].ptr = j
               \/ /\ dropLock'[j] \in Ids
                  /\ comp'[dropLock'[j]].pc \in CompInside
                  /\ comp'[dropLock'[j]].ptr = j
    <3>1. CASE j = e BY <3>1, <1>3, <1>4 DEF ClientInside
    <3>2. CASE j # e
      <4>1. dropLock'[j] = dropLock[j] BY <3>2, <1>4
      <4>2. dropLock[j] # c BY <2>3, <3>2, <4>1, ClientsAssumption DEF LockInv, Ids
      <4> QED BY <2>3, <4>1, <4>2, <1>3 DEF LockInv
    <3> QED BY <3>1, <3>2
  <2> QED BY <2>1, <2>2, <2>3 DEF LockInv
<1>8. DownInv' BY <1>2 DEF DownInv, Up
<1> QED BY <1>5, <1>6, <1>7, <1>8

\* A compactor takes it.
LEMMA CompLocks ==
  ASSUME IInv, NEW i \in Ids, comp[i].pc = "lock", comp[i].ptr \notin freed,
         dropLock[comp[i].ptr] = NoOne,
         dropLock' = [dropLock EXCEPT ![comp[i].ptr] = i],
         comp' = [comp EXCEPT ![i].pc = "getCTime"],
         UNCHANGED <<sysTables, freed, client, dump, gen, status>>
  PROVE  Rest'
<1> USE DEF Rest, IInv
<1> DEFINE e == comp[i].ptr
<1>1. e \in Ids BY DEF TypeOK, Thread
<1>2. Up BY DEF DownInv, Idle
<1>3. /\ comp'[i].pc = "getCTime" /\ comp'[i].ptr = e
      /\ \A j \in Ids \ {i} : comp'[j] = comp[j]
  BY DEF TypeOK, Thread
<1>4. /\ dropLock'[e] = i
      /\ \A j \in Ids \ {e} : dropLock'[j] = dropLock[j]
  BY <1>1 DEF TypeOK
<1>5. EntriesInv' BY <1>3 DEF EntriesInv
<1>6. PointerInv' BY <1>3 DEF PointerInv, First, CompInside
<1>7. LockInv'
  <2>1. \A d \in Clients : client'[d].pc \in ClientInside /\ client'[d].ptr \notin freed' =>
          dropLock'[client'[d].ptr] = d
    <3> SUFFICES ASSUME NEW d \in Clients, client[d].pc \in ClientInside,
                        client[d].ptr \notin freed
                 PROVE  dropLock'[client[d].ptr] = d
      OBVIOUS
    <3>1. dropLock[client[d].ptr] = d BY DEF LockInv
    <3>2. client[d].ptr # e BY <3>1, ClientsAssumption
    <3> QED BY <3>1, <3>2, <1>4 DEF TypeOK, Thread
  <2>2. \A j \in Ids : comp'[j].pc \in CompInside /\ comp'[j].ptr \notin freed' =>
          dropLock'[comp'[j].ptr] = j
    <3> SUFFICES ASSUME NEW j \in Ids, j # i, comp[j].pc \in CompInside,
                        comp[j].ptr \notin freed
                 PROVE  dropLock'[comp[j].ptr] = j
      BY <1>3, <1>4 DEF CompInside
    <3>1. dropLock[comp[j].ptr] = j BY DEF LockInv
    <3>2. comp[j].ptr # e BY <3>1, ClientsAssumption DEF Ids
    <3> QED BY <3>1, <3>2, <1>4 DEF TypeOK, Thread
  <2>3. ASSUME NEW j \in Ids \ freed, dropLock'[j] # NoOne
        PROVE  \/ /\ dropLock'[j] \in Clients
                  /\ client'[dropLock'[j]].pc \in ClientInside
                  /\ client'[dropLock'[j]].ptr = j
               \/ /\ dropLock'[j] \in Ids
                  /\ comp'[dropLock'[j]].pc \in CompInside
                  /\ comp'[dropLock'[j]].ptr = j
    <3>1. CASE j = e BY <3>1, <1>3, <1>4 DEF CompInside
    <3>2. CASE j # e
      <4>1. dropLock'[j] = dropLock[j] BY <3>2, <1>4
      <4>2. dropLock[j] # i BY <2>3, <3>2, <4>1, ClientsAssumption DEF LockInv, Ids
      <4> QED BY <2>3, <4>1, <4>2, <1>3 DEF LockInv
    <3> QED BY <3>1, <3>2
  <2> QED BY <2>1, <2>2, <2>3 DEF LockInv
<1>8. DownInv' BY <1>2 DEF DownInv, Up
<1> QED BY <1>5, <1>6, <1>7, <1>8

\* Who is inside by an entry is the only one: a client, then a compactor.
LEMMA ClientUnlocks ==
  ASSUME IInv, NEW c \in Clients, client[c].pc = "unlock", client[c].ptr \notin freed,
         dropLock' = [dropLock EXCEPT ![client[c].ptr] = NoOne],
         Goto(c, "forget"),
         UNCHANGED <<sysTables, freed, comp, dump, gen, status>>
  PROVE  Rest'
<1> USE DEF Rest, IInv
<1> DEFINE e == client[c].ptr
<1>1. e \in Ids /\ dropLock[e] = c BY DEF TypeOK, Thread, LockInv, ClientInside
<1>2. Up BY DEF DownInv, Idle
<1>3. /\ client'[c].pc = "forget" /\ client'[c].ptr = e
      /\ \A d \in Clients \ {c} : client'[d] = client[d]
  BY DEF TypeOK, Thread, Goto
<1>4. /\ dropLock'[e] = NoOne
      /\ \A j \in Ids \ {e} : dropLock'[j] = dropLock[j]
  BY <1>1 DEF TypeOK
<1>5. EntriesInv' BY <1>3 DEF EntriesInv, CreatePcs
<1>6. PointerInv' BY <1>3 DEF PointerInv, First, ClientInside
<1>7. LockInv'
  <2>1. ASSUME NEW d \in Clients, client'[d].pc \in ClientInside, client'[d].ptr \notin freed
        PROVE  dropLock'[client'[d].ptr] = d
    <3>1. d # c /\ client'[d] = client[d] BY <2>1, <1>3 DEF ClientInside
    <3>2. dropLock[client[d].ptr] = d BY <2>1, <3>1 DEF LockInv
    <3> QED BY <3>1, <3>2, <1>1, <1>4 DEF TypeOK, Thread
  <2>2. ASSUME NEW j \in Ids, comp[j].pc \in CompInside, comp[j].ptr \notin freed
        PROVE  dropLock'[comp[j].ptr] = j
    <3>1. dropLock[comp[j].ptr] = j BY <2>2 DEF LockInv
    <3> QED BY <3>1, <1>1, <1>4, ClientsAssumption DEF TypeOK, Thread, Ids
  <2>3. ASSUME NEW j \in Ids \ freed, dropLock'[j] # NoOne
        PROVE  \/ /\ dropLock'[j] \in Clients
                  /\ client'[dropLock'[j]].pc \in ClientInside
                  /\ client'[dropLock'[j]].ptr = j
               \/ /\ dropLock'[j] \in Ids
                  /\ comp[dropLock'[j]].pc \in CompInside
                  /\ comp[dropLock'[j]].ptr = j
    <3>1. j # e /\ dropLock'[j] = dropLock[j] BY <2>3, <1>4
    <3>2. dropLock[j] # c BY <2>3, <3>1, ClientsAssumption DEF LockInv, Ids
    <3> QED BY <2>3, <3>1, <3>2, <1>3 DEF LockInv
  <2> QED BY <2>1, <2>2, <2>3 DEF LockInv
<1>8. DownInv' BY <1>2 DEF DownInv, Up
<1> QED BY <1>5, <1>6, <1>7, <1>8

\* The same when it is a compactor.
LEMMA CompUnlocks ==
  ASSUME IInv, NEW i \in Ids, comp[i].pc = "unlock", comp[i].ptr \notin freed,
         dropLock' = [dropLock EXCEPT ![comp[i].ptr] = NoOne],
         comp' = [comp EXCEPT ![i] = Asleep],
         UNCHANGED <<sysTables, freed, client, dump, gen, status>>
  PROVE  Rest'
<1> USE DEF Rest, IInv
<1> DEFINE e == comp[i].ptr
<1>1. e \in Ids /\ dropLock[e] = i BY DEF TypeOK, Thread, LockInv, CompInside
<1>2. Up BY DEF DownInv, Idle
<1>3. /\ comp'[i].pc = "asleep"
      /\ \A j \in Ids \ {i} : comp'[j] = comp[j]
  BY DEF TypeOK, Asleep
<1>4. /\ dropLock'[e] = NoOne
      /\ \A j \in Ids \ {e} : dropLock'[j] = dropLock[j]
  BY <1>1 DEF TypeOK
<1>5. EntriesInv' BY <1>3 DEF EntriesInv
<1>6. PointerInv' BY <1>3 DEF PointerInv, First, CompInside
<1>7. LockInv'
  <2>1. ASSUME NEW d \in Clients, client[d].pc \in ClientInside, client[d].ptr \notin freed
        PROVE  dropLock'[client[d].ptr] = d
    <3>1. dropLock[client[d].ptr] = d BY <2>1 DEF LockInv
    <3> QED BY <3>1, <1>1, <1>4, ClientsAssumption DEF TypeOK, Thread, Ids
  <2>2. ASSUME NEW j \in Ids, comp'[j].pc \in CompInside, comp'[j].ptr \notin freed
        PROVE  dropLock'[comp'[j].ptr] = j
    <3>1. j # i /\ comp'[j] = comp[j] BY <2>2, <1>3 DEF CompInside
    <3>2. dropLock[comp[j].ptr] = j BY <2>2, <3>1 DEF LockInv
    <3> QED BY <3>1, <3>2, <1>1, <1>4 DEF TypeOK, Thread
  <2>3. ASSUME NEW j \in Ids \ freed, dropLock'[j] # NoOne
        PROVE  \/ /\ dropLock'[j] \in Clients
                  /\ client[dropLock'[j]].pc \in ClientInside
                  /\ client[dropLock'[j]].ptr = j
               \/ /\ dropLock'[j] \in Ids
                  /\ comp'[dropLock'[j]].pc \in CompInside
                  /\ comp'[dropLock'[j]].ptr = j
    <3>1. j # e /\ dropLock'[j] = dropLock[j] BY <2>3, <1>4
    <3>2. dropLock[j] # i BY <2>3, <3>1, ClientsAssumption DEF LockInv, Ids
    <3> QED BY <2>3, <3>1, <3>2, <1>3 DEF LockInv
  <2> QED BY <2>1, <2>2, <2>3 DEF LockInv
<1>8. DownInv' BY <1>2 DEF DownInv, Up
<1> QED BY <1>5, <1>6, <1>7, <1>8

-----------------------------------------------------------------------------
(* The list of tables changes, or an update begins.                        *)

\* addToActiveTables: the number of the entry is in no list yet.
LEMMA AddInv == ASSUME IInv, NEW c \in Clients, AddToActiveTables(c) PROVE Rest'
<1> USE DEF Rest, IInv
<1> DEFINE e == client[c].ptr
<1>1. /\ e \in Ids /\ client[c].pc \in CreatePcs /\ sysTables \in Seq(Ids)
      /\ sysTables' = Append(sysTables, e)
  BY DEF AddToActiveTables, TypeOK, Thread, CreatePcs
<1>2. Up BY DEF DownInv, Idle, AddToActiveTables
<1>3. /\ client'[c].pc = "idle" /\ comp'[e].pc = "asleep" /\ comp[e].pc = "idle"
      /\ \A d \in Clients \ {c} : client'[d] = client[d]
      /\ \A j \in Ids \ {e} : comp'[j] = comp[j]
  BY <1>1 DEF TypeOK, AddToActiveTables, Done, Idle, Asleep, EntriesInv
<1>4. UNCHANGED <<freed, dropLock, dump, gen, status>>
  BY DEF AddToActiveTables, process
<1>5. EntriesInv'
  <2>1. /\ e <= gen /\ e \notin freed
        /\ \A n \in DOMAIN sysTables : sysTables[n] # e
        /\ \A d \in Clients \ {c} : client[d].pc \in CreatePcs => client[d].ptr # e
    BY <1>1 DEF EntriesInv
  <2>2. /\ DOMAIN sysTables' = DOMAIN sysTables \cup {Len(sysTables) + 1}
        /\ \A n \in DOMAIN sysTables : sysTables'[n] = sysTables[n]
        /\ sysTables'[Len(sysTables) + 1] = e
    BY <1>1
  <2>3. \A m, n \in DOMAIN sysTables' : sysTables'[m] = sysTables'[n] => m = n
    BY <2>1, <2>2 DEF EntriesInv
  <2>4. \A n \in DOMAIN sysTables' : sysTables'[n] <= gen'
    BY <2>1, <2>2, <1>4 DEF EntriesInv
  <2>5. \A i \in freed' : i <= gen' BY <1>4 DEF EntriesInv
  <2>6. \A i \in Ids : comp'[i].pc # "idle" => i <= gen' BY <2>1, <1>3, <1>4 DEF EntriesInv
  <2>7. ASSUME NEW d \in Clients, client'[d].pc \in CreatePcs
        PROVE  /\ client'[d].ptr <= gen' /\ client'[d].ptr \notin freed'
               /\ comp'[client'[d].ptr].pc = "idle"
               /\ \A n \in DOMAIN sysTables' : sysTables'[n] # client'[d].ptr
               /\ \A x \in Clients \ {d} : client'[x].pc \in CreatePcs =>
                                            client'[x].ptr # client'[d].ptr
    <3>1. d # c /\ client'[d] = client[d] BY <2>7, <1>3 DEF CreatePcs
    <3>2. client[d].ptr # e /\ client[d].ptr \in Ids BY <3>1, <2>1, <2>7 DEF TypeOK, Thread
    <3>3. comp'[client'[d].ptr].pc = "idle" BY <3>1, <3>2, <2>7, <1>3 DEF EntriesInv
    <3>4. \A n \in DOMAIN sysTables' : sysTables'[n] # client'[d].ptr
      BY <3>1, <3>2, <2>2, <2>7 DEF EntriesInv
    <3>5. \A x \in Clients \ {d} : client'[x].pc \in CreatePcs => client'[x].ptr # client'[d].ptr
      BY <3>1, <2>7, <1>3 DEF EntriesInv, CreatePcs
    <3> QED BY <3>1, <3>3, <3>4, <3>5, <2>7, <1>4 DEF EntriesInv
  <2> QED BY <2>3, <2>4, <2>5, <2>6, <2>7 DEF EntriesInv
<1>6. PointerInv'
  <2>1. \A i : First(i) => First(i)' BY <1>1, <1>4 DEF First
  <2> QED BY <2>1, <1>3 DEF PointerInv, ClientInside, CompInside
<1>7. LockInv' BY <1>1, <1>3, <1>4 DEF LockInv, ClientInside, CompInside, CreatePcs
<1>8. DownInv' BY <1>2, <1>4 DEF DownInv, Up
<1> QED BY <1>5, <1>6, <1>7, <1>8

\* deleteTableFromMemory: who had a pointer to the first entry now has one to a
\* freed one.
LEMMA ForgetInv == ASSUME IInv, NEW c \in Clients, DeleteTableFromMemory(c) PROVE Rest'
<1> USE DEF Rest, IInv
<1>1. Up BY DEF DownInv, Idle, DeleteTableFromMemory
<1>2. /\ client[c].pc = "forget" /\ client'[c].pc = "idle"
      /\ \A d \in Clients \ {c} : client'[d] = client[d]
  BY DEF TypeOK, DeleteTableFromMemory, Done, Idle
<1>3. UNCHANGED <<comp, dropLock, dump, gen, status>>
  BY DEF DeleteTableFromMemory, process
<1>4. CASE sysTables = <<>>
  <2>1. UNCHANGED <<sysTables, freed>> BY <1>4 DEF DeleteTableFromMemory
  <2>2. EntriesInv' BY <2>1, <1>2, <1>3 DEF EntriesInv, CreatePcs
  <2>3. PointerInv' BY <2>1, <1>2, <1>3 DEF PointerInv, First, ClientInside
  <2>4. LockInv' BY <2>1, <1>2, <1>3 DEF LockInv, ClientInside
  <2>5. DownInv' BY <1>1, <1>3 DEF DownInv, Up
  <2> QED BY <2>2, <2>3, <2>4, <2>5
<1>5. CASE sysTables # <<>>
  <2>1. sysTables' = Tail(sysTables) /\ freed' = freed \cup {Head(sysTables)}
    BY <1>5 DEF DeleteTableFromMemory
  <2>2. sysTables \in Seq(Ids) BY DEF TypeOK
  <2>3. /\ Head(sysTables) = sysTables[1] /\ 1 \in DOMAIN sysTables
        /\ \A n \in DOMAIN sysTables' :
             n + 1 \in DOMAIN sysTables /\ sysTables'[n] = sysTables[n + 1] /\ n \in Nat \ {0}
    BY <1>5, <2>1, <2>2
  <2>4. EntriesInv'
    <3>1. \A m, n \in DOMAIN sysTables' : sysTables'[m] = sysTables'[n] => m = n
      <4> SUFFICES ASSUME NEW m \in DOMAIN sysTables', NEW n \in DOMAIN sysTables',
                          sysTables'[m] = sysTables'[n]
                   PROVE  m = n
        OBVIOUS
      <4>1. m + 1 = n + 1 BY <2>3 DEF EntriesInv
      <4> QED BY <4>1, <2>3
    <3>2. \A n \in DOMAIN sysTables' : sysTables'[n] <= gen' BY <2>3, <1>3 DEF EntriesInv
    <3>3. \A i \in freed' : i <= gen' BY <2>1, <2>3, <1>3 DEF EntriesInv
    <3>4. \A i \in Ids : comp'[i].pc # "idle" => i <= gen' BY <1>3 DEF EntriesInv
    <3>5. ASSUME NEW d \in Clients, client'[d].pc \in CreatePcs
          PROVE  /\ client'[d].ptr <= gen' /\ client'[d].ptr \notin freed'
                 /\ comp'[client'[d].ptr].pc = "idle"
                 /\ \A n \in DOMAIN sysTables' : sysTables'[n] # client'[d].ptr
                 /\ \A x \in Clients \ {d} : client'[x].pc \in CreatePcs =>
                                              client'[x].ptr # client'[d].ptr
      <4>1. d # c /\ client'[d] = client[d] BY <3>5, <1>2 DEF CreatePcs
      <4>2. client'[d].ptr \notin freed' BY <4>1, <3>5, <2>1, <2>3 DEF EntriesInv
      <4>3. \A n \in DOMAIN sysTables' : sysTables'[n] # client'[d].ptr
        BY <4>1, <3>5, <2>3 DEF EntriesInv
      <4>4. \A x \in Clients \ {d} : client'[x].pc \in CreatePcs =>
                                      client'[x].ptr # client'[d].ptr
        BY <4>1, <3>5, <1>2 DEF EntriesInv, CreatePcs
      <4> QED BY <4>1, <4>2, <4>3, <4>4, <3>5, <1>3 DEF EntriesInv
    <3> QED BY <3>1, <3>2, <3>3, <3>4, <3>5 DEF EntriesInv
  <2>5. PointerInv'
    <3>1. \A i : First(i) => First(i)' BY <2>1 DEF First
    <3> QED BY <3>1, <1>2, <1>3 DEF PointerInv, ClientInside
  <2>6. LockInv' BY <2>1, <1>2, <1>3 DEF LockInv, ClientInside
  <2>7. DownInv' BY <1>1, <1>3 DEF DownInv, Up
  <2> QED BY <2>4, <2>5, <2>6, <2>7
<1> QED BY <1>4, <1>5

\* A CREATE or a DROP begins: the others only learn of it.
LEMMA BeginInv ==
  ASSUME IInv, NEW c \in Clients, BeginCreate(c) \/ BeginDrop(c)
  PROVE  Rest'
<1> USE DEF Rest, IInv
<1>1. /\ client[c].pc = "idle" /\ Up /\ gen \in Nat /\ gen' \in Nat /\ gen <= gen'
      /\ UNCHANGED <<sysTables, freed, dropLock, status>>
  BY GenBound DEF BeginCreate, BeginDrop, Ready, Calm, lists, process, TypeOK, Ids
<1>2. /\ \A d \in Clients \ {c} : client'[d].pc = client[d].pc /\ client'[d].ptr = client[d].ptr
      /\ \A i \in Ids : comp'[i].pc = comp[i].pc /\ comp'[i].ptr = comp[i].ptr
  BY DEF BeginCreate, BeginDrop, BeginUpdate, Overtaken, TypeOK, Thread
<1>3. \/ client'[c].pc = "mkdir" /\ client'[c].ptr = gen + 1 /\ gen' = gen + 1 /\ gen' \in Ids
      \/ client'[c].pc = "entry" /\ gen' = gen
  <2>1. CASE BeginCreate(c)
    BY <2>1, <1>1, BoundsAssumption DEF BeginCreate, BeginUpdate, Looking, Ids
  <2>2. CASE BeginDrop(c) BY <2>2 DEF BeginDrop, BeginUpdate, Looking, process
  <2> QED BY <2>1, <2>2
<1>4. EntriesInv'
  <2>1. /\ \A m, n \in DOMAIN sysTables' : sysTables'[m] = sysTables'[n] => m = n
        /\ \A n \in DOMAIN sysTables' : sysTables'[n] <= gen'
    <3>1. \A n \in DOMAIN sysTables : sysTables[n] \in Nat
      <4>1. \A n \in DOMAIN sysTables : sysTables[n] \in Ids
        <5>1. sysTables \in Seq(Ids) BY DEF TypeOK
        <5> QED BY <5>1
      <4> QED BY <4>1, GenBound
    <3>2. /\ \A m, n \in DOMAIN sysTables : sysTables[m] = sysTables[n] => m = n
          /\ \A n \in DOMAIN sysTables : sysTables[n] <= gen
      BY DEF EntriesInv
    <3>3. ASSUME NEW n \in DOMAIN sysTables PROVE sysTables[n] <= gen'
      <4>1. sysTables[n] \in Nat /\ sysTables[n] <= gen BY <3>1, <3>2
      <4> QED BY <4>1, <1>1
    <3> QED BY <3>2, <3>3, <1>1
  <2>2. \A i \in freed' : i <= gen' BY <1>1, GenBound DEF EntriesInv, TypeOK
  <2>3. \A i \in Ids : comp'[i].pc # "idle" => i <= gen' BY <1>1, <1>2, GenBound DEF EntriesInv
  <2>4. ASSUME NEW d \in Clients, client'[d].pc \in CreatePcs
        PROVE  /\ client'[d].ptr <= gen' /\ client'[d].ptr \notin freed'
               /\ comp'[client'[d].ptr].pc = "idle"
               /\ \A n \in DOMAIN sysTables' : sysTables'[n] # client'[d].ptr
               /\ \A x \in Clients \ {d} : client'[x].pc \in CreatePcs =>
                                            client'[x].ptr # client'[d].ptr
    <3>1. \A x \in Clients \ {c} : client'[x].pc \in CreatePcs =>
            client[x].ptr \in Nat /\ client[x].ptr <= gen /\ client'[x].ptr = client[x].ptr
      BY <1>2, GenBound DEF EntriesInv, TypeOK, Thread
    <3>2. CASE d = c
      <4>1. client'[d].ptr = gen + 1 /\ gen' = gen + 1 /\ gen' \in Ids
        BY <2>4, <3>2, <1>3 DEF CreatePcs
      <4>2. client'[d].ptr \notin freed' BY <4>1, <1>1, GenBound DEF EntriesInv, TypeOK
      <4>3. comp'[client'[d].ptr].pc = "idle" BY <4>1, <1>1, <1>2 DEF EntriesInv
      <4>4. \A n \in DOMAIN sysTables' : sysTables'[n] # client'[d].ptr
        BY <4>1, <1>1 DEF EntriesInv
      <4>5. \A x \in Clients \ {d} : client'[x].pc \in CreatePcs =>
                                      client'[x].ptr # client'[d].ptr
        BY <4>1, <3>1, <3>2, <1>1
      <4> QED BY <4>1, <4>2, <4>3, <4>4, <4>5, <1>1
    <3>3. CASE d # c
      <4>1. client[d].pc \in CreatePcs /\ client'[d].ptr = client[d].ptr BY <2>4, <3>3, <1>2
      <4>2. client'[d].ptr \in Nat /\ client'[d].ptr <= gen BY <2>4, <3>1, <3>3
      <4>3. client'[d].ptr <= gen' BY <4>2, <1>1
      <4>4. client'[d].ptr \notin freed' /\ comp'[client'[d].ptr].pc = "idle"
        <5>1. client[d].ptr \in Ids BY DEF TypeOK, Thread
        <5>2. client[d].ptr \notin freed /\ comp[client[d].ptr].pc = "idle"
          BY <4>1 DEF EntriesInv
        <5> QED BY <4>1, <5>1, <5>2, <1>1, <1>2
      <4>5. \A n \in DOMAIN sysTables' : sysTables'[n] # client'[d].ptr
        BY <4>1, <1>1 DEF EntriesInv
      <4>6. \A x \in Clients \ {d} : client'[x].pc \in CreatePcs =>
                                      client'[x].ptr # client'[d].ptr
        BY <4>1, <4>2, <1>1, <1>2, <1>3 DEF EntriesInv, CreatePcs
      <4> QED BY <4>3, <4>4, <4>5, <4>6
    <3> QED BY <3>2, <3>3
  <2> QED BY <2>1, <2>2, <2>3, <2>4 DEF EntriesInv
<1>5. PointerInv' BY <1>1, <1>2, <1>3 DEF PointerInv, First, ClientInside
<1>6. LockInv'
  <2>1. \A d \in Clients : client'[d].pc \in ClientInside => d # c
    BY <1>3 DEF ClientInside
  <2>2. \A d \in Clients : client[d].pc \in ClientInside => d # c
    BY <1>1 DEF ClientInside
  <2>3. \A d \in Clients : client'[d].pc \in ClientInside /\ client'[d].ptr \notin freed' =>
          dropLock'[client'[d].ptr] = d
    BY <1>1, <1>2, <2>1 DEF LockInv
  <2>4. \A i \in Ids : comp'[i].pc \in CompInside /\ comp'[i].ptr \notin freed' =>
          dropLock'[comp'[i].ptr] = i
    BY <1>1, <1>2 DEF LockInv
  <2>5. ASSUME NEW i \in Ids \ freed', dropLock'[i] # NoOne
        PROVE  \/ /\ dropLock'[i] \in Clients
                  /\ client'[dropLock'[i]].pc \in ClientInside
                  /\ client'[dropLock'[i]].ptr = i
               \/ /\ dropLock'[i] \in Ids
                  /\ comp'[dropLock'[i]].pc \in CompInside
                  /\ comp'[dropLock'[i]].ptr = i
    <3>1. i \in Ids \ freed /\ dropLock[i] # NoOne /\ dropLock'[i] = dropLock[i]
      BY <2>5, <1>1
    <3>2. CASE dropLock[i] \in Clients BY <3>1, <3>2, <1>2, <2>2, ClientsAssumption DEF LockInv, Ids
    <3>3. CASE dropLock[i] \notin Clients BY <3>1, <3>3, <1>2 DEF LockInv
    <3> QED BY <3>2, <3>3
  <2> QED BY <2>3, <2>4, <2>5 DEF LockInv
<1>7. DownInv' BY <1>1 DEF DownInv, Up
<1> QED BY <1>4, <1>5, <1>6, <1>7

-----------------------------------------------------------------------------
(* Types, for the steps in which no thread dies.                           *)

\* The directory and one thread change, the list of tables does not.
LEMMA TypesOfASmallStep ==
  ASSUME TypeOK, dir' \in Dir, client' \in [Clients -> Thread(Files)],
         comp' \in [Ids -> Thread(Ids)], dump' \in Thread({}),
         memtable' \subseteq Ids, carried' \subseteq Ids,
         dropLock' \in [Ids -> Clients \cup Ids \cup {NoOne}],
         UNCHANGED <<sysTables, freed, process, collided>>
  PROVE  TypeOK'
BY DEF TypeOK, process

\* A client goes somewhere, and to an entry.
LEMMA ClientGoes ==
  ASSUME TypeOK, NEW c \in Clients, NEW label \in Pcs, NEW i \in Ids, NEW todo \in SUBSET Files
  PROVE  /\ [client EXCEPT ![c].pc = label] \in [Clients -> Thread(Files)]
         /\ [client EXCEPT ![c].pc = label, ![c].ptr = i] \in [Clients -> Thread(Files)]
         /\ [client EXCEPT ![c].pc = label, ![c].todo = todo] \in [Clients -> Thread(Files)]
         /\ [client EXCEPT ![c].todo = todo] \in [Clients -> Thread(Files)]
         /\ [client EXCEPT ![c] = Idle] \in [Clients -> Thread(Files)]
         /\ [client EXCEPT ![c] = Looking(label, i)] \in [Clients -> Thread(Files)]
<1>1. Disturbed \in BOOLEAN BY DEF TypeOK, Disturbed
<1>2. Looking(label, i) \in Thread(Files) BY <1>1 DEF Looking, Thread
<1> QED BY <1>2, IdleTypes DEF TypeOK, Thread

\* A step of CREATE in the directory.
LEMMA OnDirectoryTypes ==
  ASSUME TypeOK, NEW c \in Clients, NEW d \in Dir, NEW label \in Pcs, OnDirectory(c, d, label)
  PROVE  TypeOK'
<1>1. client' \in [Clients -> Thread(Files)]
  BY ClientGoes, IdleTypes DEF OnDirectory, Goto
<1> QED BY <1>1, TypesOfASmallStep DEF OnDirectory, TypeOK, lists, history

LEMMA CreateTypes ==
  ASSUME TypeOK, NEW c \in Clients,
         \/ MakeDirectories(c)
         \/ dir.made /\ (MakeFiles(c) \/ MakeMetadataFile(c) \/ LoadPartitionsFiles(c) \/ LoadMetadata(c))
  PROVE  TypeOK'
<1>1. dir \in Dir BY DEF TypeOK
<1>2. {"parts", "metadata", "blocks", "load", "add"} \subseteq Pcs BY DEF Pcs, CreatePcs
<1>3. CASE MakeDirectories(c)
  <2>1. [dir EXCEPT !.made = TRUE] \in Dir BY <1>1 DEF Dir
  <2> QED BY <1>2, <1>3, <2>1, OnDirectoryTypes DEF MakeDirectories
<1>4. CASE dir.made /\ MakeFiles(c)
  <2>1. [dir EXCEPT !.bin = "raw", !.part = {}] \in Dir BY <1>1 DEF Dir
  <2> QED BY <1>2, <1>4, <2>1, OnDirectoryTypes DEF MakeFiles
<1>5. CASE dir.made /\ MakeMetadataFile(c)
  <2>1. [dir EXCEPT !.meta = "empty"] \in Dir BY <1>1 DEF Dir
  <2> QED BY <1>2, <1>5, <2>1, OnDirectoryTypes DEF MakeMetadataFile
<1>6. CASE dir.made /\ LoadPartitionsFiles(c)
  <2>1. [dir EXCEPT !.bin = "ready"] \in Dir BY <1>1 DEF Dir
  <2> QED BY <1>2, <1>6, <2>1, OnDirectoryTypes DEF LoadPartitionsFiles
<1>7. CASE dir.made /\ LoadMetadata(c)
  <2>1. [dir EXCEPT !.meta = "full"] \in Dir BY <1>1 DEF Dir
  <2> QED BY <1>2, <1>7, <2>1, OnDirectoryTypes DEF LoadMetadata
<1> QED BY <1>3, <1>4, <1>5, <1>6, <1>7

-----------------------------------------------------------------------------
(* Each step keeps the invariant.                                          *)

LEMMA CreateInv == ASSUME IInv, NEW c \in Clients, CreateStep(c) PROVE IInv'
<1> USE DEF IInv
<1>1. CASE ~dir.made /\ (MakeFiles(c) \/ MakeMetadataFile(c) \/ LoadPartitionsFiles(c) \/ LoadMetadata(c))
  BY <1>1, DiesInv DEF MakeFiles, MakeMetadataFile, LoadPartitionsFiles, LoadMetadata
<1>2. CASE \/ MakeDirectories(c)
           \/ dir.made /\ (MakeFiles(c) \/ MakeMetadataFile(c) \/ LoadPartitionsFiles(c) \/ LoadMetadata(c))
  <2>1. TypeOK' BY <1>2, CreateTypes
  <2>2. PICK label \in CreatePcs : Goto(c, label)
    BY <1>2 DEF MakeDirectories, MakeFiles, MakeMetadataFile, LoadPartitionsFiles, LoadMetadata,
                OnDirectory, CreatePcs
  <2>3. /\ client[c].pc \in CreatePcs
        /\ UNCHANGED <<sysTables, freed, dropLock, comp, dump, gen, status>>
    BY <1>2 DEF MakeDirectories, MakeFiles, MakeMetadataFile, LoadPartitionsFiles, LoadMetadata,
                OnDirectory, CreatePcs, lists, process
  <2>4. /\ client'[c].pc = label /\ client'[c].ptr = client[c].ptr
        /\ \A d \in Clients \ {c} : client'[d] = client[d]
    BY <2>2 DEF Goto, TypeOK, Thread
  <2>5. GoesOn(client[c], client'[c], ClientInside)
    BY <2>3, <2>4 DEF GoesOn, CreatePcs, ClientInside
  <2> QED BY <2>1, <2>3, <2>4, <2>5, ClientMoves
<1>3. CASE AddToActiveTables(c)
  <2>1. /\ Done(c) /\ sysTables' = Append(sysTables, client[c].ptr)
        /\ comp' = [comp EXCEPT ![client[c].ptr] = Asleep]
        /\ client[c].pc = "add"
        /\ UNCHANGED <<dir, memtable, freed, dropLock, dump, process, history>>
    BY <1>3 DEF AddToActiveTables
  <2>2. client' \in [Clients -> Thread(Files)] BY <2>1, IdleTypes DEF Done, TypeOK
  <2>3. client[c].ptr \in Ids BY DEF TypeOK, Thread
  <2>4. comp' \in [Ids -> Thread(Ids)] BY <2>1, <2>3, IdleTypes DEF TypeOK
  <2>5. sysTables' \in Seq(Ids) BY <2>1, <2>3 DEF TypeOK
  <2>6. \A i \in freed' : i \in Ids /\ \A n \in DOMAIN sysTables' : sysTables'[n] # i
    <3>1. client[c].ptr \notin freed BY <2>1 DEF Rest, EntriesInv, CreatePcs
    <3> QED BY <2>1, <2>3, <3>1 DEF TypeOK
  <2>7. TypeOK' BY <2>1, <2>2, <2>4, <2>5, <2>6 DEF TypeOK, process, history
  <2> QED BY <2>7, <1>3, AddInv
<1> QED BY <1>1, <1>2, <1>3 DEF CreateStep, MakeFiles, MakeMetadataFile, LoadPartitionsFiles, LoadMetadata

LEMMA DropInv == ASSUME IInv, NEW c \in Clients, DropStep(c) PROVE IInv'
<1> USE DEF IInv
<1> DEFINE OthersStay == \A d \in Clients \ {c} : client'[d] = client[d]
<1>1. DropPcs \subseteq Pcs BY DEF Pcs
<1>2. client[c].ptr \in Ids /\ client[c].todo \subseteq Files /\ dir \in Dir BY DEF TypeOK, Thread
<1>3. CASE EntryToDrop(c)
  <2>1. CASE sysTables = <<>> BY <1>3, <2>1, DiesInv DEF EntryToDrop, FindEntry
  <2>2. CASE sysTables # <<>>
    <3>1. Head(sysTables) \in Ids BY <2>2 DEF TypeOK
    <3>2. /\ client[c].pc = "entry"
          /\ client' = [client EXCEPT ![c].pc = "lock", ![c].ptr = Head(sysTables)]
          /\ UNCHANGED <<dir, lists, comp, dump, process, history>>
      BY <1>3, <2>2 DEF EntryToDrop, FindEntry
    <3>3. "lock" \in Pcs /\ {} \in SUBSET Files BY <1>1 DEF DropPcs
    <3>4. client' \in [Clients -> Thread(Files)] BY <3>1, <3>2, <3>3, ClientGoes
    <3>5. TypeOK' BY <3>2, <3>4, TypesOfASmallStep DEF TypeOK, lists, history
    <3>6. /\ client'[c].pc = "lock" /\ client'[c].ptr = Head(sysTables) /\ OthersStay
      BY <3>2 DEF TypeOK, Thread
    <3>7. GoesOn(client[c], client'[c], ClientInside)
      BY <3>2, <3>6, <2>2 DEF GoesOn, First, ClientInside
    <3> QED BY <3>2, <3>5, <3>6, <3>7, ClientMoves DEF lists, process, CreatePcs
  <2> QED BY <2>1, <2>2
<1>4. CASE LockToDrop(c)
  <2>1. CASE client[c].ptr \in freed BY <1>4, <2>1, DiesInv DEF LockToDrop, LockEntry
  <2>2. CASE client[c].ptr \notin freed
    <3>1. /\ client[c].pc = "lock" /\ dropLock[client[c].ptr] = NoOne
          /\ dropLock' = [dropLock EXCEPT ![client[c].ptr] = c]
          /\ Goto(c, "free")
          /\ UNCHANGED <<dir, memtable, sysTables, freed, comp, dump, process, history>>
      BY <1>4, <2>2 DEF LockToDrop, LockEntry
    <3>2. client' \in [Clients -> Thread(Files)] BY <3>1, <1>1, <1>2, ClientGoes DEF Goto, DropPcs
    <3>3. dropLock' \in [Ids -> Clients \cup Ids \cup {NoOne}] BY <3>1, <1>2 DEF TypeOK
    <3>4. TypeOK' BY <3>1, <3>2, <3>3, TypesOfASmallStep DEF TypeOK, history
    <3> QED BY <3>1, <3>4, <2>2, ClientLocks DEF process
  <2> QED BY <2>1, <2>2
<1>5. CASE FreeBlocks(c)
  <2>1. CASE dir.raw BY <1>5, <2>1, EndsInv DEF FreeBlocks
  <2>2. CASE ~dir.raw /\ (~dir.made \/ dir.bin = "raw") BY <1>5, <2>2, DiesInv DEF FreeBlocks
  <2>3. CASE ~(dir.raw \/ ~dir.made \/ dir.bin = "raw")
    <3>1. /\ client[c].pc = "free"
          /\ dir' = [dir EXCEPT !.tmp = {}, !.tmpc = {}, !.part = {}]
          /\ carried' = carried \cup memtable
          /\ client' = [client EXCEPT ![c].pc = "unlink", ![c].todo = There]
          /\ UNCHANGED <<lists, comp, dump, process, collided>>
      BY <1>5, <2>3 DEF FreeBlocks
    <3>2. There \in SUBSET Files BY DEF There
    <3>3. client' \in [Clients -> Thread(Files)] BY <3>1, <3>2, <1>1, <1>2, ClientGoes DEF DropPcs
    <3>4. dir' \in Dir BY <3>1, <1>2 DEF Dir
    <3>5. TypeOK' BY <3>1, <3>3, <3>4, TypesOfASmallStep DEF TypeOK, lists
    <3>6. client'[c].pc = "unlink" /\ client'[c].ptr = client[c].ptr /\ OthersStay
      BY <3>1 DEF TypeOK, Thread
    <3>7. GoesOn(client[c], client'[c], ClientInside) BY <3>1, <3>6 DEF GoesOn, ClientInside
    <3> QED BY <3>1, <3>5, <3>6, <3>7, ClientMoves DEF lists, process, CreatePcs
  <2> QED BY <2>1, <2>2, <2>3
<1>6. CASE Unlink(c)
  <2>1. /\ client[c].pc = "unlink"
        /\ UNCHANGED <<lists, comp, dump, process, history>>
    BY <1>6 DEF Unlink
  <2>2. PICK f \in client[c].todo : /\ dir' = Without(f)
                                   /\ client' = [client EXCEPT ![c].todo = @ \ {f}]
    BY <1>6 DEF Unlink
  <2>3. client' \in [Clients -> Thread(Files)] BY <2>2, <1>2 DEF TypeOK, Thread
  <2>4. dir' \in Dir BY <2>2, <1>2 DEF Dir, Without
  <2>5. TypeOK' BY <2>1, <2>3, <2>4, TypesOfASmallStep DEF TypeOK, lists, history
  <2>6. client'[c].pc = "unlink" /\ client'[c].ptr = client[c].ptr /\ OthersStay
    BY <2>1, <2>2 DEF TypeOK, Thread
  <2>7. GoesOn(client[c], client'[c], ClientInside) BY <2>1, <2>6 DEF GoesOn, ClientInside
  <2> QED BY <2>1, <2>5, <2>6, <2>7, ClientMoves DEF lists, process, CreatePcs
<1>7. CASE RemoveDirectory(c)
  <2>1. PICK made \in BOOLEAN : OnDirectory(c, [dir EXCEPT !.made = made], "unlock")
    BY <1>7, <1>2 DEF RemoveDirectory, Dir
  <2>2. [dir EXCEPT !.made = made] \in Dir BY <1>2 DEF Dir
  <2>3. TypeOK' BY <2>1, <2>2, <1>1, OnDirectoryTypes DEF DropPcs
  <2>4. client[c].pc = "unlink" /\ Goto(c, "unlock")
        /\ UNCHANGED <<lists, comp, dump, process, history>>
    BY <1>7, <2>1 DEF RemoveDirectory, OnDirectory
  <2>5. client'[c].pc = "unlock" /\ client'[c].ptr = client[c].ptr /\ OthersStay
    BY <2>4 DEF TypeOK, Thread, Goto
  <2>6. GoesOn(client[c], client'[c], ClientInside) BY <2>4, <2>5 DEF GoesOn, ClientInside
  <2> QED BY <2>3, <2>4, <2>5, <2>6, ClientMoves DEF lists, process, CreatePcs
<1>8. CASE UnlockDropped(c)
  <2>1. CASE client[c].ptr \in freed BY <1>8, <2>1, DiesInv DEF UnlockDropped
  <2>2. CASE client[c].ptr \notin freed
    <3>1. /\ client[c].pc = "unlock"
          /\ dropLock' = [dropLock EXCEPT ![client[c].ptr] = NoOne]
          /\ Goto(c, "forget")
          /\ UNCHANGED <<dir, memtable, sysTables, freed, comp, dump, process, history>>
      BY <1>8, <2>2 DEF UnlockDropped
    <3>2. client' \in [Clients -> Thread(Files)] BY <3>1, <1>1, <1>2, ClientGoes DEF Goto, DropPcs
    <3>3. dropLock' \in [Ids -> Clients \cup Ids \cup {NoOne}] BY <3>1, <1>2 DEF TypeOK
    <3>4. TypeOK' BY <3>1, <3>2, <3>3, TypesOfASmallStep DEF TypeOK, history
    <3> QED BY <3>1, <3>4, <2>2, ClientUnlocks DEF process
  <2> QED BY <2>1, <2>2
<1>9. CASE DeleteTableFromMemory(c)
  <2>1. /\ Done(c)
        /\ UNCHANGED <<dir, memtable, dropLock, comp, dump, process, history>>
    BY <1>9 DEF DeleteTableFromMemory
  <2>2. client' \in [Clients -> Thread(Files)] BY <2>1, IdleTypes DEF Done, TypeOK
  <2>3. sysTables' \in Seq(Ids) /\ \A i \in freed' : i \in Ids /\ \A n \in DOMAIN sysTables' : sysTables'[n] # i
    <3>1. CASE sysTables = <<>> BY <1>9, <3>1 DEF DeleteTableFromMemory, TypeOK
    <3>2. CASE sysTables # <<>>
      <4>1. sysTables' = Tail(sysTables) /\ freed' = freed \cup {Head(sysTables)}
        BY <1>9, <3>2 DEF DeleteTableFromMemory
      <4>2. /\ sysTables \in Seq(Ids) /\ sysTables' \in Seq(Ids)
            /\ Head(sysTables) = sysTables[1] /\ 1 \in DOMAIN sysTables /\ sysTables[1] \in Ids
            /\ \A n \in DOMAIN sysTables' :
                 n + 1 \in DOMAIN sysTables /\ sysTables'[n] = sysTables[n + 1] /\ n \in Nat \ {0}
        BY <4>1, <3>2 DEF TypeOK
      <4>3. \A n \in DOMAIN sysTables' : sysTables'[n] # Head(sysTables)
        BY <4>2 DEF Rest, EntriesInv
      <4> QED BY <4>1, <4>2, <4>3 DEF TypeOK
    <3> QED BY <3>1, <3>2
  <2>4. TypeOK' BY <2>1, <2>2, <2>3 DEF TypeOK, process, history
  <2> QED BY <2>4, <1>9, ForgetInv
<1> QED BY <1>3, <1>4, <1>5, <1>6, <1>7, <1>8, <1>9 DEF DropStep

LEMMA AccessInv == ASSUME IInv, NEW c \in Clients, AccessStep(c) PROVE IInv'
<1> USE DEF IInv
<1> DEFINE OthersStay == \A d \in Clients \ {c} : client'[d] = client[d]
<1>1. {"getTable", "reading", "readTmps"} \subseteq Pcs BY DEF Pcs
<1>2. client[c].ptr \in Ids BY DEF TypeOK, Thread
\* The thread is done, and at most the memtable has changed.
<1>3. ASSUME client[c].pc \in {"put", "reading", "readTmps", "describing"}, Done(c), memtable' \subseteq Ids,
             carried' \subseteq Ids,
             UNCHANGED <<dir, sysTables, freed, dropLock, comp, dump, process, collided>>
      PROVE  IInv'
  <2>1. client' \in [Clients -> Thread(Files)] BY <1>3, IdleTypes DEF Done, TypeOK
  <2>2. TypeOK' BY <1>3, <2>1, TypesOfASmallStep DEF TypeOK
  <2>3. client'[c].pc = "idle" /\ OthersStay BY <1>3 DEF TypeOK, Done, Idle
  <2>4. GoesOn(client[c], client'[c], ClientInside) BY <1>3, <2>3 DEF GoesOn, ClientInside
  <2> QED BY <1>3, <2>2, <2>3, <2>4, ClientMoves DEF process, CreatePcs
<1>4. CASE PutInMemtable(c) BY <1>2, <1>3, <1>4 DEF PutInMemtable, TypeOK
<1>5. CASE ReadMetadata(c)
  <2>1. CASE dir.meta # "full" BY <1>5, <2>1, DiesInv DEF ReadMetadata
  <2>2. CASE dir.meta = "full"
    <3>1. /\ client[c].pc = "getMetadata" /\ Goto(c, "getTable")
          /\ UNCHANGED <<dir, lists, comp, dump, process, history>>
      BY <1>5, <2>2 DEF ReadMetadata
    <3>2. client' \in [Clients -> Thread(Files)] BY <3>1, <1>1, <1>2, ClientGoes DEF Goto
    <3>3. TypeOK' BY <3>1, <3>2, TypesOfASmallStep DEF TypeOK, lists, history
    <3>4. client'[c].pc = "getTable" /\ OthersStay BY <3>1 DEF TypeOK, Thread, Goto
    <3>5. GoesOn(client[c], client'[c], ClientInside) BY <3>1, <3>4 DEF GoesOn, ClientInside
    <3> QED BY <3>1, <3>3, <3>4, <3>5, ClientMoves DEF lists, process, CreatePcs
  <2> QED BY <2>1, <2>2
<1>6. CASE EntryToRead(c)
  <2>1. CASE sysTables = <<>> BY <1>6, <2>1, DiesInv DEF EntryToRead, FindEntry
  <2>2. CASE sysTables # <<>>
    <3>1. Head(sysTables) \in Ids /\ {} \in SUBSET Files BY <2>2 DEF TypeOK
    <3>2. /\ client[c].pc = "getTable"
          /\ client' = [client EXCEPT ![c].pc = "reading", ![c].ptr = Head(sysTables)]
          /\ UNCHANGED <<dir, lists, comp, dump, process, history>>
      BY <1>6, <2>2 DEF EntryToRead, FindEntry
    <3>3. client' \in [Clients -> Thread(Files)] BY <3>1, <3>2, <1>1, ClientGoes
    <3>4. TypeOK' BY <3>2, <3>3, TypesOfASmallStep DEF TypeOK, lists, history
    <3>5. client'[c].pc = "reading" /\ OthersStay BY <3>2 DEF TypeOK, Thread
    <3>6. GoesOn(client[c], client'[c], ClientInside) BY <3>2, <3>5 DEF GoesOn, ClientInside
    <3> QED BY <3>2, <3>4, <3>5, <3>6, ClientMoves DEF lists, process, CreatePcs
  <2> QED BY <2>1, <2>2
<1>7. CASE ListTmps(c)
  <2>1. CASE dir.raw BY <1>7, <2>1, EndsInv DEF ListTmps
  <2>2. CASE ~dir.raw /\ (client[c].ptr \in freed \/ dir.bin # "ready")
    BY <1>7, <2>2, DiesInv DEF ListTmps
  <2>3. CASE ~(dir.raw \/ client[c].ptr \in freed \/ dir.bin # "ready")
    <3>1. CASE dir.tmp = {}
      <4>1. Done(c) BY <1>7, <2>3, <3>1 DEF ListTmps, Done
      <4> QED BY <1>7, <2>3, <4>1, <1>3 DEF ListTmps, TypeOK, lists, history
    <3>2. CASE dir.tmp # {}
      <4>1. /\ client[c].pc = "reading" /\ Goto(c, "readTmps")
            /\ UNCHANGED <<dir, lists, comp, dump, process, history>>
        BY <1>7, <2>3, <3>2 DEF ListTmps, Goto
      <4>2. client' \in [Clients -> Thread(Files)] BY <4>1, <1>1, <1>2, ClientGoes DEF Goto
      <4>3. TypeOK' BY <4>1, <4>2, TypesOfASmallStep DEF TypeOK, lists, history
      <4>4. client'[c].pc = "readTmps" /\ OthersStay BY <4>1 DEF TypeOK, Thread, Goto
      <4>5. GoesOn(client[c], client'[c], ClientInside) BY <4>1, <4>4 DEF GoesOn, ClientInside
      <4> QED BY <4>1, <4>3, <4>4, <4>5, ClientMoves DEF lists, process, CreatePcs
    <3> QED BY <3>1, <3>2
  <2> QED BY <2>1, <2>2, <2>3
<1>9. CASE ReadTmpFiles(c)
  <2>1. CASE client[c].ptr \in freed BY <1>9, <2>1, DiesInv DEF ReadTmpFiles
  <2>2. CASE client[c].ptr \notin freed /\ dir.tmp = {} BY <1>9, <2>2, EndsInv DEF ReadTmpFiles
  <2>3. CASE client[c].ptr \notin freed /\ dir.tmp # {}
    BY <1>9, <2>3, <1>3 DEF ReadTmpFiles, TypeOK, lists, history
  <2> QED BY <2>1, <2>2, <2>3
<1>8. CASE GetTableMetadata(c)
  <2>1. CASE dir.meta = "empty" BY <1>8, <2>1, DiesInv DEF GetTableMetadata
  <2>2. CASE dir.meta # "empty" BY <1>8, <2>2, <1>3 DEF GetTableMetadata, TypeOK, lists, history
  <2> QED BY <2>1, <2>2
<1> QED BY <1>4, <1>5, <1>6, <1>7, <1>8, <1>9 DEF AccessStep

LEMMA QueryInv == ASSUME IInv, NEW c \in Clients, Query(c) PROVE IInv'
<1> USE DEF IInv
<1>1. Disturbed \in BOOLEAN BY DEF TypeOK, Disturbed
<1>2. {"mkdir", "entry", "put", "getMetadata", "describing"} \subseteq Pcs BY DEF Pcs, CreatePcs, DropPcs
<1>3. ASSUME BeginCreate(c) \/ BeginDrop(c) PROVE IInv'
  <2>1. PICK label \in {"mkdir", "entry"}, ptr \in Ids : BeginUpdate(c, label, ptr)
    <3>1. CASE BeginCreate(c)
      <4>1. gen + 1 \in Ids BY <3>1, BoundsAssumption DEF BeginCreate, TypeOK, Ids
      <4> QED BY <3>1, <4>1 DEF BeginCreate
    <3>2. CASE BeginDrop(c) BY <3>2, IdleTypes DEF BeginDrop
    <3> QED BY <1>3, <3>1, <3>2
  <2>2. Looking(label, ptr) \in Thread(Files) BY <1>1, <1>2 DEF Looking, Thread
  <2>3. \A x \in Clients : Overtaken(client[x]) \in Thread(Files)
    BY DEF TypeOK, Thread, Overtaken
  <2>4. \A i \in Ids : Overtaken(comp[i]) \in Thread(Ids) BY DEF TypeOK, Thread, Overtaken
  <2>5. Overtaken(dump) \in Thread({}) BY DEF TypeOK, Thread, Overtaken
  <2>6. /\ client' \in [Clients -> Thread(Files)] /\ comp' \in [Ids -> Thread(Ids)]
        /\ dump' \in Thread({}) /\ collided' \in BOOLEAN
    BY <2>1, <2>2, <2>3, <2>4, <2>5, <1>1 DEF BeginUpdate
  <2>7. /\ gen' \in Ids
        /\ UNCHANGED <<dir, lists, status, starts, carried>>
    BY <1>3, BoundsAssumption DEF BeginCreate, BeginDrop, process, TypeOK, Ids
  <2>8. TypeOK' BY <2>6, <2>7 DEF TypeOK, lists
  <2> QED BY <2>8, <1>3, BeginInv
<1>4. ASSUME NEW label \in {"put", "getMetadata", "describing"}, Found(c, label) PROVE IInv'
  <2>1. /\ Up /\ client[c].pc = "idle"
        /\ client' = [client EXCEPT ![c] = Looking(label, gen)]
        /\ UNCHANGED <<dir, lists, comp, dump, process, history>>
    BY <1>4 DEF Found, Ready, Calm
  <2>2. gen \in Ids /\ {} \in SUBSET Files BY DEF TypeOK
  <2>3. client' \in [Clients -> Thread(Files)] BY <2>1, <2>2, <1>2, <1>4, ClientGoes
  <2>4. TypeOK' BY <2>1, <2>3, TypesOfASmallStep DEF TypeOK, lists, history
  <2>5. client'[c].pc = label /\ \A d \in Clients \ {c} : client'[d] = client[d]
    BY <2>1 DEF TypeOK, Looking
  <2>6. client'[c].pc \notin ClientInside \cup {"lock"} \cup CreatePcs
    BY <2>5 DEF ClientInside, CreatePcs
  <2> QED BY <2>1, <2>4, <2>5, <2>6, ClientMoves DEF lists, process
<1> QED BY <1>3, <1>4 DEF Query, LookToInsert, LookToSelect, LookToDescribe

LEMMA DumpInv == ASSUME IInv, DumpStep PROVE IInv'
<1> USE DEF IInv
<1>1. {"entry", "open", "save", "clean"} \subseteq Pcs BY DEF Pcs, DropPcs
\* The thread goes on: none of the invariant is about it while the process is up.
<1>2. ASSUME Up, UNCHANGED <<sysTables, freed, dropLock, client, comp, process>> PROVE Rest'
  BY <1>2 DEF Rest, EntriesInv, PointerInv, First, LockInv, DownInv, Up, process
<1>3. ASSUME dump.pc # "idle" PROVE Up BY <1>3 DEF Rest, DownInv, Idle
<1>4. CASE StartDump
  <2>1. dump' \in Thread({})
    <3>1. Disturbed \in BOOLEAN BY DEF TypeOK, Disturbed
    <3>2. Looking("entry", 0) \in Thread({}) BY <3>1, <1>1, IdleTypes DEF Looking, Thread
    <3>3. dump' = [Looking("entry", 0) EXCEPT !.raced = @ \/ memtable \cap carried # {}]
      BY <1>4 DEF StartDump
    <3> QED BY <3>2, <3>3 DEF Thread
  <2>2. TypeOK' BY <1>4, <2>1, TypesOfASmallStep DEF StartDump, TypeOK, lists, history
  <2> QED BY <1>4, <1>2, <2>2 DEF StartDump, Calm, lists
<1>5. CASE EntryToDump
  <2>1. CASE sysTables = <<>> BY <1>5, <2>1, DiesInv DEF EntryToDump, FindEntry
  <2>2. CASE sysTables # <<>>
    <3>1. /\ Head(sysTables) \in Ids /\ dump.pc = "entry"
          /\ dump' = [dump EXCEPT !.pc = "open", !.ptr = Head(sysTables)]
          /\ UNCHANGED <<dir, lists, client, comp, process, history>>
      BY <1>5, <2>2 DEF EntryToDump, FindEntry, TypeOK
    <3>2. dump' \in Thread({}) BY <3>1, <1>1 DEF TypeOK, Thread
    <3>3. TypeOK' BY <3>1, <3>2, TypesOfASmallStep DEF TypeOK, lists, history
    <3> QED BY <3>1, <3>3, <1>2, <1>3 DEF lists
  <2> QED BY <2>1, <2>2
<1>6. ASSUME NEW d \in Dir, NEW label \in {"save", "clean"}, dump.pc # "idle", DumpDoes(d, label)
      PROVE  IInv'
  <2>1. dump' \in Thread({}) BY <1>6, <1>1 DEF DumpDoes, TypeOK, Thread
  <2>2. TypeOK' BY <1>6, <2>1, TypesOfASmallStep DEF DumpDoes, TypeOK, lists, history
  <2> QED BY <1>6, <2>2, <1>2, <1>3 DEF DumpDoes, lists
<1>7. CASE OpenTmp
  <2>1. CASE dump.ptr \in freed \/ ~dir.made BY <1>7, <2>1, DiesInv DEF OpenTmp
  <2>2. CASE ~(dump.ptr \in freed \/ ~dir.made)
    <3>1. [dir EXCEPT !.raw = TRUE] \in Dir BY DEF TypeOK, Dir
    <3> QED BY <1>6, <1>7, <2>2, <3>1 DEF OpenTmp
  <2> QED BY <2>1, <2>2
<1>8. CASE SaveTmp
  <2>1. CASE ~dir.made BY <1>8, <2>1, DiesInv DEF SaveTmp
  <2>2. CASE dir.made
    <3>1. [dir EXCEPT !.raw = FALSE, !.tmp = @ \cup memtable] \in Dir BY DEF TypeOK, Dir
    <3> QED BY <1>6, <1>8, <2>2, <3>1 DEF SaveTmp
  <2> QED BY <2>1, <2>2
<1>9. CASE CleanMemtable
  <2>1. TypeOK' BY <1>9, IdleTypes, TypesOfASmallStep DEF CleanMemtable, TypeOK, history
  <2> QED BY <1>9, <2>1, <1>2, <1>3 DEF CleanMemtable
<1> QED BY <1>4, <1>5, <1>7, <1>8, <1>9 DEF DumpStep

LEMMA CompactInv == ASSUME IInv, NEW i \in Ids, CompactStep(i) PROVE IInv'
<1> USE DEF IInv
<1>1. {"idle", "asleep", "entry", "lock", "getCTime", "compact", "save", "unlock"} \subseteq Pcs
  BY DEF Pcs, DropPcs, NotLooked
<1>2. /\ comp[i] \in Thread(Ids) /\ comp[i].ptr \in Ids /\ comp[i].todo \subseteq Ids
      /\ dir \in Dir
  BY DEF TypeOK, Thread
\* The thread goes on, and no mutex changes hands.
<1>3. ASSUME NEW t \in Thread(Ids), GoesOn(comp[i], t, CompInside), CompDoes(i, t), dir' \in Dir
      PROVE  IInv'
  <2>1. comp' \in [Ids -> Thread(Ids)] BY <1>3 DEF CompDoes, TypeOK
  <2>2. TypeOK' BY <1>3, <2>1, TypesOfASmallStep DEF CompDoes, TypeOK, lists, history
  <2>3. comp'[i] = t /\ \A j \in Ids \ {i} : comp'[j] = comp[j] BY <1>3 DEF CompDoes, TypeOK
  <2> QED BY <1>3, <2>2, <2>3, CompMoves DEF CompDoes, lists, process
<1>4. CASE Wake(i)
  <2>1. Disturbed \in BOOLEAN BY DEF TypeOK, Disturbed
  <2>2. Looking("entry", 0) \in Thread(Ids) BY <2>1, <1>1, IdleTypes DEF Looking, Thread
  <2>3. GoesOn(comp[i], Idle, CompInside) /\ GoesOn(comp[i], Looking("entry", 0), CompInside)
    BY <1>4 DEF Wake, GoesOn, Idle, Looking, CompInside
  <2> QED BY <1>3, <1>4, <2>2, <2>3, <1>2, IdleTypes DEF Wake
<1>5. CASE EntryToCompact(i)
  <2>1. CASE sysTables = <<>> BY <1>5, <2>1, DiesInv DEF EntryToCompact, FindEntry
  <2>2. CASE sysTables # <<>>
    <3> DEFINE t == [comp[i] EXCEPT !.pc = "lock", !.ptr = Head(sysTables)]
    <3>1. /\ comp[i].pc = "entry" /\ CompDoes(i, t) /\ UNCHANGED dir
      BY <1>5, <2>2 DEF EntryToCompact, FindEntry
    <3>2. Head(sysTables) \in Ids BY <2>2 DEF TypeOK
    <3>3. t \in Thread(Ids) /\ t.pc = "lock" /\ t.ptr = Head(sysTables)
      BY <3>2, <1>1, <1>2 DEF Thread
    <3>4. GoesOn(comp[i], t, CompInside)
      BY <3>1, <3>3, <2>2 DEF GoesOn, First, CompInside
    <3> HIDE DEF t
    <3> QED BY <1>2, <1>3, <3>1, <3>3, <3>4
  <2> QED BY <2>1, <2>2
<1>6. CASE LockToCompact(i)
  <2>1. CASE comp[i].ptr \in freed BY <1>6, <2>1, DiesInv DEF LockToCompact, LockEntry
  <2>2. CASE comp[i].ptr \notin freed
    <3>1. /\ comp[i].pc = "lock" /\ dropLock[comp[i].ptr] = NoOne
          /\ dropLock' = [dropLock EXCEPT ![comp[i].ptr] = i]
          /\ comp' = [comp EXCEPT ![i].pc = "getCTime"]
          /\ UNCHANGED <<dir, memtable, sysTables, freed, client, dump, process, history>>
      BY <1>6, <2>2 DEF LockToCompact, LockEntry
    <3>2. comp' \in [Ids -> Thread(Ids)] BY <3>1, <1>1 DEF TypeOK, Thread
    <3>3. dropLock' \in [Ids -> Clients \cup Ids \cup {NoOne}] BY <3>1, <1>2 DEF TypeOK
    <3>4. TypeOK' BY <3>1, <3>2, <3>3, TypesOfASmallStep DEF TypeOK, history
    <3> QED BY <3>1, <3>4, <2>2, CompLocks DEF process
  <2> QED BY <2>1, <2>2
<1>7. CASE GetCTime(i)
  <2>1. CASE comp[i].ptr \in freed \/ dir.meta # "full" BY <1>7, <2>1, DiesInv DEF GetCTime
  <2>2. CASE ~(comp[i].ptr \in freed \/ dir.meta # "full")
    <3> DEFINE t == [comp[i] EXCEPT !.pc = "compact"]
    <3>1. comp[i].pc = "getCTime" /\ CompDoes(i, t) /\ UNCHANGED dir
      BY <1>7, <2>2 DEF GetCTime
    <3>2. t \in Thread(Ids) /\ t.pc = "compact" /\ t.ptr = comp[i].ptr BY <1>1, <1>2 DEF Thread
    <3>3. GoesOn(comp[i], t, CompInside) BY <3>1, <3>2 DEF GoesOn, CompInside
    <3> HIDE DEF t
    <3> QED BY <1>2, <1>3, <3>1, <3>2, <3>3
  <2> QED BY <2>1, <2>2
<1>8. CASE ReadTmps(i)
  <2>1. CASE dir.raw BY <1>8, <2>1, EndsInv DEF ReadTmps
  <2>2. CASE ~dir.raw /\ (comp[i].ptr \in freed \/ ~dir.made) BY <1>8, <2>2, DiesInv DEF ReadTmps
  <2>3. CASE ~(dir.raw \/ comp[i].ptr \in freed \/ ~dir.made)
    <3> DEFINE label == IF dir.tmp = {} THEN "unlock" ELSE "save"
               t == [comp[i] EXCEPT !.pc = label, !.todo = dir.tmp]
    <3>1. /\ comp[i].pc = "compact" /\ CompDoes(i, t)
          /\ dir' = [dir EXCEPT !.tmp = {}, !.tmpc = @ \cup dir.tmp]
      BY <1>8, <2>3 DEF ReadTmps
    <3>2. dir' \in Dir BY <3>1, <1>2 DEF Dir
    <3>3. label \in Pcs /\ label \in CompInside BY <1>1 DEF CompInside
    <3>4. t \in Thread(Ids) /\ t.pc \in CompInside /\ t.ptr = comp[i].ptr
      BY <3>3, <1>2 DEF Thread, Dir
    <3>5. GoesOn(comp[i], t, CompInside) BY <3>1, <3>4 DEF GoesOn, CompInside
    <3> HIDE DEF t
    <3> QED BY <1>3, <3>1, <3>2, <3>4, <3>5
  <2> QED BY <2>1, <2>2, <2>3
<1>9. CASE SaveInPartition(i)
  <2>1. CASE comp[i].ptr \in freed \/ dir.bin # "ready" BY <1>9, <2>1, DiesInv DEF SaveInPartition
  <2>2. CASE ~(comp[i].ptr \in freed \/ dir.bin # "ready")
    <3> DEFINE t == [comp[i] EXCEPT !.pc = "unlock", !.todo = {}]
    <3>1. /\ comp[i].pc = "save" /\ CompDoes(i, t)
          /\ dir' = [dir EXCEPT !.part = @ \cup comp[i].todo, !.tmpc = {}]
      BY <1>9, <2>2 DEF SaveInPartition
    <3>2. dir' \in Dir BY <3>1, <1>2 DEF Dir
    <3>3. t \in Thread(Ids) /\ t.pc = "unlock" /\ t.ptr = comp[i].ptr BY <1>1, <1>2 DEF Thread
    <3>4. GoesOn(comp[i], t, CompInside) BY <3>1, <3>3 DEF GoesOn, CompInside
    <3> HIDE DEF t
    <3> QED BY <1>3, <3>1, <3>2, <3>3, <3>4
  <2> QED BY <2>1, <2>2
<1>10. CASE UnlockCompacted(i)
  <2>1. CASE comp[i].ptr \in freed BY <1>10, <2>1, DiesInv DEF UnlockCompacted
  <2>2. CASE comp[i].ptr \notin freed
    <3>1. /\ comp[i].pc = "unlock"
          /\ dropLock' = [dropLock EXCEPT ![comp[i].ptr] = NoOne]
          /\ comp' = [comp EXCEPT ![i] = Asleep]
          /\ UNCHANGED <<dir, memtable, sysTables, freed, client, dump, process, history>>
      BY <1>10, <2>2 DEF UnlockCompacted
    <3>2. comp' \in [Ids -> Thread(Ids)] BY <3>1, IdleTypes DEF TypeOK
    <3>3. dropLock' \in [Ids -> Clients \cup Ids \cup {NoOne}] BY <3>1, <1>2 DEF TypeOK
    <3>4. TypeOK' BY <3>1, <3>2, <3>3, TypesOfASmallStep DEF TypeOK, history
    <3> QED BY <3>1, <3>4, <2>2, CompUnlocks DEF process
  <2> QED BY <2>1, <2>2
<1> QED BY <1>4, <1>5, <1>6, <1>7, <1>8, <1>9, <1>10 DEF CompactStep

\* Init establishes the invariant and every step keeps it.
THEOREM Inductive == Spec => []IInv
<1>1. Init => IInv BY InitType, InitRest DEF IInv
<1>2. IInv /\ [Next]_vars => IInv'
  <2> SUFFICES ASSUME IInv, [Next]_vars PROVE IInv' OBVIOUS
  <2>1. ASSUME NEW c \in Clients, Query(c) \/ ClientStep(c) PROVE IInv'
    BY <2>1, QueryInv, CreateInv, DropInv, AccessInv DEF ClientStep
  <2>2. ASSUME Kill PROVE IInv' BY <2>2, EndsInv DEF Kill
  <2>3. CASE UNCHANGED vars
    BY <2>3 DEF vars, lists, threads, process, history, IInv, TypeOK, Rest, EntriesInv,
                PointerInv, First, LockInv, DownInv, Up
  <2> QED BY <2>1, <2>2, <2>3, DumpInv, CompactInv, StartInv DEF Next
<1> QED BY <1>1, <1>2, PTL DEF Spec

\* The variables keep their types; in particular no entry of the list is freed.
THEOREM Typing == Spec => []TypeOK
<1>1. IInv => TypeOK BY DEF IInv
<1> QED BY <1>1, Inductive, PTL

-----------------------------------------------------------------------------
(* Mutual exclusion.                                                       *)

\* A mutex that is not freed is free or held by a thread inside.
LEMMA LockedByInside ==
  ASSUME IInv, NEW i \in Ids \ freed PROVE dropLock[i] \in Inside \cup {NoOne}
BY DEF IInv, Rest, LockInv, Inside, ClientInside, CompInside

\* Whoever is inside holds the mutex of the first entry of the list.
LEMMA InsideHolds ==
  ASSUME IInv, NEW t \in Inside
  PROVE  sysTables # <<>> /\ dropLock[Head(sysTables)] = t
BY DEF IInv, Rest, LockInv, PointerInv, First, Inside, ClientInside, CompInside

\* Never two DROPs or compactions in the files of a table, whatever number of clients
\* create and drop it: MUTEX_DROP_TABLE, as drop.c and compactor.c take it.
THEOREM OneThread == Spec => []OneThreadAtTheFiles
<1>1. IInv => OneThreadAtTheFiles
  <2> SUFFICES ASSUME IInv PROVE OneThreadAtTheFiles OBVIOUS
  <2>1. Cardinality(Inside) <= 1
    <3>1. CASE Inside = {} BY <3>1, FS_EmptySet
    <3>2. CASE Inside # {}
      <4>1. PICK t \in Inside : TRUE BY <3>2
      <4>2. Inside = {t} BY <4>1, InsideHolds
      <4> QED BY <4>2, FS_Singleton
    <3> QED BY <3>1, <3>2
  <2> QED BY <2>1, LockedByInside DEF OneThreadAtTheFiles
<1> QED BY <1>1, Inductive, PTL

-----------------------------------------------------------------------------
(* What a CREATE or DROP that nothing overlaps does to the table, and why   *)
(* only the threads it overtakes can die of it.                             *)

\* A thread that has looked for the table, and one that has a pointer to its entry.
Working(t) == t.pc \notin NotLooked
Points(t)  == t.pc \in {"lock", "getCTime", "compact", "save", "unlock", "reading",
                       "readTmps", "open"}

\* The inserts there are of the name.
Kept == dir.tmp \cup dir.tmpc \cup dir.part \cup memtable
\* All are of the table there is, or carried; or there is no table, and all are carried.
Own  == Kept \subseteq {gen} \cup carried
Gone == Kept \subseteq carried

\* The table is there and in the list, which a process that is down has not.
Whole  == /\ dir.made /\ dir.bin = "ready" /\ dir.meta = "full"
          /\ Up => Len(sysTables) = 1
          /\ Own
\* No file of it is left, and the directory only if a dump put a file there.
Bare   == dir.bin = "none" /\ dir.meta = "none" /\ (dir.made => carried # {}) /\ Gone
Absent == Bare /\ sysTables = <<>>

\* What the thread of the only DROP, or CREATE, under way has made of it so far.
UnderDrop(t) ==
  /\ Len(sysTables) = 1
  /\ t.pc \in {"lock", "free", "unlink", "unlock"} => t.ptr = Head(sysTables)
  /\ t.pc \in {"entry", "lock", "free"} => Whole
  /\ t.pc = "unlink" =>
       /\ dir.made /\ Gone
       /\ dir.bin = IF "bin" \in t.todo THEN "ready" ELSE "none"
       /\ dir.meta = IF "meta" \in t.todo THEN "full" ELSE "none"
       /\ dir.raw \/ dir.tmp # {} \/ dir.tmpc # {} => carried # {}
  /\ t.pc \in {"unlock", "forget"} => Bare

UnderCreate(t) ==
  /\ sysTables = <<>> /\ Gone
  /\ t.pc = "mkdir" => Absent
  /\ t.pc # "mkdir" => dir.made
  /\ t.pc = "parts" => dir.bin = "none" /\ dir.meta = "none"
  /\ t.pc = "metadata" => dir.meta = "none"
  /\ t.pc \in {"load", "add"} => dir.bin = "ready"
  /\ t.pc = "add" => dir.meta = "full"

TableInv == ~collided =>
  /\ ~Disturbed => Whole \/ Absent
  /\ \A c \in Clients : client[c].pc \in DropPcs   => UnderDrop(client[c])
  /\ \A c \in Clients : client[c].pc \in CreatePcs => UnderCreate(client[c])
  /\ \A c, d \in Clients : Updating(c) /\ Updating(d) => c = d
  /\ \A i \in Ids : comp[i].pc = "save" /\ comp[i].ptr \notin freed =>
                      comp[i].todo \subseteq {gen} \cup carried

\* A thread that was not overtaken is where the table is whole.
Undisturbed(t) ==
  Working(t) /\ ~t.raced => ~Disturbed /\ Whole /\ (Points(t) => t.ptr \notin freed)

RacedInv ==
  /\ \A c \in Clients : Updating(c) /\ collided => client[c].raced
  /\ \A c \in Clients : ~Updating(c) => Undisturbed(client[c])
  /\ \A c \in Clients : client[c].pc = "put" /\ ~client[c].raced => client[c].ptr = gen
  /\ \A i \in Ids : Undisturbed(comp[i])
  /\ Undisturbed(dump)

ProcessInv ==
  /\ ~Up => memtable = {}
  /\ dump.pc # "idle" => memtable # {}
  /\ \A n \in DOMAIN sysTables : comp[sysTables[n]].pc # "idle"

LifeInv == ProcessInv /\ TableInv /\ RacedInv /\ NobodyDiesUnlessRaced

-----------------------------------------------------------------------------
LEMMA InitLife == Init => LifeInv
<1> SUFFICES ASSUME Init PROVE LifeInv OBVIOUS
<1>1. 0 \in Ids BY BoundsAssumption DEF Ids
<1>2. /\ \A c \in Clients : client[c] = Idle
      /\ \A i \in Ids : comp[i] \in {Idle, Asleep}
      /\ dump = Idle /\ Up /\ memtable = {} /\ gen = 0 /\ carried = {}
  BY DEF Init, Up
<1>3. ProcessInv BY <1>1, <1>2 DEF Init, ProcessInv, Idle, Asleep, NoDir, WholeDir
<1>4. Whole \/ Absent
  <2>1. CASE dir = WholeDir
    BY <1>2, <2>1 DEF Init, Whole, WholeDir, Own, Kept
  <2>2. CASE dir = NoDir
    <3>1. sysTables = <<>> BY <2>2 DEF Init, NoDir, WholeDir
    <3> QED BY <1>2, <2>2, <3>1 DEF Absent, Bare, NoDir, Gone, Kept
  <2> QED BY <2>1, <2>2 DEF Init
<1>5. TableInv BY <1>2, <1>4 DEF TableInv, Updating, Idle, Asleep, DropPcs, CreatePcs
<1>6. RacedInv BY <1>2 DEF RacedInv, Undisturbed, Working, NotLooked, Updating, Idle, Asleep, DropPcs, CreatePcs
<1> QED BY <1>3, <1>5, <1>6 DEF LifeInv, NobodyDiesUnlessRaced, Init

\* However the process ends, but for an unexplained death.
LEMMA EndsLife ==
  ASSUME IInv, LifeInv, NEW how \in {"killed", "raced", "unfinished", "renamed"}, Ends(how)
  PROVE  LifeInv'
<1> USE DEF LifeInv
<1>1. /\ \A c \in Clients : client'[c] = Idle
      /\ \A i \in Ids : comp'[i] = Idle
      /\ dump' = Idle /\ ~Up' /\ memtable' = {} /\ sysTables' = <<>> /\ status' = how
      /\ collided' = Disturbed /\ UNCHANGED <<dir, gen, carried>>
  BY DEF Ends, Up
<1>2. ProcessInv' BY <1>1 DEF ProcessInv, Idle
<1>3. ~Disturbed => (Whole \/ Absent)'
  <2>1. Kept' \subseteq Kept BY <1>1 DEF Kept
  <2>2. ~Disturbed => Whole \/ Absent BY DEF TableInv, Disturbed
  <2> QED BY <1>1, <2>1, <2>2 DEF Whole, Absent, Bare, Own, Gone
<1>4. TableInv' BY <1>1, <1>3 DEF TableInv, Updating, Idle, DropPcs, CreatePcs
<1>5. RacedInv' BY <1>1 DEF RacedInv, Undisturbed, Working, NotLooked, Updating, Idle, DropPcs, CreatePcs
<1> QED BY <1>1, <1>2, <1>4, <1>5 DEF NobodyDiesUnlessRaced

LEMMA DiesLife == ASSUME IInv, LifeInv, NEW t, t.raced, Dies(t) PROVE LifeInv'
BY EndsLife DEF Dies

\* A start-up finds Metadata.bin complete, unless a DROP was cut or a dump left
\* something behind it.
LEMMA StartLife == ASSUME IInv, LifeInv, Start PROVE LifeInv'
<1> USE DEF LifeInv
<1>1. ~Up BY DEF Start, Up
<1>2. /\ sysTables = <<>> /\ freed = {} /\ dump = Idle /\ memtable = {}
      /\ \A i \in Ids : comp[i] = Idle
      /\ \A c \in Clients : client[c] = Idle
  BY <1>1 DEF IInv, Rest, DownInv, ProcessInv
<1>3. UNCHANGED <<dir, memtable, freed, client, dump, gen, carried, collided>>
  BY DEF Start, history
<1>4. ~Disturbed <=> ~collided BY <1>2 DEF Disturbed, Updating, Idle, DropPcs, CreatePcs
<1>5. ~collided => Whole \/ Absent BY <1>4 DEF TableInv
<1>6. 0 \in Ids /\ comp \in [Ids -> Thread(Ids)] BY IdleTypes DEF IInv, TypeOK
<1>7. CASE dir.made /\ dir.meta # "full"
  <2>1. UNCHANGED <<sysTables, comp>> /\ ~Up' /\ status' = IF collided \/ carried # {} THEN "raced" ELSE "died"
    BY <1>7 DEF Start, Up
  <2>2. ~collided => carried # {} BY <1>5, <1>7 DEF Whole, Absent, Bare
  <2>3. ProcessInv' BY <1>2, <1>3, <2>1 DEF ProcessInv
  <2>4. (Whole => Whole') /\ (Absent => Absent')
    BY <1>1, <1>3, <2>1 DEF Whole, Absent, Bare, Own, Gone, Kept
  <2>5. TableInv' BY <1>2, <1>3, <1>5, <2>1, <2>4 DEF TableInv, Updating, Idle, DropPcs, CreatePcs
  <2>6. RacedInv'
    BY <1>2, <1>3, <2>1 DEF RacedInv, Undisturbed, Working, NotLooked, Updating, Idle, DropPcs, CreatePcs
  <2> QED BY <2>1, <2>2, <2>3, <2>5, <2>6 DEF NobodyDiesUnlessRaced
<1>8. CASE ~(dir.made /\ dir.meta # "full")
  <2>1. /\ status' = "up" /\ sysTables' = IF dir.made THEN <<0>> ELSE <<>>
        /\ comp' = IF dir.made THEN [comp EXCEPT ![0] = Asleep] ELSE comp
    BY <1>8 DEF Start
  <2>2. \A i \in Ids : comp'[i] \in {Idle, Asleep} BY <1>2, <1>6, <2>1
  <2>3. ProcessInv' BY <1>2, <1>3, <1>6, <2>1 DEF ProcessInv, Up, Asleep
  <2>4. (Whole => Whole')
    BY <1>3, <2>1 DEF Whole, Own, Kept, Up
  <2>5. Absent => Absent'
    BY <1>3, <1>8, <2>1 DEF Absent, Bare, Gone, Kept
  <2>6. TableInv'
    BY <1>2, <1>3, <1>5, <2>2, <2>4, <2>5 DEF TableInv, Updating, Idle, Asleep, DropPcs, CreatePcs
  <2>7. RacedInv'
    BY <1>2, <1>3, <2>2
       DEF RacedInv, Undisturbed, Working, NotLooked, Updating, Idle, Asleep, DropPcs, CreatePcs
  <2> QED BY <2>1, <2>3, <2>6, <2>7 DEF NobodyDiesUnlessRaced
<1> QED BY <1>7, <1>8

-----------------------------------------------------------------------------
(* A step of a CREATE or a DROP: all others are overtaken.                 *)

\* What it leaves to the others; it ends, or goes on.
ByUpdate(c) ==
  /\ \A d \in Clients \ {c} : client'[d] = client[d]
  /\ \A i \in Ids : comp'[i] = comp[i] \/ comp'[i] = Asleep
  /\ \/ client'[c] = Idle
     \/ client'[c].pc \in DropPcs \cup CreatePcs /\ client'[c].raced = client[c].raced
  /\ freed \subseteq freed' /\ carried \subseteq carried'
  /\ UNCHANGED <<dump, gen, status, collided, memtable>>

LEMMA UpdateRaced ==
  ASSUME RacedInv, NEW c \in Clients, Updating(c), ByUpdate(c) PROVE RacedInv'
<1> USE DEF ByUpdate
<1>1. Disturbed BY DEF Disturbed
<1>2. /\ \A d \in Clients : ~Updating(d) /\ Working(client[d]) => client[d].raced
      /\ \A i \in Ids : Working(comp[i]) => comp[i].raced
      /\ Working(dump) => dump.raced
  BY <1>1 DEF RacedInv, Undisturbed
<1>3. \A d \in Clients \ {c} : Updating(d)' <=> Updating(d) BY DEF Updating
<1>4. client'[c] = Idle \/ Updating(c)' BY DEF Updating
<1>5. ~Working(Idle) /\ ~Working(Asleep) /\ Idle.pc # "put"
  BY DEF Working, NotLooked, Idle, Asleep
<1>6. \A d \in Clients : Updating(d)' /\ collided' => client'[d].raced
  BY <1>3 DEF RacedInv, Updating, Idle, DropPcs, CreatePcs
<1>7. ASSUME NEW d \in Clients, ~Updating(d)' PROVE Undisturbed(client[d])'
  <2>1. ~Working(client'[d]) \/ client'[d].raced BY <1>2, <1>3, <1>4, <1>5, <1>7
  <2> QED BY <2>1 DEF Undisturbed, Working
<1>8. \A d \in Clients : client'[d].pc = "put" /\ ~client'[d].raced => client'[d].ptr = gen'
  BY <1>5 DEF RacedInv, DropPcs, CreatePcs
<1>9. ASSUME NEW i \in Ids PROVE Undisturbed(comp[i])'
  <2>1. ~Working(comp'[i]) \/ comp'[i].raced BY <1>2, <1>5
  <2> QED BY <2>1 DEF Undisturbed, Working
<1>10. Undisturbed(dump)' BY <1>2 DEF Undisturbed, Working
<1> QED BY <1>6, <1>7, <1>8, <1>9, <1>10 DEF RacedInv

LEMMA UpdateTable ==
  ASSUME TableInv, NEW c \in Clients, Updating(c), ByUpdate(c),
         ~collided => \/ client'[c] = Idle /\ (Whole \/ Absent)'
                      \/ client'[c].pc \in DropPcs /\ UnderDrop(client[c])'
                      \/ client'[c].pc \in CreatePcs /\ UnderCreate(client[c])'
  PROVE  TableInv'
<1> USE DEF ByUpdate
<1> SUFFICES ASSUME ~collided PROVE TableInv' BY DEF TableInv
<1>1. \A d \in Clients \ {c} : ~Updating(d) BY DEF TableInv
<1>2. \A d \in Clients \ {c} : ~Updating(d)' BY <1>1 DEF Updating
<1>3. DropPcs \cap CreatePcs = {} /\ Idle.pc \notin DropPcs \cup CreatePcs
  BY DEF DropPcs, CreatePcs, Idle
<1>4. ~Disturbed' => client'[c] = Idle BY DEF Disturbed, Updating
<1>5. /\ \A d \in Clients : client'[d].pc \in DropPcs => UnderDrop(client[d])'
      /\ \A d \in Clients : client'[d].pc \in CreatePcs => UnderCreate(client[d])'
  BY <1>2, <1>3 DEF Updating
<1>6. \A i \in Ids : comp'[i].pc = "save" /\ comp'[i].ptr \notin freed' =>
                       comp'[i].todo \subseteq {gen'} \cup carried'
  BY DEF TableInv, Asleep
<1> QED BY <1>2, <1>3, <1>4, <1>5, <1>6 DEF TableInv

\* The thread of an update dies only if it overlapped with another.
LEMMA UpdateDies ==
  ASSUME IInv, LifeInv, NEW c \in Clients, Updating(c), Dies(client[c]),
         collided
  PROVE  LifeInv'
BY DiesLife DEF LifeInv, RacedInv

\* A step that only changes the directory.
LEMMA OnDirectoryFacts ==
  ASSUME IInv, NEW c \in Clients, NEW d, NEW label \in DropPcs \cup CreatePcs,
         OnDirectory(c, d, label)
  PROVE  /\ ByUpdate(c)
         /\ dir' = d /\ client'[c].pc = label
         /\ client'[c].ptr = client[c].ptr /\ client'[c].todo = client[c].todo
         /\ UNCHANGED <<memtable, sysTables, freed, comp, dump, gen, status, carried, collided>>
<1>1. /\ dir' = d /\ client' = [client EXCEPT ![c].pc = label]
      /\ UNCHANGED <<memtable, sysTables, freed, comp, dump, gen, status, carried, collided>>
  BY DEF OnDirectory, Goto, lists, process, history
<1>2. /\ client'[c].pc = label /\ client'[c].raced = client[c].raced
      /\ client'[c].ptr = client[c].ptr /\ client'[c].todo = client[c].todo
      /\ \A x \in Clients \ {c} : client'[x] = client[x]
  BY <1>1 DEF IInv, TypeOK, Thread
<1> QED BY <1>1, <1>2 DEF ByUpdate

\* An update that goes on leaves the table as it does at the point it reaches.
LEMMA UpdateLife ==
  ASSUME IInv, LifeInv, NEW c \in Clients, Updating(c), ByUpdate(c),
         UNCHANGED <<sysTables, comp>>,
         ~collided => \/ client'[c].pc \in DropPcs   /\ UnderDrop(client[c])'
                      \/ client'[c].pc \in CreatePcs /\ UnderCreate(client[c])'
  PROVE  LifeInv'
<1>1. TableInv' BY UpdateTable DEF LifeInv
<1>2. RacedInv' BY UpdateRaced DEF LifeInv
<1>3. ProcessInv' BY DEF LifeInv, ProcessInv, ByUpdate, Up
<1> QED BY <1>1, <1>2, <1>3 DEF LifeInv, NobodyDiesUnlessRaced, ByUpdate

LEMMA CreateLife == ASSUME IInv, LifeInv, NEW c \in Clients, CreateStep(c) PROVE LifeInv'
<1>1. client[c].pc \in CreatePcs /\ Updating(c)
  BY DEF CreateStep, MakeDirectories, MakeFiles, MakeMetadataFile, LoadPartitionsFiles,
         LoadMetadata, AddToActiveTables, CreatePcs, Updating
<1>2. ~collided => UnderCreate(client[c]) BY <1>1 DEF LifeInv, TableInv
<1>3. dir \in Dir BY DEF IInv, TypeOK
\* It goes on to the next file.
<1>4. ASSUME NEW d, NEW label \in CreatePcs, OnDirectory(c, d, label),
             ~collided => UnderCreate(client[c])'
      PROVE  LifeInv'
  BY <1>1, <1>4, OnDirectoryFacts, UpdateLife
<1>5. CASE MakeDirectories(c)
  <2> DEFINE d == [dir EXCEPT !.made = TRUE]
  <2>1. client[c].pc = "mkdir" /\ OnDirectory(c, d, "parts") BY <1>5 DEF MakeDirectories
  <2>2. d.made /\ d.bin = dir.bin /\ d.meta = dir.meta /\ d.tmp = dir.tmp
        /\ d.tmpc = dir.tmpc /\ d.part = dir.part
    BY <1>3 DEF Dir
  <2> HIDE DEF d
  <2>3. "parts" \in CreatePcs BY DEF CreatePcs
  <2>4. ~collided => UnderCreate(client[c])'
    BY <1>2, <2>1, <2>2, <2>3, OnDirectoryFacts DEF UnderCreate, Absent, Bare, Gone, Kept
  <2> QED BY <1>4, <2>1, <2>3, <2>4
<1>6. ASSUME ~dir.made, client[c].pc # "mkdir", Dies(client[c]) PROVE LifeInv'
  BY <1>1, <1>2, <1>6, UpdateDies DEF UnderCreate
<1>7. CASE MakeFiles(c)
  <2> DEFINE d == [dir EXCEPT !.bin = "raw", !.part = {}]
  <2>1. client[c].pc = "parts" BY <1>7 DEF MakeFiles
  <2>2. CASE ~dir.made BY <1>6, <1>7, <2>1, <2>2 DEF MakeFiles
  <2>3. CASE dir.made
    <3>1. OnDirectory(c, d, "metadata") BY <1>7, <2>3 DEF MakeFiles
    <3>2. d.made /\ d.meta = dir.meta /\ d.tmp = dir.tmp /\ d.tmpc = dir.tmpc /\ d.part = {}
      BY <1>3, <2>3 DEF Dir
    <3> HIDE DEF d
    <3>3. "metadata" \in CreatePcs BY DEF CreatePcs
    <3>4. ~collided => UnderCreate(client[c])'
      BY <1>2, <2>1, <3>1, <3>2, <3>3, OnDirectoryFacts DEF UnderCreate, Gone, Kept
    <3> QED BY <1>4, <3>1, <3>3, <3>4
  <2> QED BY <2>2, <2>3
<1>8. CASE MakeMetadataFile(c)
  <2> DEFINE d == [dir EXCEPT !.meta = "empty"]
  <2>1. client[c].pc = "metadata" BY <1>8 DEF MakeMetadataFile
  <2>2. CASE ~dir.made BY <1>6, <1>8, <2>1, <2>2 DEF MakeMetadataFile
  <2>3. CASE dir.made
    <3>1. OnDirectory(c, d, "blocks") BY <1>8, <2>3 DEF MakeMetadataFile
    <3>2. d.made /\ d.tmp = dir.tmp /\ d.tmpc = dir.tmpc /\ d.part = dir.part
      BY <1>3, <2>3 DEF Dir
    <3> HIDE DEF d
    <3>3. "blocks" \in CreatePcs BY DEF CreatePcs
    <3>4. ~collided => UnderCreate(client[c])'
      BY <1>2, <2>1, <3>1, <3>2, <3>3, OnDirectoryFacts DEF UnderCreate, Gone, Kept
    <3> QED BY <1>4, <3>1, <3>3, <3>4
  <2> QED BY <2>2, <2>3
<1>9. CASE LoadPartitionsFiles(c)
  <2> DEFINE d == [dir EXCEPT !.bin = "ready"]
  <2>1. client[c].pc = "blocks" BY <1>9 DEF LoadPartitionsFiles
  <2>2. CASE ~dir.made BY <1>6, <1>9, <2>1, <2>2 DEF LoadPartitionsFiles
  <2>3. CASE dir.made
    <3>1. OnDirectory(c, d, "load") BY <1>9, <2>3 DEF LoadPartitionsFiles
    <3>2. d.made /\ d.bin = "ready" /\ d.tmp = dir.tmp /\ d.tmpc = dir.tmpc /\ d.part = dir.part
      BY <1>3, <2>3 DEF Dir
    <3> HIDE DEF d
    <3>3. "load" \in CreatePcs BY DEF CreatePcs
    <3>4. ~collided => UnderCreate(client[c])'
      BY <1>2, <2>1, <3>1, <3>2, <3>3, OnDirectoryFacts DEF UnderCreate, Gone, Kept
    <3> QED BY <1>4, <3>1, <3>3, <3>4
  <2> QED BY <2>2, <2>3
<1>10. CASE LoadMetadata(c)
  <2> DEFINE d == [dir EXCEPT !.meta = "full"]
  <2>1. client[c].pc = "load" BY <1>10 DEF LoadMetadata
  <2>2. CASE ~dir.made BY <1>6, <1>10, <2>1, <2>2 DEF LoadMetadata
  <2>3. CASE dir.made
    <3>1. OnDirectory(c, d, "add") BY <1>10, <2>3 DEF LoadMetadata
    <3>2. d.made /\ d.bin = dir.bin /\ d.meta = "full" /\ d.tmp = dir.tmp
          /\ d.tmpc = dir.tmpc /\ d.part = dir.part
      BY <1>3, <2>3 DEF Dir
    <3> HIDE DEF d
    <3>3. "add" \in CreatePcs BY DEF CreatePcs
    <3>4. ~collided => UnderCreate(client[c])'
      BY <1>2, <2>1, <3>1, <3>2, <3>3, OnDirectoryFacts DEF UnderCreate, Gone, Kept
    <3> QED BY <1>4, <3>1, <3>3, <3>4
  <2> QED BY <2>2, <2>3
<1>11. CASE AddToActiveTables(c)
  <2> DEFINE e == client[c].ptr
  <2>1. /\ client[c].pc = "add" /\ sysTables' = Append(sysTables, e)
        /\ comp' = [comp EXCEPT ![e] = Asleep]
        /\ client' = [client EXCEPT ![c] = Idle]
        /\ UNCHANGED <<dir, memtable, freed, dump, gen, status, carried, collided>>
    BY <1>11 DEF AddToActiveTables, Done, process, history
  <2>2. /\ e \in Ids /\ client \in [Clients -> Thread(Files)] /\ comp \in [Ids -> Thread(Ids)]
        /\ sysTables \in Seq(Ids)
    BY DEF IInv, TypeOK, Thread
  <2>3. ByUpdate(c) /\ client'[c] = Idle BY <2>1, <2>2 DEF ByUpdate
  <2>4. ~collided => Whole'
    <3> SUFFICES ASSUME ~collided PROVE Whole' OBVIOUS
    <3>1. UnderCreate(client[c]) BY <1>2
    <3>2. Len(sysTables') = 1 BY <2>1, <2>2, <3>1 DEF UnderCreate
    <3> QED BY <2>1, <3>1, <3>2 DEF UnderCreate, Whole, Own, Gone, Kept
  <2>5. TableInv' BY <1>1, <2>3, <2>4, UpdateTable DEF LifeInv
  <2>6. RacedInv' BY <1>1, <2>3, UpdateRaced DEF LifeInv
  <2>7. ProcessInv'
    <3>1. ~Up' => memtable' = {} BY <2>1 DEF LifeInv, ProcessInv, Up
    <3>2. dump'.pc # "idle" => memtable' # {} BY <2>1 DEF LifeInv, ProcessInv
    <3>3. ASSUME NEW n \in DOMAIN sysTables' PROVE comp'[sysTables'[n]].pc # "idle"
      <4>1. sysTables'[n] = e \/ (n \in DOMAIN sysTables /\ sysTables'[n] = sysTables[n])
        BY <2>1, <2>2, <3>3
      <4>2. n \in DOMAIN sysTables => sysTables[n] \in Ids BY <2>2
      <4> QED BY <2>1, <2>2, <4>1, <4>2 DEF LifeInv, ProcessInv, Asleep
    <3> QED BY <3>1, <3>2, <3>3 DEF ProcessInv
  <2> QED BY <2>1, <2>5, <2>6, <2>7 DEF LifeInv, NobodyDiesUnlessRaced
<1> QED BY <1>5, <1>7, <1>8, <1>9, <1>10, <1>11 DEF CreateStep

LEMMA DropLife == ASSUME IInv, LifeInv, NEW c \in Clients, DropStep(c) PROVE LifeInv'
<1>1. client[c].pc \in DropPcs /\ Updating(c)
  BY DEF DropStep, EntryToDrop, LockToDrop, FreeBlocks, Unlink, RemoveDirectory, UnlockDropped,
         DeleteTableFromMemory, DropPcs, Updating
<1>2. ~collided => UnderDrop(client[c]) BY <1>1 DEF LifeInv, TableInv
<1>3. /\ dir \in Dir /\ client \in [Clients -> Thread(Files)] /\ sysTables \in Seq(Ids)
      /\ client[c].todo \subseteq Files
  BY DEF IInv, TypeOK, Thread
\* The entry of the only update is the first of the list, which is not freed.
<1>4. ~collided => /\ sysTables # <<>> /\ Head(sysTables) \notin freed
                   /\ client[c].pc \in {"lock", "free", "unlink", "unlock"} =>
                        client[c].ptr \notin freed
  <2>1. ASSUME Len(sysTables) = 1
        PROVE  sysTables # <<>> /\ 1 \in DOMAIN sysTables /\ Head(sysTables) = sysTables[1]
    <3>1. sysTables \in Seq(Ids) BY <1>3
    <3>2. sysTables # <<>> BY <2>1
    <3> QED BY <2>1, <3>1, <3>2
  <2>2. \A n \in DOMAIN sysTables : sysTables[n] \notin freed BY DEF IInv, TypeOK
  <2> QED BY <1>2, <2>1, <2>2 DEF UnderDrop
<1>5. CASE EntryToDrop(c)
  <2>1. CASE sysTables = <<>>
    BY <1>1, <1>4, <1>5, <2>1, UpdateDies DEF EntryToDrop, FindEntry
  <2>2. CASE sysTables # <<>>
    <3>1. /\ client[c].pc = "entry"
          /\ client' = [client EXCEPT ![c].pc = "lock", ![c].ptr = Head(sysTables)]
          /\ UNCHANGED <<dir, lists, comp, dump, process, history>>
      BY <1>5, <2>2 DEF EntryToDrop, FindEntry
    <3>2. /\ client'[c].pc = "lock" /\ client'[c].ptr = Head(sysTables)
          /\ client'[c].raced = client[c].raced
          /\ \A x \in Clients \ {c} : client'[x] = client[x]
      BY <1>3, <3>1 DEF Thread
    <3>3. ByUpdate(c) BY <3>1, <3>2 DEF ByUpdate, lists, process, history, DropPcs
    <3>4. ~collided => UnderDrop(client[c])'
      BY <1>2, <3>1, <3>2
         DEF UnderDrop, Whole, Own, Kept, Up, lists, process, history
    <3> QED BY <1>1, <3>1, <3>2, <3>3, <3>4, UpdateLife DEF lists, DropPcs
  <2> QED BY <2>1, <2>2
<1>6. CASE LockToDrop(c)
  <2>1. CASE client[c].ptr \in freed
    BY <1>1, <1>4, <1>6, <2>1, UpdateDies DEF LockToDrop, LockEntry
  <2>2. CASE client[c].ptr \notin freed
    <3>1. /\ client[c].pc = "lock" /\ client' = [client EXCEPT ![c].pc = "free"]
          /\ UNCHANGED <<dir, memtable, sysTables, freed, comp, dump, process, history>>
      BY <1>6, <2>2 DEF LockToDrop, LockEntry, Goto
    <3>2. /\ client'[c].pc = "free" /\ client'[c].ptr = client[c].ptr
          /\ client'[c].raced = client[c].raced
          /\ \A x \in Clients \ {c} : client'[x] = client[x]
      BY <1>3, <3>1 DEF Thread
    <3>3. ByUpdate(c) BY <3>1, <3>2 DEF ByUpdate, process, history, DropPcs
    <3>4. ~collided => UnderDrop(client[c])'
      BY <1>2, <3>1, <3>2
         DEF UnderDrop, Whole, Own, Kept, Up, process, history
    <3> QED BY <1>1, <3>1, <3>2, <3>3, <3>4, UpdateLife DEF DropPcs
  <2> QED BY <2>1, <2>2
<1>7. CASE FreeBlocks(c)
  <2>1. client[c].pc = "free" BY <1>7 DEF FreeBlocks
  <2>2. CASE dir.raw BY <1>7, <2>2, EndsLife DEF FreeBlocks
  <2>3. CASE ~dir.raw /\ (~dir.made \/ dir.bin = "raw")
    <3>1. collided BY <1>2, <2>1, <2>3 DEF UnderDrop, Whole
    <3> QED BY <1>1, <1>7, <2>3, <3>1, UpdateDies DEF FreeBlocks
  <2>4. CASE ~(dir.raw \/ ~dir.made \/ dir.bin = "raw")
    <3>1. /\ dir' = [dir EXCEPT !.tmp = {}, !.tmpc = {}, !.part = {}]
          /\ carried' = carried \cup memtable
          /\ client' = [client EXCEPT ![c].pc = "unlink", ![c].todo = There]
          /\ UNCHANGED <<lists, comp, dump, process, collided>>
      BY <1>7, <2>4 DEF FreeBlocks
    <3>2. /\ client'[c].pc = "unlink" /\ client'[c].ptr = client[c].ptr
          /\ client'[c].raced = client[c].raced /\ client'[c].todo = There
          /\ \A x \in Clients \ {c} : client'[x] = client[x]
      BY <1>3, <3>1 DEF Thread
    <3>3. ByUpdate(c) BY <3>1, <3>2 DEF ByUpdate, lists, process, DropPcs
    <3>4. /\ dir'.made /\ dir'.bin = dir.bin /\ dir'.meta = dir.meta /\ ~dir'.raw
          /\ dir'.tmp = {} /\ dir'.tmpc = {} /\ dir'.part = {}
      BY <1>3, <2>4, <3>1 DEF Dir
    <3>5. ~collided => UnderDrop(client[c])'
      <4> SUFFICES ASSUME ~collided PROVE UnderDrop(client[c])' OBVIOUS
      <4>1. Len(sysTables) = 1 /\ client[c].ptr = Head(sysTables) /\ Whole
        BY <1>2, <2>1 DEF UnderDrop
      <4>2. "bin" \in There /\ "meta" \in There BY <4>1 DEF Whole, There, Files
      <4>3. Gone' BY <3>1, <3>4 DEF Gone, Kept, lists
      <4> QED BY <3>1, <3>2, <3>4, <4>1, <4>2, <4>3 DEF UnderDrop, Whole, lists
    <3> QED BY <1>1, <3>1, <3>2, <3>3, <3>5, UpdateLife DEF lists, DropPcs
  <2> QED BY <2>2, <2>3, <2>4
<1>8. CASE Unlink(c)
  <2>1. /\ client[c].pc = "unlink"
        /\ UNCHANGED <<lists, comp, dump, process, history>>
    BY <1>8 DEF Unlink
  <2>2. PICK f \in client[c].todo : /\ dir' = Without(f)
                                   /\ client' = [client EXCEPT ![c].todo = @ \ {f}]
    BY <1>8 DEF Unlink
  <2>3. /\ client'[c].pc = "unlink" /\ client'[c].ptr = client[c].ptr
        /\ client'[c].raced = client[c].raced /\ client'[c].todo = client[c].todo \ {f}
        /\ \A x \in Clients \ {c} : client'[x] = client[x]
    BY <1>3, <2>1, <2>2 DEF Thread
  <2>4. ByUpdate(c) BY <2>1, <2>3 DEF ByUpdate, lists, process, history, DropPcs
  <2>5. ~collided => UnderDrop(client[c])'
    <3> SUFFICES ASSUME ~collided PROVE UnderDrop(client[c])' OBVIOUS
    <3>1. UnderDrop(client[c]) BY <1>2
    <3>2. f \in {"bin", "meta"} BY <1>3 DEF Files
    <3>3. /\ dir'.made = dir.made /\ dir'.raw = dir.raw /\ dir'.tmp = dir.tmp
          /\ dir'.tmpc = dir.tmpc /\ dir'.part \subseteq dir.part
          /\ dir'.bin = IF f = "bin" THEN "none" ELSE dir.bin
          /\ dir'.meta = IF f = "meta" THEN "none" ELSE dir.meta
      BY <1>3, <2>2, <3>2 DEF Without, Dir
    <3>4. Gone' BY <2>1, <3>1, <3>3 DEF UnderDrop, Gone, Kept, lists, history
    <3> QED BY <2>1, <2>3, <3>1, <3>2, <3>3, <3>4 DEF UnderDrop, lists, history
  <2> QED BY <1>1, <2>1, <2>3, <2>4, <2>5, UpdateLife DEF lists, DropPcs
<1>9. CASE RemoveDirectory(c)
  <2> DEFINE left == There # {} \/ dir.raw \/ dir.tmp \cup dir.tmpc # {}
             d == [dir EXCEPT !.made = left]
  <2>1. /\ client[c].pc = "unlink" /\ client[c].todo = {} /\ OnDirectory(c, d, "unlock")
    BY <1>9 DEF RemoveDirectory
  <2>2. /\ d.made = left /\ d.bin = dir.bin /\ d.meta = dir.meta /\ d.tmp = dir.tmp
        /\ d.tmpc = dir.tmpc /\ d.part = dir.part
    BY <1>3 DEF Dir
  <2>3. "unlock" \in DropPcs BY DEF DropPcs
  <2>4. ~collided => UnderDrop(client[c])'
    <3> SUFFICES ASSUME ~collided PROVE UnderDrop(client[c])' OBVIOUS
    <3>1. UnderDrop(client[c]) BY <1>2
    <3>2. There = {} BY <2>1, <3>1 DEF UnderDrop, There, Files
    <3>3. left => carried # {} BY <2>1, <3>1, <3>2 DEF UnderDrop
    <3> HIDE DEF d, left
    <3> QED BY <2>1, <2>2, <2>3, <3>1, <3>3, OnDirectoryFacts DEF UnderDrop, Bare, Gone, Kept
  <2> HIDE DEF d
  <2> QED BY <1>1, <2>1, <2>3, <2>4, OnDirectoryFacts, UpdateLife
<1>10. CASE UnlockDropped(c)
  <2>1. client[c].pc = "unlock" BY <1>10 DEF UnlockDropped
  <2>2. CASE client[c].ptr \in freed
    BY <1>1, <1>4, <1>10, <2>1, <2>2, UpdateDies DEF UnlockDropped
  <2>3. CASE client[c].ptr \notin freed
    <3>1. /\ client' = [client EXCEPT ![c].pc = "forget"]
          /\ UNCHANGED <<dir, memtable, sysTables, freed, comp, dump, process, history>>
      BY <1>10, <2>3 DEF UnlockDropped, Goto
    <3>2. /\ client'[c].pc = "forget" /\ client'[c].raced = client[c].raced
          /\ \A x \in Clients \ {c} : client'[x] = client[x]
      BY <1>3, <3>1 DEF Thread
    <3>3. ByUpdate(c) BY <3>1, <3>2 DEF ByUpdate, process, history, DropPcs
    <3>4. ~collided => UnderDrop(client[c])'
      BY <1>2, <2>1, <3>1, <3>2 DEF UnderDrop, Bare, Gone, Kept, process, history
    <3> QED BY <1>1, <3>1, <3>2, <3>3, <3>4, UpdateLife DEF DropPcs
  <2> QED BY <2>2, <2>3
<1>11. CASE DeleteTableFromMemory(c)
  <2>1. /\ client[c].pc = "forget" /\ client' = [client EXCEPT ![c] = Idle]
        /\ UNCHANGED <<dir, memtable, comp, dump, process, history>>
    BY <1>11 DEF DeleteTableFromMemory, Done
  <2>2. \/ sysTables = <<>> /\ UNCHANGED <<sysTables, freed>>
        \/ /\ sysTables # <<>> /\ sysTables' = Tail(sysTables)
           /\ freed' = freed \cup {Head(sysTables)}
    BY <1>11 DEF DeleteTableFromMemory
  <2>3. client'[c] = Idle /\ \A x \in Clients \ {c} : client'[x] = client[x] BY <1>3, <2>1
  <2>4. ByUpdate(c) BY <2>1, <2>2, <2>3 DEF ByUpdate, process, history
  <2>5. ~collided => Absent'
    <3> SUFFICES ASSUME ~collided PROVE Absent' OBVIOUS
    <3>1. UnderDrop(client[c]) BY <1>2
    <3>2. sysTables' = <<>> BY <1>3, <2>2, <3>1 DEF UnderDrop
    <3> QED BY <2>1, <3>1, <3>2 DEF UnderDrop, Absent, Bare, Gone, Kept, history
  <2>6. TableInv' BY <1>1, <2>3, <2>4, <2>5, UpdateTable DEF LifeInv
  <2>7. RacedInv' BY <1>1, <2>4, UpdateRaced DEF LifeInv
  <2>8. ProcessInv'
    <3>1. \A n \in DOMAIN sysTables' : \E m \in DOMAIN sysTables : sysTables'[n] = sysTables[m]
      BY <1>3, <2>2
    <3> QED BY <2>1, <3>1 DEF LifeInv, ProcessInv, Up, process
  <2> QED BY <2>1, <2>6, <2>7, <2>8 DEF LifeInv, NobodyDiesUnlessRaced, process
<1> QED BY <1>5, <1>6, <1>7, <1>8, <1>9, <1>10, <1>11 DEF DropStep

-----------------------------------------------------------------------------
(* The other threads.  What is in the files changes hands, and the table   *)
(* stays as it is.                                                         *)

\* What a dump or a compaction may do to the directory.
FilesKept ==
  /\ dir'.made = dir.made /\ dir'.bin = dir.bin /\ dir'.meta = dir.meta
  /\ carried \subseteq carried'
  /\ Own => Own'
  /\ Gone => Gone'
  /\ dir'.raw \/ dir'.tmp # {} \/ dir'.tmpc # {} =>
       dir.raw \/ dir.tmp # {} \/ dir.tmpc # {} \/ memtable # {}

\* No update makes a step, nor a compactor one that saves other inserts.
NoUpdate ==
  /\ \A c \in Clients : Updating(c) => client'[c] = client[c]
  /\ \A c \in Clients : ~Updating(c) => ~Updating(c)'
  /\ UNCHANGED <<sysTables, freed, gen, status, collided>>

LEMMA WholeKept ==
  ASSUME NoUpdate, FilesKept
  PROVE  /\ Whole => Whole'
         /\ Absent => Absent'
         /\ ~Disturbed <=> ~Disturbed'
         /\ \A c \in Clients : Updating(c) <=> Updating(c)'
<1>1. \A c \in Clients : Updating(c) <=> Updating(c)' BY DEF NoUpdate, Updating
<1>2. Whole => Whole' BY DEF NoUpdate, FilesKept, Whole, Up
<1>3. Absent => Absent' BY DEF NoUpdate, FilesKept, Absent, Bare
<1> QED BY <1>1, <1>2, <1>3 DEF Disturbed, NoUpdate

LEMMA TableKept ==
  ASSUME TableInv, NoUpdate, FilesKept,
         \A i \in Ids : comp'[i].pc = "save" /\ comp'[i].ptr \notin freed =>
           \/ comp[i].pc = "save" /\ comp'[i].ptr = comp[i].ptr /\ comp'[i].todo = comp[i].todo
           \/ comp'[i].todo \subseteq dir.tmp
  PROVE  TableInv'
<1> SUFFICES ASSUME ~collided PROVE TableInv' BY DEF NoUpdate, TableInv
<1>1. ~Disturbed' => (Whole \/ Absent)' BY WholeKept DEF TableInv
<1>2. \A c \in Clients : client'[c].pc \in DropPcs \cup CreatePcs => client'[c] = client[c]
  BY WholeKept DEF NoUpdate, Updating
<1>3. ASSUME NEW c \in Clients, client'[c].pc \in DropPcs PROVE UnderDrop(client[c])'
  <2>1. UnderDrop(client[c]) /\ client'[c] = client[c] BY <1>2, <1>3 DEF TableInv
  <2>2. client[c].pc = "unlink" /\ memtable # {} => carried # {}
    BY <2>1 DEF UnderDrop, Gone, Kept
  <2>3. Bare => Bare' BY DEF Bare, FilesKept
  <2> QED BY <2>1, <2>2, <2>3, WholeKept DEF UnderDrop, FilesKept, NoUpdate
<1>4. ASSUME NEW c \in Clients, client'[c].pc \in CreatePcs PROVE UnderCreate(client[c])'
  <2>1. UnderCreate(client[c]) /\ client'[c] = client[c] BY <1>2, <1>4 DEF TableInv
  <2> QED BY <2>1, WholeKept DEF UnderCreate, FilesKept, NoUpdate
<1>5. \A c, d \in Clients : Updating(c)' /\ Updating(d)' => c = d BY WholeKept DEF TableInv
<1>6. ASSUME NEW i \in Ids, comp'[i].pc = "save", comp'[i].ptr \notin freed'
      PROVE  comp'[i].todo \subseteq {gen'} \cup carried'
  <2>1. Own
    <3>1. CASE ~Disturbed BY <3>1 DEF TableInv, Whole, Absent, Bare, Gone, Own
    <3>2. CASE Disturbed
      <4>1. PICK c \in Clients : Updating(c) BY <3>2 DEF Disturbed
      <4>2. (UnderDrop(client[c]) /\ client[c].pc \in DropPcs) \/ UnderCreate(client[c])
        BY <4>1 DEF TableInv, Updating
      <4> QED BY <4>2 DEF UnderDrop, UnderCreate, DropPcs, Whole, Bare, Gone, Own
    <3> QED BY <3>1, <3>2
  <2>2. dir.tmp \subseteq {gen} \cup carried BY <2>1 DEF Own, Kept
  <2> QED BY <1>6, <2>2 DEF NoUpdate, FilesKept, TableInv
<1> QED BY <1>1, <1>3, <1>4, <1>5, <1>6 DEF TableInv

\* A thread keeps what it is known to have, or goes on from the same table.
Follows(old, new) ==
  \/ new = old
  \/ ~Working(new)
  \/ Working(old) /\ new.raced = old.raced /\ (Points(new) => Points(old) /\ new.ptr = old.ptr)
  \/ Working(old) /\ new.raced = old.raced /\ sysTables # <<>> /\ new.ptr = Head(sysTables)

LEMMA FollowsOn ==
  ASSUME IInv, NoUpdate, FilesKept, NEW old, NEW new, Follows(old, new), Undisturbed(old)
  PROVE  Working(new) /\ ~new.raced =>
           ~Disturbed' /\ Whole' /\ (Points(new) => new.ptr \notin freed')
<1>1. sysTables # <<>> => Head(sysTables) \notin freed
  <2>1. sysTables \in Seq(Ids) /\ \A n \in DOMAIN sysTables : sysTables[n] \notin freed
    BY DEF IInv, TypeOK
  <2>2. sysTables # <<>> => Head(sysTables) = sysTables[1] /\ 1 \in DOMAIN sysTables BY <2>1
  <2> QED BY <2>1, <2>2
<1> QED BY <1>1, WholeKept DEF Follows, Undisturbed, NoUpdate

LEMMA RacedKept ==
  ASSUME IInv, RacedInv, NoUpdate, FilesKept,
         \A c \in Clients : Follows(client[c], client'[c]) \/ Undisturbed(client[c])',
         \A c \in Clients : client'[c].pc = "put" => client'[c] = client[c] \/ client'[c].ptr = gen,
         \A i \in Ids : Follows(comp[i], comp'[i]) \/ Undisturbed(comp[i])',
         Follows(dump, dump') \/ Undisturbed(dump)'
  PROVE  RacedInv'
<1>1. \A c \in Clients : Updating(c)' /\ collided' => client'[c].raced
  BY WholeKept DEF RacedInv, NoUpdate
<1>2. ASSUME NEW c \in Clients, ~Updating(c)' PROVE Undisturbed(client[c])'
  <2>1. Undisturbed(client[c]) BY <1>2, WholeKept DEF RacedInv
  <2> QED BY <2>1, FollowsOn DEF Undisturbed, Working, Points
<1>3. \A c \in Clients : client'[c].pc = "put" /\ ~client'[c].raced => client'[c].ptr = gen'
  BY DEF RacedInv, NoUpdate
<1>4. ASSUME NEW i \in Ids PROVE Undisturbed(comp[i])'
  <2>1. Undisturbed(comp[i]) BY DEF RacedInv
  <2> QED BY <2>1, FollowsOn DEF Undisturbed, Working, Points
<1>5. Undisturbed(dump)'
  <2>1. Undisturbed(dump) BY DEF RacedInv
  <2> QED BY <2>1, FollowsOn DEF Undisturbed, Working, Points
<1> QED BY <1>1, <1>2, <1>3, <1>4, <1>5 DEF RacedInv

\* A thread that is not updating, and was not overtaken, finds the table as it
\* should be: it does not die.
LEMMA SafeThread ==
  ASSUME IInv, LifeInv, NEW t, Undisturbed(t), Working(t), Dies(t),
         ~(Whole /\ (Points(t) => t.ptr \notin freed))
  PROVE  LifeInv'
BY DiesLife DEF Undisturbed

\* Without an entry in the list, while the process is up, there is no table.
LEMMA NoEntry == ASSUME IInv, Up, sysTables = <<>> PROVE ~Whole
BY DEF Whole

-----------------------------------------------------------------------------
(* Each step of the others keeps it.                                       *)

LEMMA BeginLife ==
  ASSUME IInv, LifeInv, NEW c \in Clients, BeginCreate(c) \/ BeginDrop(c)
  PROVE  LifeInv'
<1>1. PICK label \in {"mkdir", "entry"}, ptr \in Ids :
        /\ client' = [x \in Clients |->
                        IF x = c THEN Looking(label, ptr) ELSE Overtaken(client[x])]
        /\ comp' = [i \in Ids |-> Overtaken(comp[i])]
        /\ dump' = Overtaken(dump)
        /\ collided' = Disturbed
        /\ label = "mkdir" <=> BeginCreate(c)
        /\ label = "entry" => BeginDrop(c)
  <2>1. CASE BeginCreate(c)
    <3>1. gen + 1 \in Ids
      BY <2>1, BoundsAssumption DEF BeginCreate, IInv, TypeOK, Ids
    <3> QED BY <2>1, <3>1 DEF BeginCreate, BeginDrop, BeginUpdate
  <2>2. CASE BeginDrop(c)
    BY <2>2, IdleTypes DEF BeginCreate, BeginDrop, BeginUpdate
  <2> QED BY <2>1, <2>2
<1>2. /\ Up /\ ~collided /\ client[c].pc = "idle"
      /\ UNCHANGED <<dir, memtable, sysTables, freed, status, carried>>
  BY DEF BeginCreate, BeginDrop, Ready, Calm, lists, process
<1>3. /\ client'[c].pc = label /\ client'[c].raced = Disturbed
      /\ \A x \in Clients \ {c} : /\ client'[x].pc = client[x].pc
                                  /\ Working(client'[x]) => client'[x].raced
      /\ \A i \in Ids : /\ comp'[i].pc = comp[i].pc /\ comp'[i].ptr = comp[i].ptr
                        /\ comp'[i].todo = comp[i].todo
                        /\ Working(comp'[i]) => comp'[i].raced
      /\ dump'.pc = dump.pc /\ (Working(dump') => dump'.raced)
  BY <1>1 DEF Looking, Overtaken, Working, IInv, TypeOK, Thread
<1>4. Updating(c)' BY <1>3 DEF Updating, DropPcs, CreatePcs
<1>5. ProcessInv'
  <2>1. \A n \in DOMAIN sysTables : sysTables[n] \in Ids BY DEF IInv, TypeOK
  <2> QED BY <1>2, <1>3, <2>1 DEF LifeInv, ProcessInv, Up
<1>6. RacedInv'
  <2>1. \A x \in Clients : Updating(x)' /\ collided' => client'[x].raced
    BY <1>1, <1>3 DEF Updating, Working, NotLooked, DropPcs, CreatePcs
  <2>2. ASSUME NEW x \in Clients, ~Updating(x)' PROVE Undisturbed(client[x])'
    <3>1. Working(client'[x]) => client'[x].raced BY <1>3, <1>4, <2>2
    <3> QED BY <3>1 DEF Undisturbed, Working
  <2>3. \A x \in Clients : client'[x].pc = "put" /\ ~client'[x].raced => client'[x].ptr = gen'
    BY <1>3 DEF Working, NotLooked
  <2>4. ASSUME NEW i \in Ids PROVE Undisturbed(comp[i])'
    BY <1>3 DEF Undisturbed, Working
  <2>5. Undisturbed(dump)' BY <1>3 DEF Undisturbed, Working
  <2> QED BY <2>1, <2>2, <2>3, <2>4, <2>5 DEF RacedInv
<1>7. TableInv'
  <2> SUFFICES ASSUME ~collided' PROVE TableInv' BY DEF TableInv
  <2>1. ~Disturbed BY <1>1
  <2>2. \A x \in Clients : ~Updating(x) BY <2>1 DEF Disturbed
  <2>3. \A x \in Clients \ {c} : ~Updating(x)' BY <1>3, <2>2 DEF Updating
  <2>4. Whole \/ Absent BY <1>2, <2>1 DEF LifeInv, TableInv
  <2>5. Disturbed' BY <1>4 DEF Disturbed
  <2>6. CASE BeginCreate(c)
    <3>1. label = "mkdir" BY <1>1, <2>6
    <3>2. Absent BY <2>4, <2>6 DEF BeginCreate, Exists, Whole
    <3>3. UnderCreate(client[c])' /\ client'[c].pc \notin DropPcs
      BY <1>2, <1>3, <3>1, <3>2 DEF UnderCreate, Absent, Bare, Gone, Kept, DropPcs
    <3>4. ASSUME NEW i \in Ids, comp'[i].pc = "save" PROVE comp'[i].ptr \in freed'
      <4>1. First(comp[i].ptr) BY <1>3, <3>4 DEF IInv, Rest, PointerInv, CompInside
      <4> QED BY <1>2, <1>3, <3>2, <4>1 DEF First, Absent
    <3> QED BY <2>3, <2>5, <3>3, <3>4 DEF TableInv, Updating
  <2>7. CASE ~BeginCreate(c)
    <3>1. label = "entry" /\ BeginDrop(c) BY <1>1, <2>7
    <3>2. Whole /\ gen' = gen
      BY <2>4, <3>1 DEF BeginDrop, Exists, Absent, Bare, process
    <3>3. UnderDrop(client[c])' /\ client'[c].pc \notin CreatePcs
      BY <1>2, <1>3, <3>1, <3>2 DEF UnderDrop, Whole, Own, Kept, CreatePcs, Up
    <3>4. \A i \in Ids : comp'[i].pc = "save" /\ comp'[i].ptr \notin freed' =>
                           comp'[i].todo \subseteq {gen'} \cup carried'
      BY <1>2, <1>3, <3>2 DEF LifeInv, TableInv
    <3> QED BY <2>3, <2>5, <3>3, <3>4 DEF TableInv, Updating
  <2> QED BY <2>6, <2>7
<1> QED BY <1>2, <1>5, <1>6, <1>7 DEF LifeInv, NobodyDiesUnlessRaced

\* A thread that is not updating moves, and nothing else does.
LEMMA QuietLife ==
  ASSUME IInv, LifeInv, NoUpdate, UNCHANGED <<dir, memtable, carried>>,
         \A c \in Clients : Follows(client[c], client'[c]) \/ Undisturbed(client[c])',
         \A c \in Clients : client'[c].pc = "put" => client'[c] = client[c] \/ client'[c].ptr = gen,
         \A i \in Ids : Follows(comp[i], comp'[i]) \/ Undisturbed(comp[i])',
         Follows(dump, dump') \/ Undisturbed(dump)',
         \A i \in Ids : comp'[i].pc = "save" => comp'[i] = comp[i],
         \A i \in Ids : comp'[i].pc = "idle" => comp[i].pc = "idle" \/ sysTables = <<>>,
         dump'.pc # "idle" => dump.pc # "idle" \/ memtable # {}
  PROVE  LifeInv'
<1>1. FilesKept BY DEF FilesKept, NoUpdate, Own, Gone, Kept
<1>2. TableInv' BY <1>1, TableKept DEF LifeInv
<1>3. RacedInv' BY <1>1, RacedKept DEF LifeInv
<1>4. ProcessInv'
  <2>1. \A n \in DOMAIN sysTables : sysTables[n] \in Ids BY DEF IInv, TypeOK
  <2>2. sysTables = <<>> => DOMAIN sysTables = {} OBVIOUS
  <2> QED BY <2>1, <2>2 DEF LifeInv, ProcessInv, NoUpdate, Up
<1> QED BY <1>2, <1>3, <1>4 DEF LifeInv, NobodyDiesUnlessRaced, NoUpdate

\* A client moves.
LEMMA ClientQuiet ==
  ASSUME IInv, LifeInv, NEW c \in Clients, ~Updating(c), ~Updating(c)',
         \A x \in Clients \ {c} : client'[x] = client[x],
         Follows(client[c], client'[c]) \/ Undisturbed(client[c])',
         client'[c].pc = "put" => client'[c].ptr = gen,
         UNCHANGED <<dir, memtable, sysTables, freed, comp, dump, gen, status, carried, collided>>
  PROVE  LifeInv'
<1>1. NoUpdate BY DEF NoUpdate, Updating
<1> QED BY <1>1, QuietLife DEF Follows

LEMMA FoundLife ==
  ASSUME IInv, LifeInv, NEW c \in Clients, NEW label \in {"put", "getMetadata", "describing"},
         Found(c, label)
  PROVE  LifeInv'
<1>1. /\ Up /\ client[c].pc = "idle" /\ Exists
      /\ client' = [client EXCEPT ![c] = Looking(label, gen)]
      /\ UNCHANGED <<dir, memtable, sysTables, freed, comp, dump, gen, status, carried, collided>>
  BY DEF Found, Ready, Calm, lists, process, history
<1>2. /\ client'[c].pc = label /\ client'[c].ptr = gen /\ client'[c].raced = Disturbed
      /\ \A x \in Clients \ {c} : client'[x] = client[x]
  BY <1>1 DEF Looking, IInv, TypeOK
<1>3. ~Updating(c) /\ ~Updating(c)' BY <1>1, <1>2 DEF Updating, DropPcs, CreatePcs
<1>4. NoUpdate /\ FilesKept
  BY <1>1, <1>2, <1>3 DEF NoUpdate, FilesKept, Updating, Own, Gone, Kept
<1>5. ~Disturbed => Whole
  BY <1>1 DEF LifeInv, TableInv, Absent, Bare, Exists, Disturbed
<1>6. Undisturbed(client[c])'
  <2>1. ~Points(client'[c]) BY <1>2 DEF Points
  <2>2. ~client'[c].raced => ~Disturbed' /\ Whole' BY <1>2, <1>4, <1>5, WholeKept
  <2> QED BY <2>1, <2>2 DEF Undisturbed, Points
<1> QED BY <1>1, <1>2, <1>3, <1>6, ClientQuiet

LEMMA QueryLife == ASSUME IInv, LifeInv, NEW c \in Clients, Query(c) PROVE LifeInv'
BY BeginLife, FoundLife DEF Query, LookToInsert, LookToSelect, LookToDescribe

LEMMA AccessLife == ASSUME IInv, LifeInv, NEW c \in Clients, AccessStep(c) PROVE LifeInv'
<1>1. client[c].pc \in {"put", "getMetadata", "getTable", "reading", "readTmps", "describing"}
  BY DEF AccessStep, PutInMemtable, ReadMetadata, EntryToRead, ListTmps, ReadTmpFiles,
         GetTableMetadata
<1>2. /\ ~Updating(c) /\ Working(client[c]) /\ Undisturbed(client[c])
      /\ client[c].pc \in {"reading", "readTmps"} <=> Points(client[c])
  BY <1>1 DEF Updating, DropPcs, CreatePcs, Working, NotLooked, Points, LifeInv, RacedInv
<1>3. Up BY <1>1 DEF IInv, Rest, DownInv, Idle
<1>4. client \in [Clients -> Thread(Files)] BY DEF IInv, TypeOK
\* The thread goes on, or is done.
<1>5. ASSUME NEW new, client' = [client EXCEPT ![c] = new],
             new = Idle \/ (new.pc \in {"getTable", "reading", "readTmps"}
                            /\ new.raced = client[c].raced),
             new.pc = "readTmps" => client[c].pc = "reading" /\ new.ptr = client[c].ptr,
             new.pc = "reading" => sysTables # <<>> /\ new.ptr = Head(sysTables),
             UNCHANGED <<dir, lists, comp, dump, process, history>>
      PROVE  LifeInv'
  <2>1. client'[c] = new /\ \A x \in Clients \ {c} : client'[x] = client[x] BY <1>4, <1>5
  <2>2. ~Updating(c)' /\ new.pc # "put" BY <1>5, <2>1 DEF Updating, DropPcs, CreatePcs, Idle
  <2>3. Follows(client[c], new)
    BY <1>2, <1>5 DEF Follows, Working, NotLooked, Points, Idle
  <2> QED BY <1>2, <1>5, <2>1, <2>2, <2>3, ClientQuiet DEF lists, process, history
<1>6. CASE PutInMemtable(c)
  <2>1. /\ client[c].pc = "put" /\ dump.pc = "idle" /\ client' = [client EXCEPT ![c] = Idle]
        /\ memtable' = memtable \cup {client[c].ptr}
        /\ carried' = IF client[c].raced THEN carried \cup {client[c].ptr} ELSE carried
        /\ UNCHANGED <<dir, sysTables, freed, comp, dump, gen, status, collided>>
    BY <1>6 DEF PutInMemtable, Done, process
  <2>2. client'[c] = Idle /\ \A x \in Clients \ {c} : client'[x] = client[x] BY <1>4, <2>1
  <2>3. NoUpdate
    BY <1>2, <2>1, <2>2 DEF NoUpdate, Updating, Idle, DropPcs, CreatePcs
  <2>4. CASE client[c].raced
    <3>1. FilesKept BY <2>1, <2>4 DEF FilesKept, Own, Gone, Kept
    <3>2. TableInv' BY <2>1, <2>3, <3>1, TableKept DEF LifeInv
    <3>3. \A x \in Clients : Follows(client[x], client'[x])
      BY <2>2 DEF Follows, Working, NotLooked, Idle
    <3>4. RacedInv'
      <4>1. /\ \A x \in Clients : client'[x].pc = "put" => client'[x] = client[x]
            /\ \A i \in Ids : Follows(comp[i], comp'[i])
            /\ Follows(dump, dump')
        BY <2>1, <2>2 DEF Follows, Idle
      <4> QED BY <2>3, <3>1, <3>3, <4>1, RacedKept DEF LifeInv
    <3>5. ProcessInv' BY <1>3, <2>1 DEF LifeInv, ProcessInv, Up
    <3> QED BY <2>1, <3>2, <3>4, <3>5 DEF LifeInv, NobodyDiesUnlessRaced
  <2>5. CASE ~client[c].raced
    <3>1. ~Disturbed /\ Whole /\ client[c].ptr = gen
      BY <1>2, <2>1, <2>5 DEF Undisturbed, LifeInv, RacedInv
    <3>2. Own' BY <2>1, <2>5, <3>1 DEF Whole, Own, Kept
    <3>3. Whole' BY <2>1, <3>1, <3>2 DEF Whole, Up
    <3>4. \A x \in Clients : ~Updating(x) /\ ~Updating(x)'
      BY <2>3, <3>1 DEF Disturbed, NoUpdate
    <3>5. ~Disturbed' BY <2>1, <3>1, <3>4 DEF Disturbed
    <3>6. TableInv' 
      <4>1. \A i \in Ids : comp'[i].pc = "save" /\ comp'[i].ptr \notin freed' =>
                             comp'[i].todo \subseteq {gen'} \cup carried'
        BY <2>1, <2>5, <3>1 DEF LifeInv, TableInv, Disturbed
      <4> QED BY <3>3, <3>4, <4>1 DEF TableInv, Updating
    <3>7. RacedInv'
      <4>1. \A x \in Clients : client'[x] = client[x] \/ client'[x] = Idle BY <2>2
      <4>2. \A x \in Clients : Undisturbed(client[x])
        BY <3>4 DEF LifeInv, RacedInv
      <4>3. \A x \in Clients : Undisturbed(client[x])'
        BY <2>1, <3>3, <3>5, <4>1, <4>2 DEF Undisturbed, Working, NotLooked, Points, Idle
      <4>4. /\ \A i \in Ids : Undisturbed(comp[i])'
            /\ Undisturbed(dump)'
        BY <2>1, <3>3, <3>5 DEF LifeInv, RacedInv, Undisturbed, Working, Points
      <4>5. \A x \in Clients : client'[x].pc = "put" /\ ~client'[x].raced => client'[x].ptr = gen'
        BY <2>1, <4>1 DEF LifeInv, RacedInv, Idle
      <4> QED BY <3>4, <4>3, <4>4, <4>5 DEF RacedInv
    <3>8. ProcessInv' BY <1>3, <2>1 DEF LifeInv, ProcessInv, Up
    <3> QED BY <2>1, <3>6, <3>7, <3>8 DEF LifeInv, NobodyDiesUnlessRaced
  <2> QED BY <2>4, <2>5
<1>7. CASE ReadMetadata(c)
  <2>1. CASE dir.meta # "full" BY <1>2, <1>7, <2>1, SafeThread DEF ReadMetadata, Whole
  <2>2. CASE dir.meta = "full"
    <3>1. /\ client' = [client EXCEPT ![c].pc = "getTable"]
          /\ UNCHANGED <<dir, lists, comp, dump, process, history>>
      BY <1>7, <2>2 DEF ReadMetadata, Goto
    <3>2. client' = [client EXCEPT ![c] = [client[c] EXCEPT !.pc = "getTable"]] BY <3>1
    <3>3. /\ [client[c] EXCEPT !.pc = "getTable"].pc = "getTable"
          /\ [client[c] EXCEPT !.pc = "getTable"].raced = client[c].raced
      BY <1>4 DEF Thread
    <3> QED BY <1>5, <3>1, <3>2, <3>3
  <2> QED BY <2>1, <2>2
<1>8. CASE EntryToRead(c)
  <2>1. CASE sysTables = <<>>
    BY <1>2, <1>3, <1>8, <2>1, NoEntry, SafeThread DEF EntryToRead, FindEntry
  <2>2. CASE sysTables # <<>>
    <3> DEFINE new == [client[c] EXCEPT !.pc = "reading", !.ptr = Head(sysTables)]
    <3>1. /\ client' = [client EXCEPT ![c] = new]
          /\ UNCHANGED <<dir, lists, comp, dump, process, history>>
      BY <1>8, <2>2 DEF EntryToRead, FindEntry
    <3>2. new.pc = "reading" /\ new.raced = client[c].raced /\ new.ptr = Head(sysTables)
      BY <1>4 DEF Thread
    <3> HIDE DEF new
    <3> QED BY <1>5, <2>2, <3>1, <3>2
  <2> QED BY <2>1, <2>2
<1>9. ASSUME Done(c), UNCHANGED <<dir, lists, comp, dump, process, history>> PROVE LifeInv'
  BY <1>5, <1>9 DEF Done, Idle
<1>10. CASE ListTmps(c)
  <2>1. CASE dir.raw BY <1>10, <2>1, EndsLife DEF ListTmps
  <2>2. CASE ~dir.raw /\ (client[c].ptr \in freed \/ dir.bin # "ready")
    <3>1. client[c].pc = "reading" /\ Dies(client[c]) BY <1>10, <2>2 DEF ListTmps
    <3> QED BY <1>2, <2>2, <3>1, SafeThread DEF Whole
  <2>3. CASE ~(dir.raw \/ client[c].ptr \in freed \/ dir.bin # "ready")
    <3>1. CASE dir.tmp = {} BY <1>9, <1>10, <2>3, <3>1 DEF ListTmps, Done
    <3>2. CASE dir.tmp # {}
      <4> DEFINE new == [client[c] EXCEPT !.pc = "readTmps"]
      <4>1. /\ client[c].pc = "reading" /\ client' = [client EXCEPT ![c] = new]
            /\ UNCHANGED <<dir, lists, comp, dump, process, history>>
        BY <1>10, <2>3, <3>2 DEF ListTmps
      <4>2. new.pc = "readTmps" /\ new.raced = client[c].raced /\ new.ptr = client[c].ptr
        BY <1>4 DEF Thread
      <4> HIDE DEF new
      <4> QED BY <1>5, <4>1, <4>2
    <3> QED BY <3>1, <3>2
  <2> QED BY <2>1, <2>2, <2>3
<1>12. CASE ReadTmpFiles(c)
  <2>1. CASE client[c].ptr \in freed
    <3>1. client[c].pc = "readTmps" /\ Dies(client[c]) BY <1>12, <2>1 DEF ReadTmpFiles
    <3> QED BY <1>2, <2>1, <3>1, SafeThread
  <2>2. CASE client[c].ptr \notin freed /\ dir.tmp = {}
    BY <1>12, <2>2, EndsLife DEF ReadTmpFiles
  <2>3. CASE client[c].ptr \notin freed /\ dir.tmp # {}
    BY <1>9, <1>12, <2>3 DEF ReadTmpFiles
  <2> QED BY <2>1, <2>2, <2>3
<1>11. CASE GetTableMetadata(c)
  <2>1. CASE dir.meta = "empty" BY <1>2, <1>11, <2>1, SafeThread DEF GetTableMetadata, Whole
  <2>2. CASE dir.meta # "empty" BY <1>9, <1>11, <2>2 DEF GetTableMetadata
  <2> QED BY <2>1, <2>2
<1> QED BY <1>6, <1>7, <1>8, <1>10, <1>11, <1>12 DEF AccessStep

LEMMA DumpLife == ASSUME IInv, LifeInv, DumpStep PROVE LifeInv'
<1>1. Undisturbed(dump) /\ dump \in Thread({}) /\ dir \in Dir
  BY DEF LifeInv, RacedInv, IInv, TypeOK
<1>2. ASSUME dump.pc # "idle" PROVE Up /\ memtable # {}
  BY <1>2 DEF IInv, Rest, DownInv, Idle, LifeInv, ProcessInv
\* The files are as the dump leaves them.
<1>3. ASSUME UNCHANGED <<sysTables, freed, client, comp, gen, status, carried, collided>>,
             FilesKept, Follows(dump, dump') \/ Undisturbed(dump)',
             ~Up => memtable' = {}, dump'.pc # "idle" => memtable' # {}
      PROVE  LifeInv'
  <2>1. NoUpdate BY <1>3 DEF NoUpdate, Updating
  <2>2. TableInv' BY <1>3, <2>1, TableKept DEF LifeInv
  <2>3. RacedInv' BY <1>3, <2>1, RacedKept DEF LifeInv, Follows
  <2>4. ProcessInv' BY <1>3 DEF LifeInv, ProcessInv, Up
  <2> QED BY <1>3, <2>2, <2>3, <2>4 DEF LifeInv, NobodyDiesUnlessRaced
<1>4. ASSUME UNCHANGED <<dir, memtable, carried, sysTables, gen, status>> PROVE FilesKept
  BY <1>4 DEF FilesKept, Own, Gone, Kept
<1>5. CASE StartDump
  <2>1. /\ Up /\ memtable # {} /\ ~collided
        /\ dump' = [Looking("entry", 0) EXCEPT !.raced = @ \/ memtable \cap carried # {}]
        /\ UNCHANGED <<dir, memtable, sysTables, freed, client, comp, gen, status, carried, collided>>
    BY <1>5 DEF StartDump, Calm, lists, process, history
  <2>2. dump'.pc = "entry" /\ dump'.raced = (Disturbed \/ memtable \cap carried # {})
    BY <2>1 DEF Looking
  <2>3. ~dump'.raced => ~Disturbed /\ Whole
    BY <2>1, <2>2 DEF LifeInv, TableInv, Absent, Bare, Gone, Kept, Disturbed
  <2>4. NoUpdate /\ FilesKept BY <2>1, <1>4 DEF NoUpdate, Updating
  <2>5. Undisturbed(dump)'
    <3>1. ~Points(dump') BY <2>2 DEF Points
    <3> QED BY <2>3, <2>4, <3>1, WholeKept DEF Undisturbed, Points
  <2> QED BY <1>3, <2>1, <2>4, <2>5 
<1>6. CASE EntryToDump
  <2>1. dump.pc = "entry" /\ Working(dump) BY <1>6 DEF EntryToDump, Working, NotLooked
  <2>2. CASE sysTables = <<>>
    BY <1>1, <1>2, <1>6, <2>1, <2>2, NoEntry, SafeThread DEF EntryToDump, FindEntry
  <2>3. CASE sysTables # <<>>
    <3>1. /\ dump' = [dump EXCEPT !.pc = "open", !.ptr = Head(sysTables)]
          /\ UNCHANGED <<dir, memtable, sysTables, freed, client, comp, gen, status, carried, collided>>
      BY <1>6, <2>3 DEF EntryToDump, FindEntry, lists, process, history
    <3>2. dump'.pc = "open" /\ dump'.ptr = Head(sysTables) /\ dump'.raced = dump.raced
      BY <1>1, <3>1 DEF Thread
    <3>3. Follows(dump, dump') BY <2>1, <2>3, <3>2 DEF Follows
    <3> QED BY <1>2, <1>3, <1>4, <2>1, <3>1, <3>2, <3>3
  <2> QED BY <2>2, <2>3
<1>7. CASE OpenTmp
  <2>1. dump.pc = "open" /\ Working(dump) /\ Points(dump)
    BY <1>7 DEF OpenTmp, Working, NotLooked, Points
  <2>2. CASE dump.ptr \in freed \/ ~dir.made
    BY <1>1, <1>7, <2>1, <2>2, SafeThread DEF OpenTmp, Whole
  <2>3. CASE ~(dump.ptr \in freed \/ ~dir.made)
    <3>1. /\ dir' = [dir EXCEPT !.raw = TRUE] /\ dump' = [dump EXCEPT !.pc = "save"]
          /\ UNCHANGED <<memtable, sysTables, freed, client, comp, gen, status, carried, collided>>
      BY <1>7, <2>3 DEF OpenTmp, DumpDoes, lists, process, history
    <3>2. FilesKept
      <4>1. /\ dir'.made = dir.made /\ dir'.bin = dir.bin /\ dir'.meta = dir.meta
            /\ dir'.tmp = dir.tmp /\ dir'.tmpc = dir.tmpc /\ dir'.part = dir.part
        BY <1>1, <3>1 DEF Dir
      <4> QED BY <1>2, <2>1, <3>1, <4>1 DEF FilesKept, Own, Gone, Kept
    <3>3. dump'.pc = "save" /\ dump'.ptr = dump.ptr /\ dump'.raced = dump.raced
      BY <1>1, <3>1 DEF Thread
    <3>4. Follows(dump, dump') BY <2>1, <3>3 DEF Follows
    <3> QED BY <1>2, <1>3, <2>1, <3>1, <3>2, <3>3, <3>4
  <2> QED BY <2>2, <2>3
<1>8. CASE SaveTmp
  <2>1. dump.pc = "save" /\ Working(dump) BY <1>8 DEF SaveTmp, Working, NotLooked
  <2>2. CASE ~dir.made BY <1>1, <1>8, <2>1, <2>2, SafeThread DEF SaveTmp, Whole
  <2>3. CASE dir.made
    <3>1. /\ dir' = [dir EXCEPT !.raw = FALSE, !.tmp = @ \cup memtable]
          /\ dump' = [dump EXCEPT !.pc = "clean"]
          /\ UNCHANGED <<memtable, sysTables, freed, client, comp, gen, status, carried, collided>>
      BY <1>8, <2>3 DEF SaveTmp, DumpDoes, lists, process, history
    <3>2. FilesKept
      <4>1. /\ dir'.made = dir.made /\ dir'.bin = dir.bin /\ dir'.meta = dir.meta
            /\ dir'.tmp = dir.tmp \cup memtable /\ dir'.tmpc = dir.tmpc /\ dir'.part = dir.part
        BY <1>1, <3>1 DEF Dir
      <4>2. Kept' = Kept BY <3>1, <4>1 DEF Kept
      <4> QED BY <1>2, <2>1, <3>1, <4>1, <4>2 DEF FilesKept, Own, Gone
    <3>3. dump'.pc = "clean" /\ dump'.raced = dump.raced BY <1>1, <3>1 DEF Thread
    <3>4. Follows(dump, dump') BY <2>1, <3>3 DEF Follows, Points
    <3> QED BY <1>2, <1>3, <2>1, <3>1, <3>2, <3>3, <3>4
  <2> QED BY <2>2, <2>3
<1>9. CASE CleanMemtable
  <2>1. /\ memtable' = {} /\ dump' = Idle
        /\ UNCHANGED <<dir, sysTables, freed, client, comp, gen, status, carried, collided>>
    BY <1>9 DEF CleanMemtable, process, history
  <2>2. FilesKept BY <2>1 DEF FilesKept, Own, Gone, Kept
  <2>3. Follows(dump, dump') BY <2>1 DEF Follows, Working, NotLooked, Idle
  <2> QED BY <1>3, <2>1, <2>2, <2>3 DEF Idle
<1> QED BY <1>5, <1>6, <1>7, <1>8, <1>9 DEF DumpStep

LEMMA CompactLife == ASSUME IInv, LifeInv, NEW i \in Ids, CompactStep(i) PROVE LifeInv'
<1>1. /\ Undisturbed(comp[i]) /\ comp[i] \in Thread(Ids) /\ dir \in Dir
      /\ comp \in [Ids -> Thread(Ids)]
  BY DEF LifeInv, RacedInv, IInv, TypeOK
<1>2. comp[i].pc # "idle"
  BY DEF CompactStep, Wake, EntryToCompact, LockToCompact, GetCTime, ReadTmps, SaveInPartition,
         UnlockCompacted
<1>3. Up BY <1>2 DEF IInv, Rest, DownInv, Idle
\* It goes on, and the directory may change.
<1>4. ASSUME UNCHANGED <<memtable, sysTables, freed, client, dump, gen, status, carried, collided>>,
             \A j \in Ids \ {i} : comp'[j] = comp[j], FilesKept, TableInv',
             Follows(comp[i], comp'[i]) \/ Undisturbed(comp[i])',
             comp'[i].pc = "idle" => sysTables = <<>>
      PROVE  LifeInv'
  <2>1. NoUpdate BY <1>4 DEF NoUpdate, Updating
  <2>2. RacedInv'
    <3>1. /\ \A c \in Clients : Follows(client[c], client'[c]) /\ client'[c] = client[c]
          /\ \A j \in Ids : Follows(comp[j], comp'[j]) \/ Undisturbed(comp[j])'
          /\ Follows(dump, dump')
      BY <1>4 DEF Follows
    <3> QED BY <1>4, <2>1, <3>1, RacedKept DEF LifeInv
  <2>3. ProcessInv'
    <3>1. \A n \in DOMAIN sysTables : sysTables[n] \in Ids BY DEF IInv, TypeOK
    <3> QED BY <1>3, <1>4, <3>1 DEF LifeInv, ProcessInv, Up
  <2> QED BY <1>4, <2>2, <2>3 DEF LifeInv, NobodyDiesUnlessRaced
\* The directory does not.
<1>5. ASSUME NEW new, comp' = [comp EXCEPT ![i] = new], new.pc # "save",
             UNCHANGED <<dir, memtable, sysTables, freed, client, dump, gen, status, carried, collided>>,
             Follows(comp[i], new) \/ Undisturbed(comp[i])',
             new.pc = "idle" => sysTables = <<>>
      PROVE  LifeInv'
  <2>1. comp'[i] = new /\ \A j \in Ids \ {i} : comp'[j] = comp[j] BY <1>1, <1>5
  <2>2. NoUpdate /\ FilesKept BY <1>5 DEF NoUpdate, Updating, FilesKept, Own, Gone, Kept
  <2>3. TableInv' BY <1>5, <2>1, <2>2, TableKept DEF LifeInv
  <2> QED BY <1>4, <1>5, <2>1, <2>2, <2>3
<1>6. CASE Wake(i)
  <2>1. UNCHANGED <<dir, memtable, sysTables, freed, client, dump, gen, status, carried, collided>>
    BY <1>6 DEF Wake, CompDoes, lists, process, history
  <2>2. CASE sysTables = <<>>
    <3>1. comp' = [comp EXCEPT ![i] = Idle] BY <1>6, <2>2 DEF Wake, CompDoes
    <3>2. Follows(comp[i], Idle) /\ Idle.pc # "save" BY DEF Follows, Working, NotLooked, Idle
    <3> QED BY <1>5, <2>1, <2>2, <3>1, <3>2
  <2>3. CASE sysTables # <<>>
    <3> DEFINE new == Looking("entry", 0)
    <3>1. comp' = [comp EXCEPT ![i] = new] BY <1>6, <2>3 DEF Wake, CompDoes
    <3>2. new.pc = "entry" /\ new.raced = Disturbed BY DEF Looking
    <3> HIDE DEF new
    <3>3. ~Disturbed => Whole BY <2>3 DEF LifeInv, TableInv, Absent, Disturbed
    <3>4. NoUpdate /\ FilesKept BY <2>1 DEF NoUpdate, Updating, FilesKept, Own, Gone, Kept
    <3>5. comp'[i] = new BY <1>1, <3>1
    <3>6. Undisturbed(comp[i])'
      <4>1. ~Points(comp'[i]) BY <3>2, <3>5 DEF Points
      <4> QED BY <3>2, <3>3, <3>4, <3>5, <4>1, WholeKept DEF Undisturbed, Points
    <3> QED BY <1>5, <2>1, <3>1, <3>2, <3>6
  <2> QED BY <2>2, <2>3
<1>7. CASE EntryToCompact(i)
  <2>1. comp[i].pc = "entry" /\ Working(comp[i])
    BY <1>7 DEF EntryToCompact, Working, NotLooked
  <2>2. CASE sysTables = <<>>
    BY <1>1, <1>3, <1>7, <2>1, <2>2, NoEntry, SafeThread DEF EntryToCompact, FindEntry
  <2>3. CASE sysTables # <<>>
    <3> DEFINE new == [comp[i] EXCEPT !.pc = "lock", !.ptr = Head(sysTables)]
    <3>1. /\ comp' = [comp EXCEPT ![i] = new]
          /\ UNCHANGED <<dir, memtable, sysTables, freed, client, dump, gen, status, carried, collided>>
      BY <1>7, <2>3 DEF EntryToCompact, FindEntry, CompDoes, lists, process, history
    <3>2. new.pc = "lock" /\ new.ptr = Head(sysTables) /\ new.raced = comp[i].raced
      BY <1>1 DEF Thread
    <3> HIDE DEF new
    <3>3. Follows(comp[i], new) BY <2>1, <2>3, <3>2 DEF Follows
    <3> QED BY <1>5, <3>1, <3>2, <3>3
  <2> QED BY <2>2, <2>3
\* It has a pointer to the entry, and goes on with it.
<1>8. ASSUME Working(comp[i]), Points(comp[i]), NEW label \in {"getCTime", "compact", "unlock"},
             comp' = [comp EXCEPT ![i].pc = label],
             UNCHANGED <<dir, memtable, sysTables, freed, client, dump, gen, status, carried, collided>>
      PROVE  LifeInv'
  <2> DEFINE new == [comp[i] EXCEPT !.pc = label]
  <2>1. new.pc = label /\ new.ptr = comp[i].ptr /\ new.raced = comp[i].raced BY <1>1 DEF Thread
  <2>2. comp' = [comp EXCEPT ![i] = new] BY <1>8
  <2> HIDE DEF new
  <2>3. Follows(comp[i], new) BY <1>8, <2>1 DEF Follows
  <2> QED BY <1>5, <1>8, <2>1, <2>2, <2>3
<1>9. CASE LockToCompact(i)
  <2>1. comp[i].pc = "lock" /\ Working(comp[i]) /\ Points(comp[i])
    BY <1>9 DEF LockToCompact, Working, NotLooked, Points
  <2>2. CASE comp[i].ptr \in freed
    BY <1>1, <1>9, <2>1, <2>2, SafeThread DEF LockToCompact, LockEntry
  <2>3. CASE comp[i].ptr \notin freed
    BY <1>8, <1>9, <2>1, <2>3 DEF LockToCompact, LockEntry, process, history
  <2> QED BY <2>2, <2>3
<1>10. CASE GetCTime(i)
  <2>1. comp[i].pc = "getCTime" /\ Working(comp[i]) /\ Points(comp[i])
    BY <1>10 DEF GetCTime, Working, NotLooked, Points
  <2>2. CASE comp[i].ptr \in freed \/ dir.meta # "full"
    BY <1>1, <1>10, <2>1, <2>2, SafeThread DEF GetCTime, Whole
  <2>3. CASE ~(comp[i].ptr \in freed \/ dir.meta # "full")
    <3>1. /\ comp' = [comp EXCEPT ![i].pc = "compact"]
          /\ UNCHANGED <<dir, memtable, sysTables, freed, client, dump, gen, status, carried, collided>>
      BY <1>10, <2>3 DEF GetCTime, CompDoes, lists, process, history
    <3> QED BY <1>8, <2>1, <3>1
  <2> QED BY <2>2, <2>3
<1>11. CASE ReadTmps(i)
  <2>1. comp[i].pc = "compact" /\ Working(comp[i]) /\ Points(comp[i])
    BY <1>11 DEF ReadTmps, Working, NotLooked, Points
  <2>2. CASE dir.raw BY <1>11, <2>2, EndsLife DEF ReadTmps
  <2>3. CASE ~dir.raw /\ (comp[i].ptr \in freed \/ ~dir.made)
    BY <1>1, <1>11, <2>1, <2>3, SafeThread DEF ReadTmps, Whole
  <2>4. CASE ~(dir.raw \/ comp[i].ptr \in freed \/ ~dir.made)
    <3> DEFINE new == [comp[i] EXCEPT !.pc = IF dir.tmp = {} THEN "unlock" ELSE "save",
                                      !.todo = dir.tmp]
    <3>1. /\ dir' = [dir EXCEPT !.tmp = {}, !.tmpc = @ \cup dir.tmp]
          /\ comp' = [comp EXCEPT ![i] = new]
          /\ UNCHANGED <<memtable, sysTables, freed, client, dump, gen, status, carried, collided>>
      BY <1>11, <2>4 DEF ReadTmps, CompDoes, lists, process, history
    <3>2. /\ new.pc \in {"unlock", "save"} /\ new.ptr = comp[i].ptr
          /\ new.raced = comp[i].raced /\ new.todo = dir.tmp
      BY <1>1 DEF Thread
    <3> HIDE DEF new
    <3>3. comp'[i] = new /\ \A j \in Ids \ {i} : comp'[j] = comp[j] BY <1>1, <3>1
    <3>4. FilesKept
      <4>1. /\ dir'.made = dir.made /\ dir'.bin = dir.bin /\ dir'.meta = dir.meta
            /\ dir'.raw = dir.raw /\ dir'.tmp = {} /\ dir'.tmpc = dir.tmpc \cup dir.tmp
            /\ dir'.part = dir.part
        BY <1>1, <3>1 DEF Dir
      <4>2. Kept' = Kept BY <3>1, <4>1 DEF Kept
      <4> QED BY <3>1, <4>1, <4>2 DEF FilesKept, Own, Gone
    <3>5. NoUpdate BY <3>1 DEF NoUpdate, Updating
    <3>6. TableInv' BY <3>2, <3>3, <3>4, <3>5, TableKept DEF LifeInv
    <3>7. Follows(comp[i], comp'[i]) BY <2>1, <3>2, <3>3 DEF Follows
    <3> QED BY <1>4, <3>1, <3>2, <3>3, <3>4, <3>6, <3>7
  <2> QED BY <2>2, <2>3, <2>4
<1>12. CASE SaveInPartition(i)
  <2>1. comp[i].pc = "save" /\ Working(comp[i]) /\ Points(comp[i])
    BY <1>12 DEF SaveInPartition, Working, NotLooked, Points
  <2>2. CASE comp[i].ptr \in freed \/ dir.bin # "ready"
    BY <1>1, <1>12, <2>1, <2>2, SafeThread DEF SaveInPartition, Whole
  <2>3. CASE ~(comp[i].ptr \in freed \/ dir.bin # "ready")
    <3> DEFINE new == [comp[i] EXCEPT !.pc = "unlock", !.todo = {}]
    <3>1. /\ dir' = [dir EXCEPT !.part = @ \cup comp[i].todo, !.tmpc = {}]
          /\ comp' = [comp EXCEPT ![i] = new]
          /\ UNCHANGED <<memtable, sysTables, freed, client, dump, gen, status, carried, collided>>
      BY <1>12, <2>3 DEF SaveInPartition, CompDoes, lists, process, history
    <3>2. new.pc = "unlock" /\ new.ptr = comp[i].ptr /\ new.raced = comp[i].raced
      BY <1>1 DEF Thread
    <3> HIDE DEF new
    <3>3. comp'[i] = new /\ \A j \in Ids \ {i} : comp'[j] = comp[j] BY <1>1, <3>1
    <3>4. /\ dir'.made = dir.made /\ dir'.bin = dir.bin /\ dir'.meta = dir.meta
          /\ dir'.raw = dir.raw /\ dir'.tmp = dir.tmp /\ dir'.tmpc = {}
          /\ dir'.part = dir.part \cup comp[i].todo
      BY <1>1, <3>1 DEF Dir
    \* A DROP that has freed the blocks has the mutex of the entry, until the
    \* partition is gone; so there is a table to save into.
    <3>5. ~collided => Whole /\ \A c \in Clients : Updating(c) =>
                                  client[c].pc \in {"entry", "lock", "free"}
      <4> SUFFICES ASSUME ~collided
                   PROVE  Whole /\ \A c \in Clients : Updating(c) =>
                                     client[c].pc \in {"entry", "lock", "free"}
        OBVIOUS
      <4>1. sysTables # <<>> /\ comp[i].ptr = Head(sysTables) /\ dropLock[Head(sysTables)] = i
        BY <2>1, <2>3 DEF IInv, Rest, PointerInv, LockInv, First, CompInside
      <4>2. ASSUME NEW c \in Clients, Updating(c)
            PROVE  Whole /\ client[c].pc \in {"entry", "lock", "free"}
        <5>1. client[c].pc \notin CreatePcs BY <4>1 DEF LifeInv, TableInv, UnderCreate
        <5>2. UnderDrop(client[c]) BY <4>2, <5>1 DEF LifeInv, TableInv, Updating
        <5>3. client[c].pc # "unlink"
          <6> SUFFICES ASSUME client[c].pc = "unlink" PROVE FALSE OBVIOUS
          <6>1. client[c].ptr = Head(sysTables) BY <5>2 DEF UnderDrop
          <6>2. dropLock[Head(sysTables)] = c
            BY <2>3, <4>1, <6>1 DEF IInv, Rest, LockInv, ClientInside
          <6> QED BY <4>1, <6>2, ClientsAssumption DEF Ids
        <5>4. client[c].pc \in {"entry", "lock", "free"}
          BY <2>3, <4>2, <5>1, <5>2, <5>3 DEF UnderDrop, Bare, Updating, DropPcs
        <5> QED BY <5>2, <5>4 DEF UnderDrop
      <4>3. CASE ~Disturbed
        BY <2>3, <4>2, <4>3 DEF LifeInv, TableInv, Absent, Bare
      <4>4. CASE Disturbed BY <4>2, <4>4 DEF Disturbed
      <4> QED BY <4>2, <4>3, <4>4
    <3>6. NoUpdate BY <3>1 DEF NoUpdate, Updating
    <3>7. ~collided => Whole'
      <4> SUFFICES ASSUME ~collided PROVE Whole' OBVIOUS
      <4>1. comp[i].todo \subseteq {gen} \cup carried
        BY <2>1, <2>3 DEF LifeInv, TableInv
      <4>2. Own' BY <3>1, <3>4, <3>5, <4>1 DEF Whole, Own, Kept
      <4> QED BY <3>1, <3>4, <3>5, <4>2 DEF Whole, Up
    <3>8. TableInv'
      <4> SUFFICES ASSUME ~collided PROVE TableInv' BY <3>1 DEF TableInv
      <4>1. ASSUME NEW c \in Clients, client'[c].pc \in DropPcs \cup CreatePcs
            PROVE  client'[c].pc \in DropPcs \ CreatePcs /\ UnderDrop(client[c])'
        <5>1. client[c].pc \in {"entry", "lock", "free"} BY <3>1, <3>5, <4>1 DEF Updating
        <5>2. client[c].pc \in DropPcs \ CreatePcs BY <5>1 DEF DropPcs, CreatePcs
        <5>3. UnderDrop(client[c]) BY <5>2 DEF LifeInv, TableInv
        <5> QED BY <3>1, <3>7, <5>1, <5>2, <5>3 DEF UnderDrop
      <4>2. \A c, d \in Clients : Updating(c)' /\ Updating(d)' => c = d
        BY <3>1 DEF LifeInv, TableInv, Updating
      <4>3. \A j \in Ids : comp'[j].pc = "save" /\ comp'[j].ptr \notin freed' =>
                             comp'[j].todo \subseteq {gen'} \cup carried'
        BY <3>1, <3>2, <3>3 DEF LifeInv, TableInv
      <4> QED BY <3>7, <4>1, <4>2, <4>3 DEF TableInv
    <3>9. RacedInv'
      <4>1. ~Disturbed => ~Disturbed' BY <3>1 DEF Disturbed, Updating
      <4>2. ~Disturbed => Whole' BY <3>7 DEF Disturbed
      <4>3. /\ \A c \in Clients : ~Updating(c)' => ~Updating(c) /\ client'[c] = client[c]
            /\ \A j \in Ids : \/ comp'[j] = comp[j]
                              \/ Working(comp[j]) /\ Points(comp[j]) /\ comp'[j].raced = comp[j].raced
                                 /\ comp'[j].ptr = comp[j].ptr
        BY <2>1, <3>1, <3>2, <3>3 DEF Updating
      <4>4. \A c \in Clients : ~Updating(c)' => Undisturbed(client[c])'
        BY <3>1, <4>1, <4>2, <4>3 DEF LifeInv, RacedInv, Undisturbed, Working, Points
      <4>5. \A j \in Ids : Undisturbed(comp[j])'
        BY <3>1, <4>1, <4>2, <4>3 DEF LifeInv, RacedInv, Undisturbed, Working, Points
      <4>6. Undisturbed(dump)'
        BY <3>1, <4>1, <4>2 DEF LifeInv, RacedInv, Undisturbed, Working, Points
      <4>7. /\ \A c \in Clients : Updating(c)' /\ collided' => client'[c].raced
            /\ \A c \in Clients : client'[c].pc = "put" /\ ~client'[c].raced => client'[c].ptr = gen'
        BY <3>1 DEF LifeInv, RacedInv, Updating
      <4> QED BY <4>4, <4>5, <4>6, <4>7 DEF RacedInv
    <3>10. ProcessInv'
      <4>1. \A n \in DOMAIN sysTables : sysTables[n] \in Ids BY DEF IInv, TypeOK
      <4> QED BY <3>1, <3>2, <3>3, <4>1 DEF LifeInv, ProcessInv, Up
    <3> QED BY <3>1, <3>8, <3>9, <3>10 DEF LifeInv, NobodyDiesUnlessRaced
  <2> QED BY <2>2, <2>3
<1>13. CASE UnlockCompacted(i)
  <2>1. comp[i].pc = "unlock" /\ Working(comp[i]) /\ Points(comp[i])
    BY <1>13 DEF UnlockCompacted, Working, NotLooked, Points
  <2>2. CASE comp[i].ptr \in freed
    BY <1>1, <1>13, <2>1, <2>2, SafeThread DEF UnlockCompacted
  <2>3. CASE comp[i].ptr \notin freed
    <3>1. /\ comp' = [comp EXCEPT ![i] = Asleep]
          /\ UNCHANGED <<dir, memtable, sysTables, freed, client, dump, gen, status, carried, collided>>
      BY <1>13, <2>3 DEF UnlockCompacted, process, history
    <3>2. Follows(comp[i], Asleep) /\ Asleep.pc \notin {"save", "idle"}
      BY DEF Follows, Working, NotLooked, Asleep
    <3> QED BY <1>5, <3>1, <3>2
  <2> QED BY <2>2, <2>3
<1> QED BY <1>6, <1>7, <1>9, <1>10, <1>11, <1>12, <1>13 DEF CompactStep

-----------------------------------------------------------------------------
\* What an update that nothing overlaps has made of the table, and who was
\* overtaken by one, at every point of every thread.
THEOREM Life == Spec => []LifeInv
<1>1. IInv /\ LifeInv /\ IInv' /\ [Next]_vars => LifeInv'
  <2> SUFFICES ASSUME IInv, LifeInv, [Next]_vars PROVE LifeInv' OBVIOUS
  <2>1. ASSUME NEW c \in Clients, Query(c) \/ ClientStep(c) PROVE LifeInv'
    BY <2>1, QueryLife, CreateLife, DropLife, AccessLife DEF ClientStep
  <2>2. ASSUME Kill PROVE LifeInv' BY <2>2, EndsLife DEF Kill
  <2>3. CASE UNCHANGED vars
    <3>1. NoUpdate /\ UNCHANGED <<dir, memtable, client, comp, dump, carried>>
      BY <2>3 DEF vars, lists, threads, process, history, NoUpdate, Updating
    <3> QED BY <3>1, QuietLife DEF Follows, LifeInv, ProcessInv
  <2> QED BY <2>1, <2>2, <2>3, DumpLife, CompactLife, StartLife DEF Next
<1> QED BY <1>1, InitLife, Inductive, PTL DEF Spec

\* drop.c, create.c: no thread meets a freed entry, a missing file or a NULL pointer
\* but one that a CREATE or a DROP overtook, a SELECT whose .tmp files a compactor
\* renamed after it had listed them, and whoever lists a .tmp file that a dump has
\* not completed.
THEOREM NobodyDies == Spec => []NobodyDiesUnlessRaced
<1>1. LifeInv => NobodyDiesUnlessRaced BY DEF LifeInv
<1> QED BY <1>1, Life, PTL

\* What a DROP found of its table's inserts, in whatever file, is in no file of a
\* later table of the name.
THEOREM Dropped == Spec => []DroppedDataStaysDropped
<1>1. IInv /\ LifeInv => DroppedDataStaysDropped
  <2> SUFFICES ASSUME IInv, LifeInv, ~collided
               PROVE  dir.tmp \cup dir.tmpc \cup dir.part \subseteq {gen} \cup carried
    BY DEF DroppedDataStaysDropped
  <2>1. Own
    <3>1. CASE ~Disturbed BY <3>1 DEF LifeInv, TableInv, Whole, Absent, Bare, Gone, Own
    <3>2. CASE Disturbed
      <4>1. PICK c \in Clients : Updating(c) BY <3>2 DEF Disturbed
      <4>2. (UnderDrop(client[c]) /\ client[c].pc \in DropPcs) \/ UnderCreate(client[c])
        BY <4>1 DEF LifeInv, TableInv, Updating
      <4> QED BY <4>2 DEF UnderDrop, UnderCreate, DropPcs, Whole, Bare, Gone, Own
    <3> QED BY <3>1, <3>2
  <2> QED BY <2>1 DEF Own, Kept
<1> QED BY <1>1, Life, Inductive, PTL

\* sysTables, the directory and the compactors agree whenever no update is under way.
THEOREM ListAndDirectory == Spec => []ListMatchesDirectory
<1>1. IInv /\ LifeInv => ListMatchesDirectory
  <2> SUFFICES ASSUME IInv, LifeInv, Up, ~Disturbed PROVE ListMatchesDirectory BY DEF ListMatchesDirectory
  <2>1. Whole \/ Absent BY DEF LifeInv, TableInv, Disturbed
  <2>2. CASE Whole
    <3>1. sysTables \in Seq(Ids) /\ Len(sysTables) = 1 BY <2>2 DEF IInv, TypeOK, Whole
    <3>2. 1 \in DOMAIN sysTables /\ sysTables[1] \in Ids BY <3>1
    <3> QED BY <2>2, <3>1, <3>2 DEF Whole, ListMatchesDirectory, LifeInv, ProcessInv
  <2>3. CASE Absent BY <2>3 DEF Absent, Bare, ListMatchesDirectory, Exists
  <2> QED BY <2>1, <2>2, <2>3
<1> QED BY <1>1, Life, Inductive, PTL
=============================================================================
