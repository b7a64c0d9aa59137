-------------------------- MODULE TableStoreProofs --------------------------
(***************************************************************************)
(* Proofs about the storage of a table, for every set of inserts, readers  *)
(* and partitions and every bound: what was acknowledged is stored and not *)
(* lost by a compaction, a select finds it, and the table is a KVStore.    *)
(***************************************************************************)
EXTENDS TableStore, TLAPS

\* A step of a thread; the process may die in it.
RunStep ==
  \/ \E e \in Entries : Insert(e)
  \/ \E d \in Dumpers : DumpStep(d)
  \/ SkipDump
  \/ CompactStep
  \/ \E r \in Readers : SelectStep(r)

Stops == \E how \in {"exited", "died"} : StopAs(how)

\* Who is in a critical section holds its mutex, and nobody else does.
MutexInv ==
  /\ \A d \in Dumpers :
       /\ (dpc[d] \in {"part", "create", "header", "save", "clean"}) <=> (memLock = d)
       /\ (dpc[d] \in {"create", "header", "save"}) <=> (partLock = d)
  /\ (cpc = "save") <=> (partLock = Compactor)
  /\ \A r \in Readers : (rpc[r] \in {"read", "names", "files"}) <=> (partLock = r)

\* The number of the next dump is fresh: nothing overwrites a dump.
FreshInv ==
  /\ \A d \in Dumpers : dpc[d] \notin {"idle", "exit"} => tmpNo \in TmpNos
  /\ Up => \A n \in TmpNos : tmpNo < n => tmp[n] = NoTmp
  /\ Up /\ tmpNo \in TmpNos /\ (\A d \in Dumpers : dpc[d] # "clean") => tmp[tmpNo].data = {}

\* Between saving and cleaning, the memtable is accounted for elsewhere.
DumpInv ==
  \A d \in Dumpers :
    dpc[d] = "clean" => memtable \subseteq Shadow(OnDisk \cup AllOf(tmpc, held))

\* What the compactor has renamed is in its batch once read, and what it has
\* saved of the batch is accounted for by the partitions.
CompactInv ==
  /\ cpc \in {"idle", "clean"} => ckeys = {}
  /\ cpc = "idle" => held = {} /\ batch = {} /\ ctodo = {}
  /\ cpc = "rename" => ctodo \cap held = {} /\ batch = {}
  /\ cpc = "read" => ctodo \subseteq held /\ AllOf(tmpc, held \ ctodo) \subseteq batch
  /\ cpc \in {"lock", "save"} => AllOf(tmpc, held) \subseteq batch
  /\ cpc \in {"read", "lock", "save"} => batch \subseteq AllOf(tmpc, held)
  /\ cpc = "save" => \A e \in batch : e.key \notin ckeys => e \in Shadow(InPartitions)
  /\ CompactionLosesNothing

\* A process that is not up has no memory.
DownInv ==
  ~Up => /\ memtable = {}
         /\ held = {}
         /\ cpc = "idle"
         /\ \A d \in Dumpers : dpc[d] = "idle"
         /\ \A r \in Readers : rpc[r] = "idle"

-----------------------------------------------------------------------------
(* Facts about Shadow. *)

(* The fields of an insert are numbers. *)
LEMMA TimesAreNumbers == \A e \in Entries : e.ts \in Nat /\ e.key \in Nat
BY EntriesAssumption

(* A larger set accounts for more. *)
LEMMA ShadowMonotone ==
  ASSUME NEW S, NEW T, S \subseteq T
  PROVE  Shadow(S) \subseteq Shadow(T)
BY DEF Shadow

(* A set of inserts accounts for its members. *)
LEMMA ShadowContains ==
  ASSUME NEW S \in SUBSET Entries
  PROVE  S \subseteq Shadow(S)
BY TimesAreNumbers DEF Shadow

(* What is accounted for by what is accounted for by S is accounted for by S. *)
LEMMA ShadowClosed ==
  ASSUME NEW S \in SUBSET Entries, NEW T \in SUBSET Entries, T \subseteq Shadow(S)
  PROVE  Shadow(T) \subseteq Shadow(S) /\ Shadow(S \cup T) = Shadow(S)
BY TimesAreNumbers DEF Shadow

(* Shadow distributes over union. *)
LEMMA ShadowUnion ==
  ASSUME NEW S, NEW T
  PROVE  Shadow(S \cup T) = Shadow(S) \cup Shadow(T)
BY DEF Shadow

-----------------------------------------------------------------------------
(* Typing facts, used in place of the definitions. *)
LEMMA Files ==
  /\ NoTmp \in TmpFile /\ EmptyTmp \in TmpFile
  /\ \A S \in SUBSET Entries : Tmp(S) \in TmpFile
  /\ \A file \in TmpFile : file.data \in SUBSET Entries
  /\ \A file \in TmpFile : file.st = "none" => file = NoTmp
<1>1. NoTmp \in TmpFile /\ EmptyTmp \in TmpFile /\ \A S \in SUBSET Entries : Tmp(S) \in TmpFile
  BY DEF TmpFile
<1>2. ASSUME NEW file \in TmpFile
      PROVE  file.data \in SUBSET Entries /\ (file.st = "none" => file = NoTmp)
  <2>1. CASE file = NoTmp BY <2>1 DEF NoTmp
  <2>2. CASE file = EmptyTmp BY <2>2 DEF EmptyTmp
  <2>3. ASSUME NEW S \in SUBSET Entries, file = Tmp(S)
        PROVE  file.data \in SUBSET Entries /\ (file.st = "none" => file = NoTmp)
    BY <2>3 DEF Tmp
  <2> QED BY <2>1, <2>2, <2>3 DEF TmpFile
<1> QED BY <1>1, <1>2

(* Every key has a partition of the table. *)
LEMMA KeysAndParts ==
  /\ \A e \in Entries : e.key \in Keys
  /\ \A k \in Keys : k \in Nat
  /\ \A k \in Nat : PartOf(k) \in 0 .. Parts - 1
<1>1. \A e \in Entries : e.key \in Keys BY DEF Keys
<1>2. \A k \in Keys : k \in Nat BY TimesAreNumbers DEF Keys
<1>3. \A k \in Nat : k % Parts \in 0 .. Parts - 1 BY PartsAssumption
<1> QED BY <1>1, <1>2, <1>3 DEF PartOf

(* What the operators on sets of inserts and files return. *)
LEMMA Subsets ==
  /\ \A S, k : Of(S, k) \subseteq S
  /\ \A S : Newest(S) \subseteq S
  /\ \A files : Present(files) \subseteq TmpNos
  /\ \A files, S : AllOf(files, S) \subseteq Entries
  /\ InPartitions \subseteq Entries
BY DEF Of, Newest, Present, AllOf, InPartitions

(* A step in which the process dies leaves it down. *)
LEMMA Dies == Segfault => ~Up'
BY DEF Segfault, StopAs, Up

(* A select that collects records keeps the type of its collection. *)
LEMMA CollectedType ==
  ASSUME NEW r \in Readers, NEW S \in SUBSET Entries, rset \in [Readers -> SUBSET Entries],
         rset' = [rset EXCEPT ![r] = @ \cup S]
  PROVE  rset' \in [Readers -> SUBSET Entries]
OBVIOUS

(* A select that has read a file keeps the type of its list. *)
LEMMA PendingType ==
  ASSUME NEW r \in Readers, NEW n, rnames \in [Readers -> SUBSET TmpNos],
         rnames' = [rnames EXCEPT ![r] = @ \ {n}]
  PROVE  rnames' \in [Readers -> SUBSET TmpNos]
OBVIOUS

(* A mutex holder is never NoOne, and thread names do not clash. *)
LEMMA Threads ==
  /\ NoOne \notin Dumpers /\ NoOne \notin Readers /\ NoOne # Compactor
  /\ Compactor \notin Dumpers /\ Compactor \notin Readers
  /\ \A d \in Dumpers : d \notin Readers
  /\ "main" \in Dumpers
BY ThreadsAssumption DEF Dumpers, Compactor

(* Dump numbers are naturals, and the next one is in range. *)
LEMMA Numbers ==
  /\ \A n \in TmpNos : n \in 0 .. MaxTmp + 1 /\ n + 1 \in 0 .. MaxTmp + 1 /\ n \in Nat
  /\ \A n \in 0 .. MaxTmp + 1 : n \in Nat /\ (n <= MaxTmp => n \in TmpNos)
  /\ 0 \in 0 .. MaxTmp + 1
BY BoundsAssumption DEF TmpNos

(* No step of a thread leaves the types. *)
LEMMA RunType ==
  ASSUME TypeOK, FreshInv,
         RunStep, Up, Up'
  PROVE  TypeOK'
<1> USE Files, KeysAndParts, Numbers, Dies DEF TypeOK,
           memory, disk, locks, compactor, selects, history
<1>1. ASSUME NEW e \in Entries, Insert(e) PROVE TypeOK'
  BY <1>1 DEF Insert
<1>2. ASSUME NEW d \in Dumpers, StartDump(d) PROVE TypeOK'
  BY <1>2 DEF StartDump, GotoD
<1>3. ASSUME SkipDump PROVE TypeOK'
  BY <1>3 DEF SkipDump, GotoD
<1>4. ASSUME NEW d \in Dumpers, LockPartToDump(d) PROVE TypeOK'
  BY <1>4 DEF LockPartToDump, GotoD
<1>5. ASSUME NEW d \in Dumpers, CreateTmp(d) PROVE TypeOK'
  BY <1>5 DEF CreateTmp, GotoD
<1>6. ASSUME NEW d \in Dumpers, WriteHeader(d) PROVE TypeOK'
  BY <1>6 DEF WriteHeader, GotoD
<1>7. ASSUME NEW d \in Dumpers, SaveDump(d) PROVE TypeOK'
  <2>1. ~Segfault BY Dies
  <2>2. Tmp(memtable) \in TmpFile OBVIOUS
  <2>3. tmp' \in [TmpNos -> TmpFile] BY <1>7, <2>1, <2>2 DEF SaveDump
  <2>4. dpc' \in [Dumpers -> {"idle", "part", "create", "header", "save", "clean", "exit"}]
    BY <1>7, <2>1 DEF SaveDump, GotoD
  <2> QED BY <1>7, <2>1, <2>3, <2>4 DEF SaveDump
<1>8. ASSUME NEW d \in Dumpers, CleanMemtable(d) PROVE TypeOK'
  BY <1>8 DEF CleanMemtable, GotoD, FreshInv
<1>9. ASSUME ListTmps PROVE TypeOK'
  BY <1>9, Subsets DEF ListTmps
<1>10. ASSUME NEW n \in TmpNos, Rename(n) PROVE TypeOK'
  BY <1>10 DEF Rename
<1>11. ASSUME NEW n \in TmpNos, ReadTmpc(n) PROVE TypeOK'
  BY <1>11 DEF ReadTmpc
<1>12. ASSUME LockPartToSave PROVE TypeOK'
  BY <1>12 DEF LockPartToSave
<1>13. ASSUME NEW k \in Keys, SaveKey(k) PROVE TypeOK'
  <2>1. PICK e \in Newest(Of(batch, k)) : part' = [part EXCEPT ![PartOf(k)] = @ \cup {e}]
    BY <1>13 DEF SaveKey
  <2>2. e \in Entries BY <2>1 DEF Newest, Of
  <2>3. part' \in [0 .. Parts - 1 -> SUBSET Entries] BY <2>1, <2>2
  <2> QED BY <1>13, <2>3 DEF SaveKey
<1>14. ASSUME UnlockPartSaved PROVE TypeOK'
  BY <1>14, Subsets DEF UnlockPartSaved
<1>15. ASSUME NEW n \in TmpNos, DeleteTmpc(n) PROVE TypeOK'
  BY <1>15 DEF DeleteTmpc
<1>16. ASSUME EndCompaction PROVE TypeOK'
  BY <1>16 DEF EndCompaction
<1>17. ASSUME NEW r \in Readers, NEW k \in Keys, StartSelect(r, k) PROVE TypeOK'
  BY <1>17, Subsets DEF StartSelect, GotoR
<1>18. ASSUME NEW r \in Readers, LockPartToRead(r) PROVE TypeOK'
  BY <1>18 DEF LockPartToRead, GotoR
<1>19. ASSUME NEW r \in Readers, ReadPartition(r) PROVE TypeOK'
  BY <1>19, Subsets DEF ReadPartition, GotoR
<1>20. ASSUME NEW r \in Readers, ListTmpsToRead(r) PROVE TypeOK'
  BY <1>20, Subsets DEF ListTmpsToRead, GotoR
<1>21. ASSUME NEW r \in Readers, NEW n \in TmpNos, ReadTmp(r, n) PROVE TypeOK'
  <2>1. ~Segfault BY Dies
  <2>2. tmp[n].data \subseteq Entries OBVIOUS
  <2>3. Of(tmp[n].data, rkey[r]) \in SUBSET Entries BY <2>2 DEF Of
  <2>4. rset' \in [Readers -> SUBSET Entries]
    <3>1. rset' = [rset EXCEPT ![r] = @ \cup Of(tmp[n].data, rkey[r])] BY <1>21, <2>1 DEF ReadTmp
    <3> QED BY <3>1, <2>3, CollectedType
  <2>5. rnames' \in [Readers -> SUBSET TmpNos]
    <3>1. rnames' = [rnames EXCEPT ![r] = @ \ {n}] BY <1>21, <2>1 DEF ReadTmp
    <3> QED BY <3>1, PendingType
  <2> QED BY <1>21, <2>1, <2>4, <2>5 DEF ReadTmp
<1>22. ASSUME NEW r \in Readers, UnlockPartRead(r) PROVE TypeOK'
  BY <1>22 DEF UnlockPartRead, GotoR
<1>23. ASSUME NEW r \in Readers, ReadMemtable(r) PROVE TypeOK'
  BY <1>23, Subsets DEF ReadMemtable, GotoR
<1>24. ASSUME NEW r \in Readers, Answer(r) PROVE TypeOK'
  BY <1>24 DEF Answer, GotoR
<1> QED BY <1>1, <1>2, <1>3, <1>4, <1>5, <1>6, <1>7, <1>8, <1>9,
           <1>10, <1>11, <1>12, <1>13, <1>14, <1>15, <1>16, <1>17, <1>18,
           <1>19, <1>20, <1>21, <1>22, <1>23, <1>24
        DEF RunStep, DumpStep, CompactStep, SelectStep

(* No step of a thread enters a critical section without its mutex. *)
LEMMA RunMutex ==
  ASSUME TypeOK, MutexInv,
         RunStep, Up, Up'
  PROVE  MutexInv'
<1> USE Threads, Dies DEF TypeOK, MutexInv,
           memory, disk, locks, compactor, selects, history
<1>1. ASSUME NEW e \in Entries, Insert(e) PROVE MutexInv'
  BY <1>1 DEF Insert
<1>2. ASSUME NEW d \in Dumpers, StartDump(d) PROVE MutexInv'
  BY <1>2 DEF StartDump, GotoD
<1>3. ASSUME SkipDump PROVE MutexInv'
  BY <1>3 DEF SkipDump, GotoD
<1>4. ASSUME NEW d \in Dumpers, LockPartToDump(d) PROVE MutexInv'
  BY <1>4 DEF LockPartToDump, GotoD
<1>5. ASSUME NEW d \in Dumpers, CreateTmp(d) PROVE MutexInv'
  BY <1>5 DEF CreateTmp, GotoD
<1>6. ASSUME NEW d \in Dumpers, WriteHeader(d) PROVE MutexInv'
  BY <1>6 DEF WriteHeader, GotoD
<1>7. ASSUME NEW d \in Dumpers, SaveDump(d) PROVE MutexInv'
  BY <1>7 DEF SaveDump, GotoD
<1>8. ASSUME NEW d \in Dumpers, CleanMemtable(d) PROVE MutexInv'
  BY <1>8 DEF CleanMemtable, GotoD
<1>9. ASSUME ListTmps PROVE MutexInv'
  BY <1>9 DEF ListTmps
<1>10. ASSUME NEW n \in TmpNos, Rename(n) PROVE MutexInv'
  BY <1>10 DEF Rename
<1>11. ASSUME NEW n \in TmpNos, ReadTmpc(n) PROVE MutexInv'
  BY <1>11 DEF ReadTmpc
<1>12. ASSUME LockPartToSave PROVE MutexInv'
  BY <1>12 DEF LockPartToSave
<1>13. ASSUME NEW k \in Keys, SaveKey(k) PROVE MutexInv'
  BY <1>13 DEF SaveKey
<1>14. ASSUME UnlockPartSaved PROVE MutexInv'
  BY <1>14 DEF UnlockPartSaved
<1>15. ASSUME NEW n \in TmpNos, DeleteTmpc(n) PROVE MutexInv'
  BY <1>15 DEF DeleteTmpc
<1>16. ASSUME EndCompaction PROVE MutexInv'
  BY <1>16 DEF EndCompaction
<1>17. ASSUME NEW r \in Readers, NEW k \in Keys, StartSelect(r, k) PROVE MutexInv'
  BY <1>17 DEF StartSelect, GotoR
<1>18. ASSUME NEW r \in Readers, LockPartToRead(r) PROVE MutexInv'
  BY <1>18 DEF LockPartToRead, GotoR
<1>19. ASSUME NEW r \in Readers, ReadPartition(r) PROVE MutexInv'
  BY <1>19 DEF ReadPartition, GotoR
<1>20. ASSUME NEW r \in Readers, ListTmpsToRead(r) PROVE MutexInv'
  BY <1>20 DEF ListTmpsToRead, GotoR
<1>21. ASSUME NEW r \in Readers, NEW n \in TmpNos, ReadTmp(r, n) PROVE MutexInv'
  BY <1>21 DEF ReadTmp, GotoR
<1>22. ASSUME NEW r \in Readers, UnlockPartRead(r) PROVE MutexInv'
  BY <1>22 DEF UnlockPartRead, GotoR
<1>23. ASSUME NEW r \in Readers, ReadMemtable(r) PROVE MutexInv'
  BY <1>23 DEF ReadMemtable, GotoR
<1>24. ASSUME NEW r \in Readers, Answer(r) PROVE MutexInv'
  BY <1>24 DEF Answer, GotoR
<1> QED BY <1>1, <1>2, <1>3, <1>4, <1>5, <1>6, <1>7, <1>8, <1>9,
           <1>10, <1>11, <1>12, <1>13, <1>14, <1>15, <1>16, <1>17, <1>18,
           <1>19, <1>20, <1>21, <1>22, <1>23, <1>24
        DEF RunStep, DumpStep, CompactStep, SelectStep

(* No step of a thread lets a dump reuse a number. *)
LEMMA RunFresh ==
  ASSUME TypeOK, MutexInv, FreshInv,
         RunStep, Up, Up'
  PROVE  FreshInv'
<1> USE Threads, Numbers, Dies DEF TypeOK, MutexInv, FreshInv, Up,
           memory, disk, locks, compactor, selects, history
<1>1. ASSUME NEW e \in Entries, Insert(e) PROVE FreshInv'
  BY <1>1 DEF Insert
<1>2. ASSUME NEW d \in Dumpers, StartDump(d) PROVE FreshInv'
  BY <1>2 DEF StartDump, GotoD
<1>3. ASSUME SkipDump PROVE FreshInv'
  BY <1>3 DEF SkipDump, GotoD
<1>4. ASSUME NEW d \in Dumpers, LockPartToDump(d) PROVE FreshInv'
  BY <1>4 DEF LockPartToDump, GotoD
<1>5. ASSUME NEW d \in Dumpers, CreateTmp(d) PROVE FreshInv'
  <2>1. tmpNo \in TmpNos /\ tmpNo \in Nat /\ tmpNo' = tmpNo BY <1>5 DEF CreateTmp
  <2>2. \A n \in TmpNos : n # tmpNo => tmp'[n] = tmp[n] BY <1>5, <2>1 DEF CreateTmp
  <2>3. \A n \in TmpNos : tmpNo < n => tmp'[n] = NoTmp BY <2>1, <2>2
  <2>4. tmp'[tmpNo].data = {} BY <1>5, <2>1 DEF CreateTmp, EmptyTmp, Tmp
  <2> QED BY <1>5, <2>1, <2>3, <2>4 DEF CreateTmp, GotoD
<1>6. ASSUME NEW d \in Dumpers, WriteHeader(d) PROVE FreshInv'
  <2>1. tmpNo \in TmpNos /\ tmpNo \in Nat /\ tmpNo' = tmpNo BY <1>6 DEF WriteHeader
  <2>2. \A n \in TmpNos : n # tmpNo => tmp'[n] = tmp[n] BY <1>6, <2>1 DEF WriteHeader
  <2>3. \A n \in TmpNos : tmpNo < n => tmp'[n] = NoTmp BY <2>1, <2>2
  <2>4. tmp'[tmpNo].data = {} BY <1>6, <2>1 DEF WriteHeader, EmptyTmp, Tmp
  <2> QED BY <1>6, <2>1, <2>3, <2>4 DEF WriteHeader, GotoD
<1>7. ASSUME NEW d \in Dumpers, SaveDump(d) PROVE FreshInv'
  <2>1. tmpNo \in TmpNos /\ tmpNo \in Nat BY <1>7 DEF SaveDump
  <2>2. tmp' = [tmp EXCEPT ![tmpNo] = Tmp(memtable)] /\ tmpNo' = tmpNo BY <1>7 DEF SaveDump
  <2>3. \A n \in TmpNos : tmpNo < n => tmp'[n] = NoTmp BY <2>1, <2>2
  <2>4. dpc' = [dpc EXCEPT ![d] = "clean"] BY <1>7 DEF SaveDump, GotoD
  <2>5. \A e \in Dumpers : dpc'[e] \notin {"idle", "exit"} => tmpNo' \in TmpNos BY <2>1, <2>2
  <2>6. ~ \A e \in Dumpers : dpc'[e] # "clean"
    <3>1. dpc'[d] = "clean" BY <1>7, <2>4
    <3> QED BY <1>7, <3>1
  <2> QED BY <2>2, <2>3, <2>5, <2>6
<1>8. ASSUME NEW d \in Dumpers, CleanMemtable(d) PROVE FreshInv'
  <2>1. tmpNo \in TmpNos /\ tmpNo \in Nat BY <1>8 DEF CleanMemtable
  <2>2. tmp' = tmp /\ tmpNo' = tmpNo + 1 BY <1>8 DEF CleanMemtable
  <2>3. \A n \in TmpNos : tmpNo + 1 <= n => tmp[n] = NoTmp BY <2>1
  <2>4. \A n \in TmpNos : tmpNo + 1 < n => tmp[n] = NoTmp BY <2>1, <2>3
  <2>5. tmpNo + 1 \in TmpNos => tmp[tmpNo + 1].data = {} BY <2>1, <2>3 DEF NoTmp
  <2>6. \A c \in Dumpers : dpc'[c] \in {"idle", "exit"}
    <3>1. memLock = d BY <1>8 DEF CleanMemtable
    <3>2. \A c \in Dumpers \ {d} : dpc[c] \in {"idle", "exit"} BY <3>1
    <3>3. dpc' = [dpc EXCEPT ![d] = IF d = "main" THEN "exit" ELSE "idle"]
      BY <1>8 DEF CleanMemtable, GotoD
    <3> QED BY <3>2, <3>3
  <2> QED BY <2>2, <2>4, <2>5, <2>6
<1>9. ASSUME ListTmps PROVE FreshInv'
  BY <1>9 DEF ListTmps
<1>10. ASSUME NEW n \in TmpNos, Rename(n) PROVE FreshInv'
  BY <1>10 DEF Rename, NoTmp
<1>11. ASSUME NEW n \in TmpNos, ReadTmpc(n) PROVE FreshInv'
  BY <1>11 DEF ReadTmpc
<1>12. ASSUME LockPartToSave PROVE FreshInv'
  BY <1>12 DEF LockPartToSave
<1>13. ASSUME NEW k \in Keys, SaveKey(k) PROVE FreshInv'
  BY <1>13 DEF SaveKey
<1>14. ASSUME UnlockPartSaved PROVE FreshInv'
  BY <1>14 DEF UnlockPartSaved
<1>15. ASSUME NEW n \in TmpNos, DeleteTmpc(n) PROVE FreshInv'
  BY <1>15 DEF DeleteTmpc
<1>16. ASSUME EndCompaction PROVE FreshInv'
  BY <1>16 DEF EndCompaction
<1>17. ASSUME NEW r \in Readers, NEW k \in Keys, StartSelect(r, k) PROVE FreshInv'
  BY <1>17 DEF StartSelect, GotoR
<1>18. ASSUME NEW r \in Readers, LockPartToRead(r) PROVE FreshInv'
  BY <1>18 DEF LockPartToRead, GotoR
<1>19. ASSUME NEW r \in Readers, ReadPartition(r) PROVE FreshInv'
  BY <1>19 DEF ReadPartition, GotoR
<1>20. ASSUME NEW r \in Readers, ListTmpsToRead(r) PROVE FreshInv'
  BY <1>20 DEF ListTmpsToRead, GotoR
<1>21. ASSUME NEW r \in Readers, NEW n \in TmpNos, ReadTmp(r, n) PROVE FreshInv'
  BY <1>21 DEF ReadTmp, GotoR
<1>22. ASSUME NEW r \in Readers, UnlockPartRead(r) PROVE FreshInv'
  BY <1>22 DEF UnlockPartRead, GotoR
<1>23. ASSUME NEW r \in Readers, ReadMemtable(r) PROVE FreshInv'
  BY <1>23 DEF ReadMemtable, GotoR
<1>24. ASSUME NEW r \in Readers, Answer(r) PROVE FreshInv'
  BY <1>24 DEF Answer, GotoR
<1> QED BY <1>1, <1>2, <1>3, <1>4, <1>5, <1>6, <1>7, <1>8, <1>9,
           <1>10, <1>11, <1>12, <1>13, <1>14, <1>15, <1>16, <1>17, <1>18,
           <1>19, <1>20, <1>21, <1>22, <1>23, <1>24
        DEF RunStep, DumpStep, CompactStep, SelectStep

(* No step of a thread loses track of what the compactor holds. *)
LEMMA RunCompact ==
  ASSUME TypeOK, MutexInv, CompactInv,
         RunStep, Up, Up'
  PROVE  CompactInv'
<1> USE Dies DEF TypeOK, CompactInv, CompactionLosesNothing, InPartitions,
           memory, disk, locks, compactor, selects, history
<1>1. ASSUME NEW e \in Entries, Insert(e) PROVE CompactInv'
  BY <1>1 DEF Insert
<1>2. ASSUME NEW d \in Dumpers, StartDump(d) PROVE CompactInv'
  BY <1>2 DEF StartDump, GotoD
<1>3. ASSUME SkipDump PROVE CompactInv'
  BY <1>3 DEF SkipDump, GotoD
<1>4. ASSUME NEW d \in Dumpers, LockPartToDump(d) PROVE CompactInv'
  BY <1>4 DEF LockPartToDump, GotoD
<1>5. ASSUME NEW d \in Dumpers, CreateTmp(d) PROVE CompactInv'
  BY <1>5 DEF CreateTmp, GotoD
<1>6. ASSUME NEW d \in Dumpers, WriteHeader(d) PROVE CompactInv'
  BY <1>6 DEF WriteHeader, GotoD
<1>7. ASSUME NEW d \in Dumpers, SaveDump(d) PROVE CompactInv'
  BY <1>7 DEF SaveDump, GotoD
<1>8. ASSUME NEW d \in Dumpers, CleanMemtable(d) PROVE CompactInv'
  BY <1>8 DEF CleanMemtable, GotoD
<1>9. ASSUME ListTmps PROVE CompactInv'
  BY <1>9 DEF ListTmps
<1>10. ASSUME NEW n \in TmpNos, Rename(n) PROVE CompactInv'
  <2>1. n \notin held BY <1>10 DEF Rename
  <2>2. held' = held \cup {n} /\ cpc = "rename" /\ batch' = batch /\ ckeys' = ckeys BY <1>10 DEF Rename
  <2>3. CASE ctodo = {n}
    <3>1. cpc' = "read" /\ ctodo' = held' BY <1>10, <2>3 DEF Rename
    <3>2. AllOf(tmpc', held' \ ctodo') = {} BY <3>1 DEF AllOf
    <3> QED BY <2>2, <3>1, <3>2
  <2>4. CASE ctodo # {n}
    <3>1. cpc' = "rename" /\ ctodo' = ctodo \ {n} BY <1>10, <2>2, <2>4 DEF Rename
    <3> QED BY <2>2, <3>1
  <2> QED BY <2>3, <2>4
<1>11. ASSUME NEW n \in TmpNos, ReadTmpc(n) PROVE CompactInv'
  <2>1. ~Segfault BY Dies
  <2>2. /\ cpc = "read" /\ tmpc' = tmpc /\ held' = held
        /\ batch' = batch \cup tmpc[n].data /\ ctodo' = ctodo \ {n}
        /\ cpc' = IF ctodo = {n} THEN "lock" ELSE "read"
    BY <1>11, <2>1 DEF ReadTmpc
  <2>3. n \in ctodo /\ ctodo \subseteq held BY <1>11 DEF ReadTmpc
  <2>4. tmpc[n].data \subseteq Entries BY Files
  <2>5. AllOf(tmpc', held' \ ctodo') \subseteq batch' BY <2>2, <2>4 DEF AllOf
  <2>6. batch' \subseteq AllOf(tmpc', held') BY <2>2, <2>3, <2>4 DEF AllOf
  <2>7. ctodo = {n} => held' \ ctodo' = held' BY <2>2
  <2> QED BY <2>2, <2>3, <2>5, <2>6, <2>7
<1>12. ASSUME LockPartToSave PROVE CompactInv'
  <2>1. \A e \in batch : e.key \in ckeys' BY <1>12 DEF LockPartToSave
  <2> QED BY <1>12, <2>1 DEF LockPartToSave
<1>13. ASSUME NEW k \in Keys, SaveKey(k) PROVE CompactInv'
  <2>1. PICK e \in Newest(Of(batch, k)) : part' = [part EXCEPT ![PartOf(k)] = @ \cup {e}]
    BY <1>13 DEF SaveKey
  <2>2. e \in batch /\ e.key = k /\ \A x \in batch : x.key = k => x.ts <= e.ts
    BY <2>1 DEF Newest, Of
  <2>3. PartOf(k) \in 0 .. Parts - 1 BY KeysAndParts
  <2>4. InPartitions' = InPartitions \cup {e} BY <2>1, <2>2, <2>3 DEF InPartitions
  <2>5. \A x \in batch : x.key = k => x \in Shadow(InPartitions)' BY <2>2, <2>4 DEF Shadow
  <2>6. Shadow(InPartitions) \subseteq Shadow(InPartitions)' BY <2>4 DEF Shadow
  <2>7. UNCHANGED <<cpc, held, batch, tmpc, ctodo>> /\ cpc = "save" /\ ckeys' = ckeys \ {k}
    BY <1>13 DEF SaveKey
  <2>8. \A x \in batch : x.key \notin ckeys' => x \in Shadow(InPartitions)' BY <2>5, <2>6, <2>7
  <2> QED BY <2>7, <2>8
<1>14. ASSUME UnlockPartSaved PROVE CompactInv'
  BY <1>14 DEF UnlockPartSaved
<1>15. ASSUME NEW n \in TmpNos, DeleteTmpc(n) PROVE CompactInv'
  <2>1. ~Segfault BY Dies
  <2>2. tmpc' = [tmpc EXCEPT ![n] = NoTmp] BY <1>15, <2>1 DEF DeleteTmpc
  <2>3. UNCHANGED <<cpc, held, batch, part, ckeys>> /\ cpc = "clean" BY <1>15, <2>1 DEF DeleteTmpc
  <2>4. AllOf(tmpc', held') \subseteq AllOf(tmpc, held) BY <2>2, <2>3 DEF AllOf, NoTmp
  <2> QED BY <2>3, <2>4
<1>16. ASSUME EndCompaction PROVE CompactInv'
  BY <1>16 DEF EndCompaction
<1>17. ASSUME NEW r \in Readers, NEW k \in Keys, StartSelect(r, k) PROVE CompactInv'
  BY <1>17 DEF StartSelect, GotoR
<1>18. ASSUME NEW r \in Readers, LockPartToRead(r) PROVE CompactInv'
  BY <1>18 DEF LockPartToRead, GotoR
<1>19. ASSUME NEW r \in Readers, ReadPartition(r) PROVE CompactInv'
  BY <1>19 DEF ReadPartition, GotoR
<1>20. ASSUME NEW r \in Readers, ListTmpsToRead(r) PROVE CompactInv'
  BY <1>20 DEF ListTmpsToRead, GotoR
<1>21. ASSUME NEW r \in Readers, NEW n \in TmpNos, ReadTmp(r, n) PROVE CompactInv'
  BY <1>21 DEF ReadTmp, GotoR
<1>22. ASSUME NEW r \in Readers, UnlockPartRead(r) PROVE CompactInv'
  BY <1>22 DEF UnlockPartRead, GotoR
<1>23. ASSUME NEW r \in Readers, ReadMemtable(r) PROVE CompactInv'
  BY <1>23 DEF ReadMemtable, GotoR
<1>24. ASSUME NEW r \in Readers, Answer(r) PROVE CompactInv'
  BY <1>24 DEF Answer, GotoR
<1> QED BY <1>1, <1>2, <1>3, <1>4, <1>5, <1>6, <1>7, <1>8, <1>9,
           <1>10, <1>11, <1>12, <1>13, <1>14, <1>15, <1>16, <1>17, <1>18,
           <1>19, <1>20, <1>21, <1>22, <1>23, <1>24
        DEF RunStep, DumpStep, CompactStep, SelectStep

-----------------------------------------------------------------------------
(* What is stored apart from the memtable. *)
Rest == OnDisk \cup AllOf(tmpc, held)

(* Sets that account for each other account for the same inserts. *)
LEMMA ShadowEquiv ==
  ASSUME NEW S \in SUBSET Entries, NEW T \in SUBSET Entries, S \subseteq Shadow(T), T \subseteq Shadow(S)
  PROVE  Shadow(S) = Shadow(T)
<1>1. Shadow(S) \subseteq Shadow(T) BY ShadowClosed
<1>2. Shadow(T) \subseteq Shadow(S) BY ShadowClosed
<1> QED BY <1>1, <1>2

(* Rest holds inserts. *)
LEMMA RestSubset == Rest \subseteq Entries
BY DEF Rest, OnDisk, AllOf, InPartitions

(* Nothing is in the file a dump is writing until it saves. *)
LEMMA FileIsEmpty ==
  ASSUME MutexInv, FreshInv, Up, NEW d \in Dumpers, dpc[d] \in {"create", "header", "save"}
  PROVE  tmpNo \in TmpNos /\ tmp[tmpNo].data = {}
<1>1. memLock = d BY DEF MutexInv
<1>2. \A c \in Dumpers : dpc[c] # "clean" BY <1>1 DEF MutexInv
<1>3. tmpNo \in TmpNos BY DEF FreshInv
<1> QED BY <1>2, <1>3 DEF FreshInv

(* Writing over a file without records adds what is written. *)
LEMMA WriteFile ==
  ASSUME TypeOK, NEW n \in TmpNos, NEW f, tmp[n].data = {}, tmp' = [tmp EXCEPT ![n] = f],
         UNCHANGED <<tmpc, part, held>>
  PROVE  Rest' = Rest \cup {e \in Entries : e \in f.data}
<1>1. tmp'[n] = f BY DEF TypeOK
<1>2. \A m \in TmpNos : m # n => tmp'[m] = tmp[m] BY DEF TypeOK
<1>3. AllOf(tmp', TmpNos) = AllOf(tmp, TmpNos) \cup {e \in Entries : e \in f.data}
  BY <1>1, <1>2 DEF AllOf
<1>4. InPartitions' = InPartitions /\ AllOf(tmpc', held') = AllOf(tmpc, held) BY DEF InPartitions
<1> QED BY <1>3, <1>4 DEF Rest, OnDisk

(* What a step does to the rest: nothing that matters, or the memtable is added to it. *)
RestStep ==
  /\ Shadow(Rest) \subseteq Shadow(Rest)'
  /\ \/ Shadow(Rest)' = Shadow(Rest)
     \/ memtable' = memtable /\ Rest' = Rest \cup memtable

(* A step that leaves Rest alone. *)
LEMMA SameRest == ASSUME Rest' = Rest PROVE RestStep
BY DEF RestStep, Shadow

(* A step that leaves the files alone. *)
LEMMA SameFiles == ASSUME UNCHANGED <<tmp, tmpc, part, held>> PROVE RestStep
<1>1. InPartitions' = InPartitions BY DEF InPartitions
<1>2. Rest' = Rest BY <1>1 DEF Rest, OnDisk
<1> QED BY <1>2, SameRest

(* A step after which Rest accounts for the same inserts. *)
LEMMA EquivRest ==
  ASSUME Rest \subseteq Shadow(Rest)', Rest' \subseteq Shadow(Rest), Rest' \subseteq Entries
  PROVE  RestStep
<1>1. Shadow(Rest') = Shadow(Rest)' BY DEF Shadow
<1>2. Shadow(Rest') = Shadow(Rest) BY <1>1, ShadowEquiv, RestSubset
<1> QED BY <1>1, <1>2 DEF RestStep

(* Dropping .tmpc files the partitions account for. *)
LEMMA Drained ==
  ASSUME UNCHANGED <<tmp, InPartitions>>, AllOf(tmpc', held') \subseteq AllOf(tmpc, held),
         AllOf(tmpc, held) \subseteq Shadow(InPartitions)
  PROVE  RestStep
<1>1. Rest' \subseteq Rest BY DEF Rest, OnDisk
<1>2. Rest' \subseteq Shadow(Rest) BY <1>1, RestSubset, ShadowContains
<1>3. OnDisk \subseteq Rest' /\ Rest' \subseteq Entries BY <1>1, RestSubset DEF Rest, OnDisk
<1>4. OnDisk \subseteq Shadow(Rest)'
  <2>1. Rest' \subseteq Shadow(Rest') BY <1>3, ShadowContains
  <2> QED BY <1>3, <2>1 DEF Shadow
<1>5. InPartitions \subseteq Rest' BY DEF Rest, OnDisk
<1>6. AllOf(tmpc, held) \subseteq Shadow(Rest)' BY <1>5 DEF Shadow
<1> QED BY <1>1, <1>2, <1>3, <1>4, <1>6, EquivRest DEF Rest

(* No step of a thread loses what is stored outside the memtable. *)
LEMMA RunRest ==
  ASSUME TypeOK, MutexInv, FreshInv, CompactInv,
         RunStep, Up, Up'
  PROVE  RestStep
<1> USE SameFiles, Dies DEF memory, disk, locks, compactor, selects, history
<1>1. ASSUME NEW e \in Entries, Insert(e) PROVE RestStep
  BY <1>1 DEF Insert
<1>2. ASSUME NEW d \in Dumpers, StartDump(d) PROVE RestStep
  BY <1>2 DEF StartDump, GotoD
<1>3. ASSUME SkipDump PROVE RestStep
  BY <1>3 DEF SkipDump, GotoD
<1>4. ASSUME NEW d \in Dumpers, LockPartToDump(d) PROVE RestStep
  BY <1>4 DEF LockPartToDump, GotoD
<1>5. ASSUME NEW d \in Dumpers, CreateTmp(d) PROVE RestStep
  <2>1. tmpNo \in TmpNos /\ tmp[tmpNo].data = {} BY <1>5, FileIsEmpty DEF CreateTmp
  <2>2. tmp' = [tmp EXCEPT ![tmpNo] = EmptyTmp] /\ UNCHANGED <<tmpc, part, held>>
    BY <1>5 DEF CreateTmp, compactor
  <2>3. Rest' = Rest \cup {e \in Entries : e \in EmptyTmp.data} BY <2>1, <2>2, WriteFile
  <2>4. Rest' = Rest BY <2>3 DEF EmptyTmp
  <2> QED BY <2>4, SameRest
<1>6. ASSUME NEW d \in Dumpers, WriteHeader(d) PROVE RestStep
  <2>1. tmpNo \in TmpNos /\ tmp[tmpNo].data = {} BY <1>6, FileIsEmpty DEF WriteHeader
  <2>2. tmp' = [tmp EXCEPT ![tmpNo] = Tmp({})] /\ UNCHANGED <<tmpc, part, held>>
    BY <1>6 DEF WriteHeader, compactor
  <2>3. Rest' = Rest \cup {e \in Entries : e \in Tmp({}).data} BY <2>1, <2>2, WriteFile
  <2>4. Rest' = Rest BY <2>3 DEF Tmp
  <2> QED BY <2>4, SameRest
<1>7. ASSUME NEW d \in Dumpers, SaveDump(d) PROVE RestStep
  <2>1. tmpNo \in TmpNos /\ tmp[tmpNo].data = {} BY <1>7, FileIsEmpty DEF SaveDump
  <2>2. ~Segfault BY Dies
  <2>3. tmp' = [tmp EXCEPT ![tmpNo] = Tmp(memtable)] /\ UNCHANGED <<memtable, tmpc, part, held>>
    BY <1>7, <2>2 DEF SaveDump, memory, compactor
  <2>4. Rest' = Rest \cup {e \in Entries : e \in Tmp(memtable).data} BY <2>1, <2>3, WriteFile
  <2>5. Rest' = Rest \cup memtable BY <2>4 DEF Tmp, TypeOK
  <2>6. Shadow(Rest) \subseteq Shadow(Rest)' BY <2>5 DEF Shadow
  <2> QED BY <2>3, <2>5, <2>6 DEF RestStep
<1>8. ASSUME NEW d \in Dumpers, CleanMemtable(d) PROVE RestStep
  BY <1>8 DEF CleanMemtable, GotoD
<1>9. ASSUME ListTmps PROVE RestStep
  BY <1>9 DEF ListTmps
<1>10. ASSUME NEW n \in TmpNos, Rename(n) PROVE RestStep
  <2>1. n \notin held BY <1>10 DEF Rename, CompactInv
  <2>2. /\ tmpc' = [tmpc EXCEPT ![n] = tmp[n]] /\ tmp' = [tmp EXCEPT ![n] = NoTmp]
        /\ held' = held \cup {n} /\ part' = part
    BY <1>10 DEF Rename
  <2>3. /\ tmpc'[n] = tmp[n] /\ tmp'[n].data = {}
        /\ \A m \in TmpNos : m # n => tmpc'[m] = tmpc[m] /\ tmp'[m] = tmp[m]
    BY <2>2 DEF TypeOK, NoTmp
  <2>4. AllOf(tmpc', held') = AllOf(tmpc, held) \cup {e \in Entries : e \in tmp[n].data}
    BY <2>1, <2>2, <2>3 DEF AllOf, TypeOK
  <2>5. AllOf(tmp, TmpNos) = AllOf(tmp', TmpNos) \cup {e \in Entries : e \in tmp[n].data}
    BY <2>3 DEF AllOf
  <2>6. InPartitions' = InPartitions BY <2>2 DEF InPartitions
  <2>7. Rest' = Rest BY <2>4, <2>5, <2>6 DEF Rest, OnDisk
  <2> QED BY <2>7, SameRest
<1>11. ASSUME NEW n \in TmpNos, ReadTmpc(n) PROVE RestStep
  BY <1>11 DEF ReadTmpc
<1>12. ASSUME LockPartToSave PROVE RestStep
  BY <1>12 DEF LockPartToSave
<1>13. ASSUME NEW k \in Keys, SaveKey(k) PROVE RestStep
  <2>1. PICK e \in Newest(Of(batch, k)) : part' = [part EXCEPT ![PartOf(k)] = @ \cup {e}]
    BY <1>13 DEF SaveKey
  <2>2. e \in batch BY <2>1 DEF Newest, Of
  <2>3. e \in AllOf(tmpc, held) BY <1>13, <2>2 DEF SaveKey, CompactInv
  <2>4. e \in Entries BY <2>3 DEF AllOf
  <2>5. PartOf(k) \in 0 .. Parts - 1 BY KeysAndParts
  <2>6. InPartitions' = InPartitions \cup {e} BY <2>1, <2>4, <2>5 DEF InPartitions, TypeOK
  <2>7. UNCHANGED <<tmp, tmpc, held>> BY <1>13 DEF SaveKey
  <2>8. Rest' = Rest BY <2>3, <2>6, <2>7 DEF Rest, OnDisk
  <2> QED BY <2>8, SameRest
<1>14. ASSUME UnlockPartSaved PROVE RestStep
  BY <1>14 DEF UnlockPartSaved
<1>15. ASSUME NEW n \in TmpNos, DeleteTmpc(n) PROVE RestStep
  <2>1. ~Segfault BY Dies
  <2>2. tmpc' = [tmpc EXCEPT ![n] = NoTmp] /\ UNCHANGED <<tmp, part, held>> BY <1>15, <2>1 DEF DeleteTmpc
  <2>3. InPartitions' = InPartitions BY <2>2 DEF InPartitions
  <2>4. AllOf(tmpc', held') \subseteq AllOf(tmpc, held) BY <2>2 DEF AllOf, NoTmp, TypeOK
  <2>5. AllOf(tmpc, held) \subseteq Shadow(InPartitions)
    BY <1>15 DEF DeleteTmpc, CompactInv, CompactionLosesNothing
  <2> QED BY <2>2, <2>3, <2>4, <2>5, Drained
<1>16. ASSUME EndCompaction PROVE RestStep
  <2>1. held' = {} /\ UNCHANGED <<tmp, tmpc, part>> BY <1>16 DEF EndCompaction, disk
  <2>2. InPartitions' = InPartitions BY <2>1 DEF InPartitions
  <2>3. AllOf(tmpc', held') \subseteq AllOf(tmpc, held) BY <2>1 DEF AllOf
  <2>4. AllOf(tmpc, held) \subseteq Shadow(InPartitions)
    BY <1>16 DEF EndCompaction, CompactInv, CompactionLosesNothing
  <2> QED BY <2>1, <2>2, <2>3, <2>4, Drained
<1>17. ASSUME NEW r \in Readers, NEW k \in Keys, StartSelect(r, k) PROVE RestStep
  BY <1>17 DEF StartSelect, GotoR
<1>18. ASSUME NEW r \in Readers, LockPartToRead(r) PROVE RestStep
  BY <1>18 DEF LockPartToRead, GotoR
<1>19. ASSUME NEW r \in Readers, ReadPartition(r) PROVE RestStep
  BY <1>19 DEF ReadPartition, GotoR
<1>20. ASSUME NEW r \in Readers, ListTmpsToRead(r) PROVE RestStep
  BY <1>20 DEF ListTmpsToRead, GotoR
<1>21. ASSUME NEW r \in Readers, NEW n \in TmpNos, ReadTmp(r, n) PROVE RestStep
  BY <1>21 DEF ReadTmp, GotoR
<1>22. ASSUME NEW r \in Readers, UnlockPartRead(r) PROVE RestStep
  BY <1>22 DEF UnlockPartRead, GotoR
<1>23. ASSUME NEW r \in Readers, ReadMemtable(r) PROVE RestStep
  BY <1>23 DEF ReadMemtable, GotoR
<1>24. ASSUME NEW r \in Readers, Answer(r) PROVE RestStep
  BY <1>24 DEF Answer, GotoR
<1> QED BY <1>1, <1>2, <1>3, <1>4, <1>5, <1>6, <1>7, <1>8, <1>9,
           <1>10, <1>11, <1>12, <1>13, <1>14, <1>15, <1>16, <1>17, <1>18,
           <1>19, <1>20, <1>21, <1>22, <1>23, <1>24
        DEF RunStep, DumpStep, CompactStep, SelectStep

(* A dumper that stays before its cleaning stays accounted for. *)
LEMMA StaysDumped ==
  ASSUME DumpInv, RestStep, memtable' \subseteq memtable, UNCHANGED dpc
  PROVE  DumpInv'
<1>1. \A S : Shadow(S)' = Shadow(S') BY DEF Shadow
<1> SUFFICES ASSUME NEW d \in Dumpers, dpc[d] = "clean"
             PROVE  memtable' \subseteq Shadow(Rest)'
  BY DEF DumpInv, Rest
<1>2. memtable \subseteq Shadow(Rest) BY DEF DumpInv, Rest
<1> QED BY <1>2 DEF RestStep

(* A dumper that moves anywhere but to its cleaning. *)
LEMMA NewlyDumped ==
  ASSUME TypeOK, DumpInv, RestStep, memtable' = memtable, NEW d \in Dumpers, NEW label, 
         dpc' = [dpc EXCEPT ![d] = label], label # "clean"
  PROVE  DumpInv'
<1> SUFFICES ASSUME NEW c \in Dumpers, dpc'[c] = "clean"
             PROVE  memtable' \subseteq Shadow(Rest)'
  BY DEF DumpInv, Rest
<1>1. dpc[c] = "clean" BY DEF TypeOK
<1>2. memtable \subseteq Shadow(Rest) BY <1>1 DEF DumpInv, Rest
<1> QED BY <1>2 DEF RestStep

(* No step of a thread lets a dump clean what is not saved. *)
LEMMA RunDump ==
  ASSUME TypeOK, MutexInv, FreshInv, CompactInv, DumpInv, RestStep,
         RunStep, Up, Up'
  PROVE  DumpInv'
<1>1. ASSUME NEW e \in Entries, Insert(e) PROVE DumpInv'
  <2>1. memLock = NoOne /\ dpc' = dpc BY <1>1 DEF Insert
  <2>2. \A d \in Dumpers : dpc[d] # "clean" BY <2>1, Threads DEF MutexInv
  <2> QED BY <2>1, <2>2 DEF DumpInv
<1>2. ASSUME NEW d \in Dumpers, StartDump(d) PROVE DumpInv'
  <2>1. memtable' = memtable /\ dpc' = [dpc EXCEPT ![d] = "part"] BY <1>2 DEF StartDump, GotoD, memory
  <2> QED BY <2>1, NewlyDumped
<1>3. ASSUME SkipDump PROVE DumpInv'
  <2>1. memtable' = memtable /\ dpc' = [dpc EXCEPT !["main"] = "exit"] /\ "main" \in Dumpers
    BY <1>3, Threads DEF SkipDump, GotoD, memory
  <2> QED BY <2>1, NewlyDumped
<1>4. ASSUME NEW d \in Dumpers, LockPartToDump(d) PROVE DumpInv'
  <2>1. memtable' = memtable /\ dpc' = [dpc EXCEPT ![d] = "create"] BY <1>4 DEF LockPartToDump, GotoD, memory
  <2> QED BY <2>1, NewlyDumped
<1>5. ASSUME NEW d \in Dumpers, CreateTmp(d) PROVE DumpInv'
  <2>1. memtable' = memtable /\ dpc' = [dpc EXCEPT ![d] = "header"] BY <1>5 DEF CreateTmp, GotoD, memory
  <2> QED BY <2>1, NewlyDumped
<1>6. ASSUME NEW d \in Dumpers, WriteHeader(d) PROVE DumpInv'
  <2>1. memtable' = memtable /\ dpc' = [dpc EXCEPT ![d] = "save"] BY <1>6 DEF WriteHeader, GotoD, memory
  <2> QED BY <2>1, NewlyDumped
<1>7. ASSUME NEW d \in Dumpers, SaveDump(d) PROVE DumpInv'
  <2>1. tmpNo \in TmpNos /\ tmp[tmpNo].data = {} BY <1>7, FileIsEmpty DEF SaveDump
  <2>2. ~Segfault BY Dies
  <2>3. tmp' = [tmp EXCEPT ![tmpNo] = Tmp(memtable)] /\ UNCHANGED <<memtable, tmpc, part, held>>
    BY <1>7, <2>2 DEF SaveDump, memory, compactor
  <2>4. Rest' = Rest \cup {e \in Entries : e \in Tmp(memtable).data} BY <2>1, <2>3, WriteFile
  <2>5. memtable' \subseteq Rest' BY <2>3, <2>4 DEF Tmp, TypeOK
  <2>6. Rest' \subseteq Entries BY <2>4, RestSubset
  <2>7. Rest' \subseteq Shadow(Rest') BY <2>6, ShadowContains
  <2>8. Shadow(Rest') = Shadow(Rest)' BY DEF Shadow
  <2>9. memtable' \subseteq Shadow(OnDisk \cup AllOf(tmpc, held))' BY <2>5, <2>7, <2>8 DEF Rest
  <2> QED BY <2>9 DEF DumpInv
<1>8. ASSUME NEW d \in Dumpers, CleanMemtable(d) PROVE DumpInv'
  <2>1. memtable' = {} BY <1>8 DEF CleanMemtable
  <2> QED BY <2>1 DEF DumpInv
<1>9. ASSUME ListTmps PROVE DumpInv'
  <2>2. memtable' = memtable /\ dpc' = dpc BY <1>9 DEF ListTmps, memory
  <2> QED BY <2>2, StaysDumped
<1>10. ASSUME NEW n \in TmpNos, Rename(n) PROVE DumpInv'
  <2>2. memtable' = memtable /\ dpc' = dpc BY <1>10 DEF Rename, memory
  <2> QED BY <2>2, StaysDumped
<1>11. ASSUME NEW n \in TmpNos, ReadTmpc(n) PROVE DumpInv'
  <2>1. ~Segfault BY Dies
  <2>2. memtable' = memtable /\ dpc' = dpc BY <1>11, <2>1 DEF ReadTmpc, memory
  <2> QED BY <2>2, StaysDumped
<1>12. ASSUME LockPartToSave PROVE DumpInv'
  <2>2. memtable' = memtable /\ dpc' = dpc BY <1>12 DEF LockPartToSave, memory
  <2> QED BY <2>2, StaysDumped
<1>13. ASSUME NEW k \in Keys, SaveKey(k) PROVE DumpInv'
  <2>2. memtable' = memtable /\ dpc' = dpc BY <1>13 DEF SaveKey, memory
  <2> QED BY <2>2, StaysDumped
<1>14. ASSUME UnlockPartSaved PROVE DumpInv'
  <2>2. memtable' = memtable /\ dpc' = dpc BY <1>14 DEF UnlockPartSaved, memory
  <2> QED BY <2>2, StaysDumped
<1>15. ASSUME NEW n \in TmpNos, DeleteTmpc(n) PROVE DumpInv'
  <2>1. ~Segfault BY Dies
  <2>2. memtable' = memtable /\ dpc' = dpc BY <1>15, <2>1 DEF DeleteTmpc, memory
  <2> QED BY <2>2, StaysDumped
<1>16. ASSUME EndCompaction PROVE DumpInv'
  <2>2. memtable' = memtable /\ dpc' = dpc BY <1>16 DEF EndCompaction, memory
  <2> QED BY <2>2, StaysDumped
<1>17. ASSUME NEW r \in Readers, NEW k \in Keys, StartSelect(r, k) PROVE DumpInv'
  <2>2. memtable' = memtable /\ dpc' = dpc BY <1>17 DEF StartSelect, memory
  <2> QED BY <2>2, StaysDumped
<1>18. ASSUME NEW r \in Readers, LockPartToRead(r) PROVE DumpInv'
  <2>2. memtable' = memtable /\ dpc' = dpc BY <1>18 DEF LockPartToRead, memory
  <2> QED BY <2>2, StaysDumped
<1>19. ASSUME NEW r \in Readers, ReadPartition(r) PROVE DumpInv'
  <2>2. memtable' = memtable /\ dpc' = dpc BY <1>19 DEF ReadPartition, memory
  <2> QED BY <2>2, StaysDumped
<1>20. ASSUME NEW r \in Readers, ListTmpsToRead(r) PROVE DumpInv'
  <2>2. memtable' = memtable /\ dpc' = dpc BY <1>20 DEF ListTmpsToRead, memory
  <2> QED BY <2>2, StaysDumped
<1>21. ASSUME NEW r \in Readers, NEW n \in TmpNos, ReadTmp(r, n) PROVE DumpInv'
  <2>1. ~Segfault BY Dies
  <2>2. memtable' = memtable /\ dpc' = dpc BY <1>21, <2>1 DEF ReadTmp, memory
  <2> QED BY <2>2, StaysDumped
<1>22. ASSUME NEW r \in Readers, UnlockPartRead(r) PROVE DumpInv'
  <2>2. memtable' = memtable /\ dpc' = dpc BY <1>22 DEF UnlockPartRead, memory
  <2> QED BY <2>2, StaysDumped
<1>23. ASSUME NEW r \in Readers, ReadMemtable(r) PROVE DumpInv'
  <2>2. memtable' = memtable /\ dpc' = dpc BY <1>23 DEF ReadMemtable, memory
  <2> QED BY <2>2, StaysDumped
<1>24. ASSUME NEW r \in Readers, Answer(r) PROVE DumpInv'
  <2>2. memtable' = memtable /\ dpc' = dpc BY <1>24 DEF Answer, memory
  <2> QED BY <2>2, StaysDumped
<1> QED BY <1>1, <1>2, <1>3, <1>4, <1>5, <1>6, <1>7, <1>8, <1>9,
           <1>10, <1>11, <1>12, <1>13, <1>14, <1>15, <1>16, <1>17, <1>18,
           <1>19, <1>20, <1>21, <1>22, <1>23, <1>24
        DEF RunStep, DumpStep, CompactStep, SelectStep

-----------------------------------------------------------------------------
(* What a step does to everything stored: nothing, or an insert is added. *)
StoredStep ==
  \/ acked' = acked /\ Shadow(Stored)' = Shadow(Stored)
  \/ \E e \in Entries : acked' = acked \cup {e} /\ Stored' = Stored \cup {e}

(* Everything stored is the memtable and the rest. *)
LEMMA StoredIs == Stored = Rest \cup memtable /\ Stored' = Rest' \cup memtable'
BY DEF Stored, Rest, OnDisk

(* A step that leaves the memtable and the acknowledgements alone. *)
LEMMA SameStored ==
  ASSUME RestStep, acked' = acked, memtable' = memtable
  PROVE  StoredStep
<1>1. \A S : Shadow(S)' = Shadow(S') BY DEF Shadow
<1>2. CASE Shadow(Rest)' = Shadow(Rest)
  <2>1. Shadow(Rest') = Shadow(Rest) BY <1>2 DEF Shadow
  <2>2. /\ Shadow(Rest' \cup memtable) = Shadow(Rest') \cup Shadow(memtable)
        /\ Shadow(Rest \cup memtable) = Shadow(Rest) \cup Shadow(memtable)
    BY ShadowUnion
  <2>3. Shadow(Stored') = Shadow(Stored) BY <2>1, <2>2, StoredIs
  <2>4. Shadow(Stored)' = Shadow(Stored) BY <2>3 DEF Shadow
  <2> QED BY <2>4 DEF StoredStep
<1>3. CASE Rest' = Rest \cup memtable
  <2>1. Stored' = Stored BY <1>3, StoredIs
  <2>2. Shadow(Stored)' = Shadow(Stored) BY <2>1 DEF Shadow
  <2> QED BY <2>2 DEF StoredStep
<1> QED BY <1>2, <1>3 DEF RestStep

(* A step of a thread inserts or changes nothing of what is stored. *)
LEMMA RunStored ==
  ASSUME TypeOK, DumpInv, RestStep,
         RunStep, Up, Up'
  PROVE  StoredStep
<1>1. ASSUME NEW e \in Entries, Insert(e) PROVE StoredStep
  <2>1. UNCHANGED <<tmp, tmpc, part, held>> BY <1>1 DEF Insert, disk, compactor
  <2>2. Rest' = Rest
    <3>1. InPartitions' = InPartitions BY <2>1 DEF InPartitions
    <3> QED BY <2>1, <3>1 DEF Rest, OnDisk
  <2>3. memtable' = memtable \cup {e} /\ acked' = acked \cup {e} BY <1>1 DEF Insert
  <2> QED BY <2>2, <2>3, StoredIs DEF StoredStep
<1>2. ASSUME NEW d \in Dumpers, StartDump(d) PROVE StoredStep
  <2>2. memtable' = memtable /\ acked' = acked BY <1>2 DEF StartDump, memory, history
  <2> QED BY <2>2, SameStored
<1>3. ASSUME SkipDump PROVE StoredStep
  <2>2. memtable' = memtable /\ acked' = acked BY <1>3 DEF SkipDump, memory, history
  <2> QED BY <2>2, SameStored
<1>4. ASSUME NEW d \in Dumpers, LockPartToDump(d) PROVE StoredStep
  <2>2. memtable' = memtable /\ acked' = acked BY <1>4 DEF LockPartToDump, memory, history
  <2> QED BY <2>2, SameStored
<1>5. ASSUME NEW d \in Dumpers, CreateTmp(d) PROVE StoredStep
  <2>2. memtable' = memtable /\ acked' = acked BY <1>5 DEF CreateTmp, memory, history
  <2> QED BY <2>2, SameStored
<1>6. ASSUME NEW d \in Dumpers, WriteHeader(d) PROVE StoredStep
  <2>2. memtable' = memtable /\ acked' = acked BY <1>6 DEF WriteHeader, memory, history
  <2> QED BY <2>2, SameStored
<1>7. ASSUME NEW d \in Dumpers, SaveDump(d) PROVE StoredStep
  <2>1. ~Segfault BY Dies
  <2>2. memtable' = memtable /\ acked' = acked BY <1>7, <2>1 DEF SaveDump, memory, history
  <2> QED BY <2>2, SameStored
<1>8. ASSUME NEW d \in Dumpers, CleanMemtable(d) PROVE StoredStep
  <2>1. UNCHANGED <<tmp, tmpc, part, held>> BY <1>8 DEF CleanMemtable, disk, compactor
  <2>2. Rest' = Rest
    <3>1. InPartitions' = InPartitions BY <2>1 DEF InPartitions
    <3> QED BY <2>1, <3>1 DEF Rest, OnDisk
  <2>3. memtable' = {} /\ acked' = acked BY <1>8 DEF CleanMemtable
  <2>4. memtable \subseteq Shadow(Rest) BY <1>8 DEF CleanMemtable, DumpInv, Rest
  <2>5. Shadow(Rest \cup memtable) = Shadow(Rest) BY <2>4, RestSubset, ShadowClosed DEF TypeOK
  <2>6. Shadow(Stored') = Shadow(Stored) BY <2>2, <2>3, <2>5, StoredIs
  <2>7. Shadow(Stored)' = Shadow(Stored) BY <2>6 DEF Shadow
  <2> QED BY <2>3, <2>7 DEF StoredStep
<1>9. ASSUME ListTmps PROVE StoredStep
  <2>2. memtable' = memtable /\ acked' = acked BY <1>9 DEF ListTmps, memory, history
  <2> QED BY <2>2, SameStored
<1>10. ASSUME NEW n \in TmpNos, Rename(n) PROVE StoredStep
  <2>2. memtable' = memtable /\ acked' = acked BY <1>10 DEF Rename, memory, history
  <2> QED BY <2>2, SameStored
<1>11. ASSUME NEW n \in TmpNos, ReadTmpc(n) PROVE StoredStep
  <2>1. ~Segfault BY Dies
  <2>2. memtable' = memtable /\ acked' = acked BY <1>11, <2>1 DEF ReadTmpc, memory, history
  <2> QED BY <2>2, SameStored
<1>12. ASSUME LockPartToSave PROVE StoredStep
  <2>2. memtable' = memtable /\ acked' = acked BY <1>12 DEF LockPartToSave, memory, history
  <2> QED BY <2>2, SameStored
<1>13. ASSUME NEW k \in Keys, SaveKey(k) PROVE StoredStep
  <2>2. memtable' = memtable /\ acked' = acked BY <1>13 DEF SaveKey, memory, history
  <2> QED BY <2>2, SameStored
<1>14. ASSUME UnlockPartSaved PROVE StoredStep
  <2>2. memtable' = memtable /\ acked' = acked BY <1>14 DEF UnlockPartSaved, memory, history
  <2> QED BY <2>2, SameStored
<1>15. ASSUME NEW n \in TmpNos, DeleteTmpc(n) PROVE StoredStep
  <2>1. ~Segfault BY Dies
  <2>2. memtable' = memtable /\ acked' = acked BY <1>15, <2>1 DEF DeleteTmpc, memory, history
  <2> QED BY <2>2, SameStored
<1>16. ASSUME EndCompaction PROVE StoredStep
  <2>2. memtable' = memtable /\ acked' = acked BY <1>16 DEF EndCompaction, memory, history
  <2> QED BY <2>2, SameStored
<1>17. ASSUME NEW r \in Readers, NEW k \in Keys, StartSelect(r, k) PROVE StoredStep
  <2>2. memtable' = memtable /\ acked' = acked BY <1>17 DEF StartSelect, memory, history
  <2> QED BY <2>2, SameStored
<1>18. ASSUME NEW r \in Readers, LockPartToRead(r) PROVE StoredStep
  <2>2. memtable' = memtable /\ acked' = acked BY <1>18 DEF LockPartToRead, memory, history
  <2> QED BY <2>2, SameStored
<1>19. ASSUME NEW r \in Readers, ReadPartition(r) PROVE StoredStep
  <2>2. memtable' = memtable /\ acked' = acked BY <1>19 DEF ReadPartition, memory, history
  <2> QED BY <2>2, SameStored
<1>20. ASSUME NEW r \in Readers, ListTmpsToRead(r) PROVE StoredStep
  <2>2. memtable' = memtable /\ acked' = acked BY <1>20 DEF ListTmpsToRead, memory, history
  <2> QED BY <2>2, SameStored
<1>21. ASSUME NEW r \in Readers, NEW n \in TmpNos, ReadTmp(r, n) PROVE StoredStep
  <2>1. ~Segfault BY Dies
  <2>2. memtable' = memtable /\ acked' = acked BY <1>21, <2>1 DEF ReadTmp, memory, history
  <2> QED BY <2>2, SameStored
<1>22. ASSUME NEW r \in Readers, UnlockPartRead(r) PROVE StoredStep
  <2>2. memtable' = memtable /\ acked' = acked BY <1>22 DEF UnlockPartRead, memory, history
  <2> QED BY <2>2, SameStored
<1>23. ASSUME NEW r \in Readers, ReadMemtable(r) PROVE StoredStep
  <2>2. memtable' = memtable /\ acked' = acked BY <1>23 DEF ReadMemtable, memory, history
  <2> QED BY <2>2, SameStored
<1>24. ASSUME NEW r \in Readers, Answer(r) PROVE StoredStep
  <2>2. memtable' = memtable /\ acked' = acked BY <1>24 DEF Answer, memory, history
  <2> QED BY <2>2, SameStored
<1> QED BY <1>1, <1>2, <1>3, <1>4, <1>5, <1>6, <1>7, <1>8, <1>9,
           <1>10, <1>11, <1>12, <1>13, <1>14, <1>15, <1>16, <1>17, <1>18,
           <1>19, <1>20, <1>21, <1>22, <1>23, <1>24
        DEF RunStep, DumpStep, CompactStep, SelectStep

-----------------------------------------------------------------------------
(* The other steps: the process stops, or starts again. *)

(* A thread's step changes the status only by dying. *)
LEMMA RunOrDie ==
  ASSUME RunStep
  PROVE  Segfault \/ status' = status
<1> USE DEF history
<1>1. ASSUME NEW e \in Entries, Insert(e) PROVE status' = status BY <1>1 DEF Insert
<1>2. ASSUME NEW d \in Dumpers, DumpStep(d) PROVE Segfault \/ status' = status
  BY <1>2 DEF DumpStep, StartDump, LockPartToDump, CreateTmp, WriteHeader, SaveDump, CleanMemtable
<1>3. ASSUME SkipDump PROVE status' = status BY <1>3 DEF SkipDump
<1>4. ASSUME CompactStep PROVE Segfault \/ status' = status
  BY <1>4 DEF CompactStep, ListTmps, Rename, ReadTmpc, LockPartToSave, SaveKey, UnlockPartSaved,
              DeleteTmpc, EndCompaction
<1>5. ASSUME NEW r \in Readers, SelectStep(r) PROVE Segfault \/ status' = status
  BY <1>5 DEF SelectStep, StartSelect, LockPartToRead, ReadPartition, ListTmpsToRead, ReadTmp,
              UnlockPartRead, ReadMemtable, Answer
<1> QED BY <1>1, <1>2, <1>3, <1>4, <1>5 DEF RunStep

(* No thread steps in a process that is not up. *)
LEMMA OnlyWhenUp ==
  ASSUME RunStep, DownInv
  PROVE  Up
<1> SUFFICES ASSUME ~Up PROVE FALSE OBVIOUS
<1>1. /\ cpc = "idle"
      /\ \A d \in Dumpers : dpc[d] = "idle"
      /\ \A r \in Readers : rpc[r] = "idle"
  BY DEF DownInv
<1>2. ASSUME NEW e \in Entries, Insert(e) PROVE FALSE BY <1>2 DEF Insert
<1>3. ASSUME NEW d \in Dumpers, DumpStep(d) PROVE FALSE
  BY <1>1, <1>3 DEF DumpStep, StartDump, LockPartToDump, CreateTmp, WriteHeader, SaveDump, CleanMemtable
<1>4. ASSUME SkipDump PROVE FALSE BY <1>4 DEF SkipDump
<1>5. ASSUME CompactStep PROVE FALSE
  BY <1>1, <1>5 DEF CompactStep, ListTmps, Rename, ReadTmpc, LockPartToSave, SaveKey, UnlockPartSaved,
              DeleteTmpc, EndCompaction
<1>6. ASSUME NEW r \in Readers, SelectStep(r) PROVE FALSE
  <2>1. rpc[r] = "idle" BY <1>1
  <2>2. ~ \E k \in Keys : StartSelect(r, k) BY DEF StartSelect
  <2>3. ~ \E n \in TmpNos : ReadTmp(r, n) BY <2>1 DEF ReadTmp
  <2> QED BY <1>6, <2>1, <2>2, <2>3 DEF SelectStep, LockPartToRead, ReadPartition, ListTmpsToRead,
                                        UnlockPartRead, ReadMemtable, Answer
<1> QED BY <1>2, <1>3, <1>4, <1>5, <1>6 DEF RunStep

(* Every step runs a thread, stops the process or starts it. *)
LEMMA Steps ==
  ASSUME Next, DownInv
  PROVE  \/ RunStep /\ Up /\ Up'
         \/ Up /\ Stops
         \/ Restart
<1>1. CASE RunStep
  <2>1. Up BY <1>1, OnlyWhenUp
  <2>2. Segfault => Stops BY DEF Segfault, Stops
  <2> QED BY <1>1, <2>1, <2>2, RunOrDie DEF Up
<1>2. CASE Exit
  <2>1. Stops BY <1>2 DEF Exit, Stops
  <2>2. Up BY <1>2, Threads DEF Exit, DownInv
  <2> QED BY <2>1, <2>2
<1>3. CASE Kill BY <1>3 DEF Kill, Stops
<1> QED BY <1>1, <1>2, <1>3 DEF Next, RunStep

IInv ==
  /\ TypeOK
  /\ MutexInv
  /\ FreshInv
  /\ DumpInv
  /\ CompactInv
  /\ DownInv
  /\ NothingAckedIsLost

(* The initial state satisfies the invariant. *)
LEMMA Starts == Init => IInv
<1> SUFFICES ASSUME Init PROVE IInv OBVIOUS
<1> USE DEF Init, Threads0
<1>1. TypeOK BY Files, Numbers DEF TypeOK, Dumpers
<1>2. MutexInv BY Threads DEF MutexInv
<1>3. FreshInv BY Numbers DEF FreshInv, NoTmp
<1>4. DumpInv /\ CompactInv /\ DownInv /\ NothingAckedIsLost
  BY DEF DumpInv, CompactInv, CompactionLosesNothing, DownInv, Up, NothingAckedIsLost
<1> QED BY <1>1, <1>2, <1>3, <1>4 DEF IInv

(* So does the state in which a process has stopped. *)
LEMMA Stopping ==
  ASSUME IInv, Stops
  PROVE  IInv' /\ ~Up'
<1> PICK how \in {"exited", "died"} : StopAs(how) BY DEF Stops
<1> USE DEF StopAs, disk
<1>1. ~Up' BY DEF Up
<1>2. TypeOK' BY Numbers DEF IInv, TypeOK
<1>3. MutexInv' BY Threads DEF MutexInv
<1>4. FreshInv' BY <1>1 DEF FreshInv
<1>5. DumpInv' BY DEF DumpInv
<1>6. CompactInv' BY DEF CompactInv, CompactionLosesNothing
<1>7. DownInv' /\ NothingAckedIsLost' BY <1>1 DEF DownInv, NothingAckedIsLost
<1> QED BY <1>1, <1>2, <1>3, <1>4, <1>5, <1>6, <1>7 DEF IInv

(* So does a start-up, which answers for exactly what is on disk. *)
LEMMA Restarting ==
  ASSUME IInv, Restart
  PROVE  IInv' /\ ~Up /\ Up' /\ OnDisk' = OnDisk /\ Stored' = OnDisk
<1> USE DEF Restart, disk, locks, compactor, selects
<1>1. ~Up /\ Up' BY DEF Up
<1>2. memtable' = {} /\ held' = {} BY <1>1 DEF IInv, DownInv
<1>3. OnDisk' = OnDisk BY DEF OnDisk, InPartitions
<1>4. Stored' = OnDisk BY <1>2, <1>3 DEF Stored, AllOf
<1>5. OnDisk \subseteq Entries BY DEF OnDisk, AllOf, InPartitions
<1>6. PICK n \in 0 .. MaxTmp + 1 : IsNextTmpNo(n) /\ tmpNo' = n OBVIOUS
<1>7. TypeOK'
  <2>1. restarts' \in Nat BY DEF IInv, TypeOK
  <2> QED BY <1>2, <1>5, <1>6, <2>1 DEF IInv, TypeOK
<1>8. MutexInv' BY DEF IInv, MutexInv
<1>9. FreshInv'
  <2>1. \A m \in TmpNos : tmpNo' <= m => tmp[m] = NoTmp
    <3> SUFFICES ASSUME NEW m \in TmpNos, tmpNo' <= m PROVE tmp[m] = NoTmp OBVIOUS
    <3>1. m \notin Present(tmp) BY <1>6, Numbers DEF IsNextTmpNo
    <3>2. tmp[m] \in TmpFile /\ tmp[m].st = "none" BY <3>1 DEF Present, IInv, TypeOK
    <3> QED BY <3>2, Files
  <2>2. \A m \in TmpNos : tmpNo' < m => tmp'[m] = NoTmp BY <1>6, <2>1, Numbers
  <2>3. tmpNo' \in TmpNos => tmp'[tmpNo'].data = {} BY <1>6, <2>1, Numbers DEF NoTmp
  <2>4. \A d \in Dumpers : dpc'[d] = "idle" BY <1>1 DEF IInv, DownInv
  <2> QED BY <2>2, <2>3, <2>4 DEF FreshInv
<1>10. DumpInv' BY <1>1 DEF IInv, DumpInv, DownInv
<1>11. CompactInv'
  <2>1. InPartitions' = InPartitions BY DEF InPartitions
  <2>2. CompactInv BY DEF IInv
  <2> QED BY <2>1, <2>2 DEF CompactInv, CompactionLosesNothing, AllOf, Shadow
<1>12. NothingAckedIsLost'
  <2>1. acked' = OnDisk OBVIOUS
  <2>2. OnDisk \subseteq Shadow(OnDisk) BY <1>5, ShadowContains
  <2>3. Shadow(Stored)' = Shadow(OnDisk) BY <1>4 DEF Shadow
  <2> QED BY <2>1, <2>2, <2>3 DEF NothingAckedIsLost
<1>13. DownInv' BY <1>1 DEF DownInv
<1> QED BY <1>1, <1>3, <1>4, <1>7, <1>8, <1>9, <1>10, <1>11, <1>12, <1>13 DEF IInv

(* So does the state after a thread's step. *)
LEMMA Running ==
  ASSUME IInv, RunStep, Up, Up'
  PROVE  IInv' /\ StoredStep
<1>1. TypeOK' BY RunType DEF IInv
<1>2. MutexInv' BY RunMutex DEF IInv
<1>3. FreshInv' BY RunFresh DEF IInv
<1>4. CompactInv' BY RunCompact DEF IInv
<1>5. RestStep BY RunRest DEF IInv
<1>6. DumpInv' BY <1>5, RunDump DEF IInv
<1>7. StoredStep BY <1>5, RunStored DEF IInv
<1>8. NothingAckedIsLost'
  <2>1. acked \subseteq Shadow(Stored) BY DEF IInv, NothingAckedIsLost
  <2>2. CASE acked' = acked /\ Shadow(Stored)' = Shadow(Stored) BY <2>1, <2>2 DEF NothingAckedIsLost
  <2>3. ASSUME NEW e \in Entries, acked' = acked \cup {e}, Stored' = Stored \cup {e}
        PROVE  acked' \subseteq Shadow(Stored)'
    <3>1. Shadow(Stored') = Shadow(Stored) \cup Shadow({e}) BY <2>3, ShadowUnion
    <3>2. e \in Shadow({e}) BY ShadowContains
    <3>3. Shadow(Stored)' = Shadow(Stored') BY DEF Shadow
    <3> QED BY <2>1, <2>3, <3>1, <3>2, <3>3
  <2> QED BY <1>7, <2>2, <2>3 DEF StoredStep, NothingAckedIsLost
<1>9. DownInv' BY DEF DownInv
<1> QED BY <1>1, <1>2, <1>3, <1>4, <1>6, <1>7, <1>8, <1>9 DEF IInv

(* So does a stutter. *)
LEMMA Stuttering == ASSUME IInv, UNCHANGED vars PROVE IInv'
<1> USE DEF vars, memory, disk, locks, compactor, selects, history
<1>1. UNCHANGED <<OnDisk, Stored, InPartitions>> BY DEF OnDisk, Stored, InPartitions
<1>2. TypeOK' BY DEF IInv, TypeOK
<1>3. MutexInv' BY DEF IInv, MutexInv
<1>4. FreshInv' BY DEF IInv, FreshInv, Up
<1>5. DumpInv' BY <1>1 DEF IInv, DumpInv, Shadow, AllOf
<1>6. CompactInv'
  <2>1. CompactInv BY DEF IInv
  <2> QED BY <1>1, <2>1 DEF CompactInv, CompactionLosesNothing, AllOf, Shadow
<1>7. DownInv' BY DEF IInv, DownInv, Up
<1>8. NothingAckedIsLost' BY <1>1 DEF IInv, NothingAckedIsLost, Up, Shadow
<1> QED BY <1>2, <1>3, <1>4, <1>5, <1>6, <1>7, <1>8 DEF IInv

(* Every reachable state satisfies the inductive invariant. *)
THEOREM Invariance == Spec => []IInv
<1>1. ASSUME IInv, [Next]_vars PROVE IInv'
  <2>1. CASE UNCHANGED vars BY <1>1, <2>1, Stuttering
  <2>2. CASE Next
    <3>1. DownInv BY <1>1 DEF IInv
    <3> QED BY <1>1, <2>2, <3>1, Steps, Running, Stopping, Restarting
  <2> QED BY <1>1, <2>1, <2>2
<1> QED BY <1>1, Starts, PTL DEF Spec

(* Variables keep their types: no dump number runs past the bound of the files. *)
THEOREM Typing == Spec => []TypeOK
<1>1. IInv => TypeOK BY DEF IInv
<1> QED BY <1>1, Invariance, PTL

(* Whatever dump and compaction are doing, an acknowledged insert is kept or superseded. *)
THEOREM Durability == Spec => []NothingAckedIsLost
<1>1. IInv => NothingAckedIsLost BY DEF IInv
<1> QED BY <1>1, Invariance, PTL

(* A compaction deletes files only once the partitions account for them. *)
THEOREM CompactionSafety == Spec => []CompactionLosesNothing
<1>1. IInv => CompactionLosesNothing BY DEF IInv, CompactInv
<1> QED BY <1>1, Invariance, PTL

-----------------------------------------------------------------------------
(* What a select finds. *)

(* The records of a key are in one partition. *)
PlacedInv == \A i \in 0 .. Parts - 1 : \A e \in part[i] : PartOf(e.key) = i

(* A file it has still to read has been taken away: the select will not end. *)
Doomed(r) == \E n \in rnames[r] : tmp[n].st # "ready"

(* What a select has collected, with what it has still to read, accounts for
   all it should find, unless it has been overtaken.  Once it has read the
   partition, until it lists the .tmp files, nothing is left in .tmpc files
   that the partitions do not account for. *)
SelectOf(r) ==
  /\ rpc[r] # "idle" => rkey[r] \in Keys /\ want[r] \subseteq Of(acked, rkey[r])
  /\ stale[r] = "no" =>
       /\ rpc[r] = "names" => /\ rset[r] = Of(part[PartOf(rkey[r])], rkey[r])
                              /\ AllOf(tmpc, held) \subseteq Shadow(InPartitions)
       /\ rpc[r] = "files" =>
            \/ Doomed(r)
            \/ want[r] \subseteq Shadow(memtable \cup AllOf(tmp, rnames[r]) \cup rset[r])
       /\ rpc[r] = "memtable" => want[r] \subseteq Shadow(memtable \cup rset[r])
       /\ rpc[r] = "done" => want[r] \subseteq Shadow(rset[r])

SelectInv == PlacedInv /\ \A r \in Readers : SelectOf(r)

(* A step of another thread. *)
Untouched(r) ==
  /\ rpc'[r] = rpc[r] /\ rkey'[r] = rkey[r] /\ rset'[r] = rset[r]
  /\ rnames'[r] = rnames[r] /\ want'[r] = want[r]
  /\ acked \subseteq acked'

(* What another thread may do while a select runs, for it to go on finding
   what it should. *)
LEMMA SelectFrame ==
  ASSUME TypeOK, NEW r \in Readers, SelectOf(r), Untouched(r),
         stale'[r] \in {stale[r], "yes"},
         stale'[r] = "no" /\ rpc[r] = "names" =>
           /\ part' = part
           /\ AllOf(tmpc', held') \subseteq AllOf(tmpc, held),
         stale'[r] = "no" /\ rpc[r] = "files" =>
           /\ memtable \subseteq memtable'
           /\ \A n \in TmpNos : tmp'[n] = tmp[n] \/ tmp'[n].st # "ready",
         stale'[r] = "no" /\ rpc[r] = "memtable" => memtable \subseteq memtable'
  PROVE  SelectOf(r)'
<1> USE DEF Untouched
<1>1. rpc'[r] # "idle" => rkey'[r] \in Keys /\ want'[r] \subseteq Of(acked', rkey'[r])
  BY DEF SelectOf, Of
<1>2. stale'[r] = "no" => stale[r] = "no" OBVIOUS
<1>3. ASSUME stale'[r] = "no", rpc'[r] = "names"
      PROVE  /\ rset'[r] = Of(part'[PartOf(rkey'[r])], rkey'[r])
             /\ AllOf(tmpc', held') \subseteq Shadow(InPartitions)'
  <2>1. part' = part /\ AllOf(tmpc', held') \subseteq AllOf(tmpc, held) BY <1>3
  <2>2. Shadow(InPartitions)' = Shadow(InPartitions) BY <2>1 DEF Shadow, InPartitions
  <2> QED BY <1>2, <1>3, <2>1, <2>2 DEF SelectOf
<1>4. ASSUME stale'[r] = "no", rpc'[r] = "files", ~Doomed(r)'
      PROVE  want'[r] \subseteq Shadow(memtable' \cup AllOf(tmp', rnames'[r]) \cup rset'[r])
  <2>1. rnames[r] \subseteq TmpNos BY DEF TypeOK
  <2>2. \A n \in rnames[r] : tmp'[n] = tmp[n] BY <1>3, <1>4, <2>1 DEF Doomed
  <2>3. ~Doomed(r) BY <1>4, <2>2 DEF Doomed
  <2>4. AllOf(tmp', rnames'[r]) = AllOf(tmp, rnames[r]) BY <2>2 DEF AllOf
  <2>5. memtable \cup AllOf(tmp, rnames[r]) \cup rset[r]
          \subseteq memtable' \cup AllOf(tmp', rnames'[r]) \cup rset'[r]
    BY <1>4, <2>4
  <2>6. want[r] \subseteq Shadow(memtable \cup AllOf(tmp, rnames[r]) \cup rset[r])
    BY <1>2, <1>4, <2>3 DEF SelectOf
  <2> QED BY <2>5, <2>6, ShadowMonotone
<1>5. ASSUME stale'[r] = "no", rpc'[r] = "memtable"
      PROVE  want'[r] \subseteq Shadow(memtable' \cup rset'[r])
  <2>1. memtable \cup rset[r] \subseteq memtable' \cup rset'[r] BY <1>5
  <2>2. want[r] \subseteq Shadow(memtable \cup rset[r]) BY <1>2, <1>5 DEF SelectOf
  <2> QED BY <2>1, <2>2, ShadowMonotone
<1>6. ASSUME stale'[r] = "no", rpc'[r] = "done" PROVE want'[r] \subseteq Shadow(rset'[r])
  BY <1>2, <1>6 DEF SelectOf
<1>7. \A S : Shadow(S)' = Shadow(S') BY DEF Shadow
<1>8. /\ AllOf(tmpc, held)' = AllOf(tmpc', held')
      /\ Of(part[PartOf(rkey[r])], rkey[r])' = Of(part'[PartOf(rkey'[r])], rkey'[r])
      /\ Of(acked, rkey[r])' = Of(acked', rkey'[r])
  BY DEF AllOf, Of, PartOf
<1>9. /\ Shadow(memtable \cup AllOf(tmp, rnames[r]) \cup rset[r])'
           = Shadow(memtable' \cup AllOf(tmp', rnames'[r]) \cup rset'[r])
      /\ Shadow(memtable \cup rset[r])' = Shadow(memtable' \cup rset'[r])
      /\ Shadow(rset[r])' = Shadow(rset'[r])
  BY DEF Shadow, AllOf
<1> QED BY <1>1, <1>3, <1>4, <1>5, <1>6, <1>8, <1>9 DEF SelectOf

(* A select lists the .tmp files: with them, the memtable and what it has
   read of the partition, it has all there is of its key. *)
LEMMA ListsAll ==
  ASSUME IInv, PlacedInv, NEW r \in Readers, SelectOf(r), Up,
         rpc[r] = "names", stale[r] = "no"
  PROVE  want[r] \subseteq Shadow(memtable \cup AllOf(tmp, Present(tmp)) \cup rset[r])
<1> DEFINE all == memtable \cup AllOf(tmp, Present(tmp)) \cup rset[r]
<1> SUFFICES ASSUME NEW e \in want[r] PROVE e \in Shadow(all) OBVIOUS
<1>1. /\ rset[r] = Of(part[PartOf(rkey[r])], rkey[r]) /\ rkey[r] \in Keys
      /\ AllOf(tmpc, held) \subseteq Shadow(InPartitions)
      /\ e \in Of(acked, rkey[r])
  BY DEF SelectOf
<1>2. e \in acked /\ e.key = rkey[r] BY <1>1 DEF Of
<1>3. e \in Entries /\ e.ts \in Nat BY <1>2, TimesAreNumbers DEF IInv, TypeOK
<1>4. PICK x \in Stored : x.key = e.key /\ e.ts <= x.ts
  BY <1>2 DEF IInv, NothingAckedIsLost, Shadow
<1>5. ASSUME NEW y \in InPartitions, y.key = rkey[r] PROVE y \in rset[r]
  <2>1. PICK i \in 0 .. Parts - 1 : y \in part[i] BY DEF InPartitions
  <2>2. PartOf(rkey[r]) = i BY <1>5, <2>1 DEF PlacedInv
  <2> QED BY <1>1, <1>5, <2>1, <2>2 DEF Of
<1>6. \E y \in all : y.key = e.key /\ e.ts <= y.ts
  <2>1. CASE x \in memtable BY <1>4, <2>1
  <2>2. CASE x \in InPartitions BY <1>2, <1>4, <1>5, <2>2
  <2>3. CASE x \in AllOf(tmpc, held)
    <3>1. PICK y \in InPartitions : y.key = x.key /\ x.ts <= y.ts BY <1>1, <2>3 DEF Shadow
    <3>2. x \in Entries /\ y \in Entries BY <2>3, Subsets
    <3>3. e.ts <= y.ts BY <1>3, <1>4, <3>1, <3>2, TimesAreNumbers
    <3>4. y \in rset[r] BY <1>2, <1>4, <1>5, <3>1
    <3> QED BY <1>4, <3>1, <3>3, <3>4
  <2>4. CASE x \in AllOf(tmp, TmpNos)
    <3>1. PICK n \in TmpNos : x \in tmp[n].data BY <2>4 DEF AllOf
    <3>2. tmp[n] \in TmpFile BY DEF IInv, TypeOK
    <3>3. tmp[n].st # "none" BY <3>1, <3>2, Files DEF NoTmp
    <3>4. n \in Present(tmp) BY <3>3 DEF Present
    <3>5. x \in AllOf(tmp, Present(tmp)) BY <2>4, <3>1, <3>4 DEF AllOf
    <3> QED BY <1>4, <3>5
  <2> QED BY <2>1, <2>2, <2>3, <2>4 DEF Stored, OnDisk
<1> QED BY <1>3, <1>6 DEF Shadow

(* A select reads the partition: if no compaction has records that are in no
   file a select reads, the partitions account for the .tmpc files. *)
LEMMA ReadsAll ==
  ASSUME IInv, NEW r \in Readers, rpc[r] = "read",
         ~(held # {} /\ cpc \in {"rename", "read", "lock"})
  PROVE  AllOf(tmpc, held) \subseteq Shadow(InPartitions)
<1>1. CASE held = {} BY <1>1 DEF AllOf
<1>2. CASE cpc = "clean" BY <1>2 DEF IInv, CompactInv, CompactionLosesNothing
<1>3. CASE cpc = "idle" BY <1>1, <1>3 DEF IInv, CompactInv
<1>4. cpc # "save" BY Threads DEF IInv, MutexInv
<1> QED BY <1>1, <1>2, <1>3, <1>4 DEF IInv, TypeOK

(* A step of a dump or of the compactor, or an insert: a select that holds
   MUTEX_TABLE_PART keeps it, and one that is overtaken knows. *)
LEMMA RunBesideSelect ==
  ASSUME IInv, NEW r \in Readers, SelectOf(r), Up, Up',
         \/ \E e \in Entries : Insert(e)
         \/ \E d \in Dumpers : DumpStep(d)
         \/ SkipDump
         \/ CompactStep
  PROVE  SelectOf(r)'
<1> USE Threads, Dies DEF memory, disk, locks, compactor, selects, history
<1>0. TypeOK /\ MutexInv BY DEF IInv
<1>t. stale[r] \in {"no", "yes"} BY <1>0 DEF TypeOK
<1>1. ASSUME NEW e \in Entries, Insert(e) PROVE SelectOf(r)'
  BY <1>0, <1>1, SelectFrame DEF Insert, Untouched
<1>2. ASSUME NEW d \in Dumpers, StartDump(d) PROVE SelectOf(r)'
  BY <1>0, <1>2, SelectFrame DEF StartDump, Untouched
<1>3. CASE SkipDump BY <1>0, <1>3, SelectFrame DEF SkipDump, Untouched
<1>4. ASSUME NEW d \in Dumpers, LockPartToDump(d) PROVE SelectOf(r)'
  BY <1>0, <1>4, SelectFrame DEF LockPartToDump, Untouched
<1>5. ASSUME NEW d \in Dumpers, CreateTmp(d) \/ WriteHeader(d) \/ SaveDump(d) PROVE SelectOf(r)'
  <2>1. rpc[r] \notin {"names", "files"}
    <3>1. partLock = d BY <1>0, <1>5 DEF MutexInv, CreateTmp, WriteHeader, SaveDump
    <3> QED BY <1>0, <3>1 DEF MutexInv
  <2>2. UNCHANGED <<memtable, selects, acked>>
    BY <1>5 DEF CreateTmp, WriteHeader, SaveDump
  <2> QED BY <1>0, <2>1, <2>2, SelectFrame DEF Untouched
<1>6. ASSUME NEW d \in Dumpers, CleanMemtable(d) PROVE SelectOf(r)'
  <2>1. /\ UNCHANGED <<tmp, tmpc, part, held, rpc, rkey, rnames, rset, want, acked>>
        /\ stale'[r] = IF PastTheFiles(r) THEN "yes" ELSE stale[r]
    BY <1>6 DEF CleanMemtable
  <2>2. stale'[r] = "no" => rpc[r] \notin {"files", "memtable"} BY <2>1 DEF PastTheFiles
  <2> QED BY <1>0, <2>1, <2>2, SelectFrame DEF Untouched
<1>7. CASE ListTmps BY <1>0, <1>7, SelectFrame DEF ListTmps, Untouched
<1>8. ASSUME NEW n \in TmpNos, Rename(n) PROVE SelectOf(r)'
  <2>1. /\ UNCHANGED <<memtable, part, rpc, rkey, rnames, rset, want, acked>>
        /\ stale'[r] = IF rpc[r] = "names" THEN "yes" ELSE stale[r]
        /\ tmp' = [tmp EXCEPT ![n] = NoTmp]
    BY <1>8 DEF Rename
  <2>2. \A m \in TmpNos : tmp'[m] = tmp[m] \/ tmp'[m].st # "ready"
    BY <1>0, <2>1 DEF NoTmp, TypeOK
  <2>3. stale'[r] = "no" => rpc[r] # "names" BY <2>1
  <2>4. stale'[r] \in {stale[r], "yes"} BY <2>1
  <2> HIDE DEF memory, disk, locks, compactor, selects, history
  <2>5. Untouched(r) BY <2>1 DEF Untouched
  <2> QED BY <1>0, <2>1, <2>2, <2>3, <2>4, <2>5, SelectFrame
<1>9. ASSUME NEW n \in TmpNos, ReadTmpc(n) PROVE SelectOf(r)'
  BY <1>0, <1>9, SelectFrame DEF ReadTmpc, Untouched
<1>10. CASE LockPartToSave BY <1>0, <1>10, SelectFrame DEF LockPartToSave, Untouched
<1>11. ASSUME NEW k \in Keys, SaveKey(k) PROVE SelectOf(r)'
  <2>1. rpc[r] \notin {"names", "files"} BY <1>0, <1>11 DEF MutexInv, SaveKey
  <2>2. UNCHANGED <<memtable, selects, acked>> BY <1>11 DEF SaveKey
  <2> QED BY <1>0, <2>1, <2>2, SelectFrame DEF Untouched
<1>12. CASE UnlockPartSaved BY <1>0, <1>12, SelectFrame DEF UnlockPartSaved, Untouched
<1>13. ASSUME NEW n \in TmpNos, DeleteTmpc(n) PROVE SelectOf(r)'
  <2>1. tmpc' = [tmpc EXCEPT ![n] = NoTmp] /\ UNCHANGED <<memory, tmp, part, held, selects, acked>>
    BY <1>13 DEF DeleteTmpc
  <2>2. AllOf(tmpc', held') \subseteq AllOf(tmpc, held)
    <3> SUFFICES ASSUME NEW x \in AllOf(tmpc', held') PROVE x \in AllOf(tmpc, held) OBVIOUS
    <3>1. PICK m \in held : x \in Entries /\ x \in tmpc'[m].data BY <2>1 DEF AllOf
    <3>2. tmpc'[m] = tmpc[m] \/ tmpc'[m] = NoTmp BY <1>0, <2>1 DEF TypeOK
    <3>3. tmpc'[m] # NoTmp BY <3>1 DEF NoTmp
    <3> QED BY <3>1, <3>2, <3>3 DEF AllOf
  <2> QED BY <1>0, <2>1, <2>2, SelectFrame DEF Untouched
<1>14. CASE EndCompaction
  <2>1. held' = {} /\ UNCHANGED <<memory, disk, selects, acked>> BY <1>14 DEF EndCompaction
  <2>2. AllOf(tmpc', held') \subseteq AllOf(tmpc, held) BY <2>1 DEF AllOf
  <2> QED BY <1>0, <2>1, <2>2, SelectFrame DEF Untouched
<1> QED BY <1>1, <1>2, <1>3, <1>4, <1>5, <1>6, <1>7, <1>8, <1>9, <1>10, <1>11, <1>12, <1>13, <1>14
        DEF DumpStep, CompactStep

(* A step of a select leaves the others alone. *)
LEMMA RunOtherSelect ==
  ASSUME IInv, NEW r \in Readers, NEW q \in Readers, q # r, SelectOf(r), Up, Up', SelectStep(q)
  PROVE  SelectOf(r)'
<1> USE Dies DEF memory, disk, locks, compactor, history
<1>0. TypeOK BY DEF IInv
<1>t. stale[r] \in {"no", "yes"} BY <1>0 DEF TypeOK
<1>1. /\ UNCHANGED <<memtable, tmp, tmpc, part, held, acked>>
      /\ rpc'[r] = rpc[r] /\ rkey'[r] = rkey[r] /\ rset'[r] = rset[r]
      /\ rnames'[r] = rnames[r] /\ want'[r] = want[r] /\ stale'[r] = stale[r]
  BY <1>0 DEF SelectStep, StartSelect, LockPartToRead, ReadPartition, ListTmpsToRead, ReadTmp,
              UnlockPartRead, ReadMemtable, Answer, GotoR, TypeOK
<1> QED BY <1>0, <1>1, SelectFrame DEF Untouched

(* A select goes on: what it reads next and what it has collected are all it
   should find. *)
LEMMA RunSelect ==
  ASSUME IInv, PlacedInv, NEW r \in Readers, SelectOf(r), Up, Up', SelectStep(r)
  PROVE  SelectOf(r)'
<1> USE Dies DEF memory, disk, locks, compactor, history
<1>0. TypeOK BY DEF IInv
<1>s. \A S : Shadow(S)' = Shadow(S') BY DEF Shadow
<1>1. ASSUME NEW k \in Keys, StartSelect(r, k) PROVE SelectOf(r)'
  <2>1. /\ rpc'[r] = "part" /\ rkey'[r] = k /\ want'[r] = Of(acked, k) /\ acked' = acked
    BY <1>0, <1>1 DEF StartSelect, GotoR, TypeOK
  <2> QED BY <2>1 DEF SelectOf, Of
<1>2. CASE LockPartToRead(r)
  <2>1. /\ rpc'[r] = "read" /\ rpc[r] = "part" /\ rkey' = rkey /\ want' = want /\ acked' = acked
    BY <1>0, <1>2 DEF LockPartToRead, GotoR, TypeOK
  <2> QED BY <2>1 DEF SelectOf, Of
<1>3. CASE ReadPartition(r)
  <2>1. /\ rpc'[r] = "names" /\ rpc[r] = "read" /\ rkey' = rkey /\ want' = want /\ acked' = acked
        /\ UNCHANGED <<memtable, tmp, tmpc, part, held>>
        /\ rset'[r] = Of(part[PartOf(rkey[r])], rkey[r])
        /\ stale'[r] = "no" => ~(held # {} /\ cpc \in {"rename", "read", "lock"})
    BY <1>0, <1>3 DEF ReadPartition, GotoR, TypeOK
  <2>2. stale'[r] = "no" => AllOf(tmpc, held) \subseteq Shadow(InPartitions)
    BY <2>1, ReadsAll
  <2>3. /\ AllOf(tmpc, held)' = AllOf(tmpc, held)
        /\ Shadow(InPartitions)' = Shadow(InPartitions)
        /\ Of(part[PartOf(rkey[r])], rkey[r])' = Of(part[PartOf(rkey[r])], rkey[r])
        /\ Of(acked, rkey[r])' = Of(acked, rkey[r])
    BY <2>1 DEF AllOf, Shadow, InPartitions, Of, PartOf
  <2> QED BY <2>1, <2>2, <2>3 DEF SelectOf
<1>4. CASE ListTmpsToRead(r)
  <2>1. /\ rpc'[r] = "files" /\ rpc[r] = "names" /\ rkey' = rkey /\ want' = want /\ acked' = acked
        /\ UNCHANGED <<memtable, tmp, rset, stale>>
        /\ rnames'[r] = Present(tmp)
    BY <1>0, <1>4 DEF ListTmpsToRead, GotoR, TypeOK
  <2>2. stale'[r] = "no" =>
          want'[r] \subseteq Shadow(memtable' \cup AllOf(tmp', rnames'[r]) \cup rset'[r])
    BY <2>1, ListsAll
  <2>3. Shadow(memtable \cup AllOf(tmp, rnames[r]) \cup rset[r])'
          = Shadow(memtable' \cup AllOf(tmp', rnames'[r]) \cup rset'[r])
    BY DEF Shadow, AllOf
  <2>4. Of(acked, rkey[r])' = Of(acked, rkey[r]) BY <2>1 DEF Of
  <2> QED BY <2>1, <2>2, <2>3, <2>4 DEF SelectOf
<1>5. ASSUME NEW n \in TmpNos, ReadTmp(r, n) PROVE SelectOf(r)'
  <2>1. /\ rpc'[r] = "files" /\ rpc[r] = "files" /\ rkey' = rkey /\ want' = want /\ acked' = acked
        /\ UNCHANGED <<memtable, tmp, stale>>
        /\ tmp[n].st = "ready"
        /\ rset'[r] = rset[r] \cup Of(tmp[n].data, rkey[r])
        /\ rnames'[r] = rnames[r] \ {n}
    BY <1>0, <1>5 DEF ReadTmp, TypeOK
  <2>2. Doomed(r) => Doomed(r)' BY <2>1 DEF Doomed
  <2>3. ASSUME stale[r] = "no", ~Doomed(r)
        PROVE  want'[r] \subseteq Shadow(memtable' \cup AllOf(tmp', rnames'[r]) \cup rset'[r])
    <3> SUFFICES ASSUME NEW e \in want[r]
                 PROVE  e \in Shadow(memtable' \cup AllOf(tmp', rnames'[r]) \cup rset'[r])
      BY <2>1
    <3>1. e \in Shadow(memtable \cup AllOf(tmp, rnames[r]) \cup rset[r]) /\ e \in Of(acked, rkey[r])
      BY <2>1, <2>3 DEF SelectOf
    <3>2. PICK x \in memtable \cup AllOf(tmp, rnames[r]) \cup rset[r] : x.key = e.key /\ e.ts <= x.ts
      BY <3>1 DEF Shadow
    <3>3. e.key = rkey[r] /\ e \in Entries BY <3>1 DEF Of, Shadow
    <3>4. x \in memtable' \cup AllOf(tmp', rnames'[r]) \cup rset'[r]
      BY <2>1, <3>2, <3>3 DEF AllOf, Of
    <3> QED BY <3>2, <3>3, <3>4 DEF Shadow
  <2>4. Shadow(memtable \cup AllOf(tmp, rnames[r]) \cup rset[r])'
          = Shadow(memtable' \cup AllOf(tmp', rnames'[r]) \cup rset'[r])
    BY DEF Shadow, AllOf
  <2>5. Of(acked, rkey[r])' = Of(acked, rkey[r]) BY <2>1 DEF Of
  <2> QED BY <2>1, <2>2, <2>3, <2>4, <2>5 DEF SelectOf
<1>6. CASE UnlockPartRead(r)
  <2>1. /\ rpc'[r] = "memtable" /\ rpc[r] = "files" /\ rnames[r] = {}
        /\ rkey' = rkey /\ want' = want /\ acked' = acked
        /\ UNCHANGED <<memtable, rset, stale>>
    BY <1>0, <1>6 DEF UnlockPartRead, GotoR, TypeOK
  <2>2. ~Doomed(r) /\ AllOf(tmp, rnames[r]) = {} BY <2>1 DEF Doomed, AllOf
  <2>3. stale[r] = "no" => want[r] \subseteq Shadow(memtable \cup rset[r])
    BY <2>1, <2>2 DEF SelectOf
  <2>4. Shadow(memtable \cup rset[r])' = Shadow(memtable \cup rset[r]) BY <2>1 DEF Shadow
  <2>5. Of(acked, rkey[r])' = Of(acked, rkey[r]) BY <2>1 DEF Of
  <2> QED BY <2>1, <2>3, <2>4, <2>5 DEF SelectOf
<1>7. CASE ReadMemtable(r)
  <2>1. /\ rpc'[r] = "done" /\ rpc[r] = "memtable"
        /\ rkey' = rkey /\ want' = want /\ acked' = acked /\ stale' = stale
        /\ rset'[r] = rset[r] \cup Of(memtable, rkey[r])
    BY <1>0, <1>7 DEF ReadMemtable, GotoR, TypeOK
  <2>2. ASSUME stale[r] = "no", NEW e \in want[r] PROVE e \in Shadow(rset'[r])
    <3>1. e \in Shadow(memtable \cup rset[r]) /\ e \in Of(acked, rkey[r])
      BY <2>1, <2>2 DEF SelectOf
    <3>2. PICK x \in memtable \cup rset[r] : x.key = e.key /\ e.ts <= x.ts BY <3>1 DEF Shadow
    <3>3. x \in rset'[r] /\ e \in Entries BY <2>1, <3>1, <3>2 DEF Of, Shadow
    <3> QED BY <3>2, <3>3 DEF Shadow
  <2>3. Shadow(rset[r])' = Shadow(rset'[r]) BY DEF Shadow
  <2>4. Of(acked, rkey[r])' = Of(acked, rkey[r]) BY <2>1 DEF Of
  <2> QED BY <2>1, <2>2, <2>3, <2>4 DEF SelectOf
<1>8. CASE Answer(r)
  <2>1. rpc'[r] = "idle" BY <1>0, <1>8 DEF Answer, GotoR, TypeOK
  <2> QED BY <2>1 DEF SelectOf
<1> QED BY <1>1, <1>2, <1>3, <1>4, <1>5, <1>6, <1>7, <1>8 DEF SelectStep

(* com_saveInPartition puts a record of a key in the partition of the key; no
   other step writes to a partition. *)
LEMMA RunPlaced == ASSUME TypeOK, PlacedInv, RunStep, Up, Up' PROVE PlacedInv'
<1> USE Dies DEF memory, disk, locks, compactor, selects, history
<1>1. CASE part' = part BY <1>1 DEF PlacedInv, PartOf
<1>2. ASSUME NEW k \in Keys, SaveKey(k) PROVE PlacedInv'
  <2>1. PICK e \in Newest(Of(batch, k)) : part' = [part EXCEPT ![PartOf(k)] = @ \cup {e}]
    BY <1>2 DEF SaveKey
  <2>2. e.key = k BY <2>1 DEF Newest, Of
  <2>3. \A i \in 0 .. Parts - 1 : \A x \in part'[i] : x \in part[i] \/ (i = PartOf(k) /\ x = e)
    BY <2>1 DEF TypeOK
  <2>4. \A i \in 0 .. Parts - 1 : \A x \in part'[i] : PartOf(x.key) = i
    BY <2>2, <2>3 DEF PlacedInv
  <2> QED BY <2>4 DEF PlacedInv, PartOf
<1>3. part' = part \/ \E k \in Keys : SaveKey(k)
  <2>1. ASSUME NEW e \in Entries, Insert(e) PROVE part' = part BY <2>1 DEF Insert
  <2>2. ASSUME NEW d \in Dumpers, DumpStep(d) PROVE part' = part
    BY <2>2 DEF DumpStep, StartDump, LockPartToDump, CreateTmp, WriteHeader, SaveDump, CleanMemtable
  <2>3. CASE SkipDump BY <2>3 DEF SkipDump
  <2>4. CASE CompactStep
    BY <2>4 DEF CompactStep, ListTmps, Rename, ReadTmpc, LockPartToSave, UnlockPartSaved,
                DeleteTmpc, EndCompaction
  <2>5. ASSUME NEW r \in Readers, SelectStep(r) PROVE part' = part
    BY <2>5 DEF SelectStep, StartSelect, LockPartToRead, ReadPartition, ListTmpsToRead, ReadTmp,
                UnlockPartRead, ReadMemtable, Answer
  <2> QED BY <2>1, <2>2, <2>3, <2>4, <2>5 DEF RunStep
<1> QED BY <1>1, <1>2, <1>3

(* Every step leaves a select that is not overtaken with all it should find. *)
LEMMA StepSelect ==
  ASSUME IInv, SelectInv, [Next]_vars
  PROVE  SelectInv'
<1>0. TypeOK /\ DownInv /\ PlacedInv BY DEF IInv, SelectInv
<1>1. CASE RunStep /\ Up /\ Up'
  <2>1. PlacedInv' BY <1>0, <1>1, RunPlaced
  <2>2. ASSUME NEW r \in Readers PROVE SelectOf(r)'
    <3>1. SelectOf(r) BY DEF SelectInv
    <3>2. ASSUME NEW q \in Readers, SelectStep(q) PROVE SelectOf(r)'
      <4>1. CASE q = r BY <1>0, <1>1, <3>1, <3>2, <4>1, RunSelect
      <4>2. CASE q # r BY <1>1, <3>1, <3>2, <4>2, RunOtherSelect
      <4> QED BY <4>1, <4>2
    <3> QED BY <1>1, <3>1, <3>2, RunBesideSelect DEF RunStep
  <2> QED BY <2>1, <2>2 DEF SelectInv
<1>2. CASE Stops
  <2>1. part' = part /\ rpc' = [r \in Readers |-> "idle"] BY <1>2 DEF Stops, StopAs, disk
  <2>2. PlacedInv' BY <1>0, <2>1 DEF PlacedInv, PartOf
  <2>3. \A r \in Readers : SelectOf(r)' BY <2>1 DEF SelectOf
  <2> QED BY <2>2, <2>3 DEF SelectInv
<1>3. CASE Restart
  <2>1. part' = part /\ rpc' = rpc /\ \A r \in Readers : rpc[r] = "idle"
    BY <1>0, <1>3 DEF Restart, disk, selects, DownInv
  <2>2. PlacedInv' BY <1>0, <2>1 DEF PlacedInv, PartOf
  <2>3. \A r \in Readers : SelectOf(r)' BY <2>1 DEF SelectOf
  <2> QED BY <2>2, <2>3 DEF SelectInv
<1>4. CASE UNCHANGED vars
  <2> USE <1>4 DEF vars, memory, disk, locks, compactor, selects, history
  <2>1. PlacedInv' BY <1>0 DEF PlacedInv, PartOf
  <2>2. ASSUME NEW r \in Readers PROVE SelectOf(r)'
    <3>1. SelectOf(r) BY DEF SelectInv
    <3>2. stale[r] \in {"no", "yes"} BY <1>0 DEF TypeOK
    <3> QED BY <1>0, <3>1, <3>2, SelectFrame DEF Untouched
  <2> QED BY <2>1, <2>2 DEF SelectInv
<1> QED BY <1>0, <1>1, <1>2, <1>3, <1>4, Steps

(* A select misses an acknowledged insert only when a dump or a compaction
   has moved records behind its back (SelectMissesOnlyWhenOvertaken): what it
   collects under MUTEX_TABLE_PART and then from the memtable accounts for
   every insert acknowledged when it began. *)
THEOREM SelectFinds == Spec => []SelectMissesOnlyWhenOvertaken
<1>1. Init => SelectInv
  BY DEF Init, Threads0, SelectInv, PlacedInv, SelectOf
<1>2. SelectInv => SelectMissesOnlyWhenOvertaken
  BY DEF SelectInv, SelectOf, SelectMissesOnlyWhenOvertaken
<1> QED BY <1>1, <1>2, StepSelect, Invariance, PTL DEF Spec

-----------------------------------------------------------------------------
(* The refinement of KVStore. *)
kvShadow == Shadow(IF Up THEN Stored ELSE OnDisk)

(* The two modules mean the same by Shadow. *)
LEMMA SameShadow == \A S : KV!Shadow(S) = Shadow(S)
BY DEF KV!Shadow, Shadow

(* A thread's step is a Put or a stutter of KVStore. *)
LEMMA RunRefines ==
  ASSUME StoredStep, Up, Up'
  PROVE  [KV!Next]_<<kvShadow, Up>>
<1>1. kvShadow = Shadow(Stored) /\ kvShadow' = Shadow(Stored)' BY DEF kvShadow, Shadow
<1>2. CASE Shadow(Stored)' = Shadow(Stored) BY <1>1, <1>2
<1>3. ASSUME NEW e \in Entries, Stored' = Stored \cup {e} PROVE KV!Next
  <2>1. Shadow(Stored)' = Shadow(Stored') BY DEF Shadow
  <2>2. kvShadow' = kvShadow \cup KV!Shadow({e}) BY <1>1, <1>3, <2>1, ShadowUnion, SameShadow
  <2>3. KV!Put(e) BY <2>2 DEF KV!Put, kvShadow
  <2> QED BY <2>3 DEF KV!Next
<1> QED BY <1>2, <1>3 DEF StoredStep

(* A stop is a Stop of KVStore. *)
LEMMA StopRefines ==
  ASSUME Stops, Up, ~Up'
  PROVE  KV!Next
<1>1. OnDisk' = OnDisk BY DEF Stops, StopAs, disk, OnDisk, InPartitions
<1>2. kvShadow' = Shadow(OnDisk) BY <1>1 DEF kvShadow, Shadow
<1>3. OnDisk \subseteq Stored BY DEF Stored, OnDisk
<1>4. kvShadow' \subseteq kvShadow BY <1>2, <1>3, ShadowMonotone DEF kvShadow
<1> QED BY <1>4 DEF KV!Next, KV!Stop, kvShadow

(* A start-up is a Start of KVStore. *)
LEMMA RestartRefines ==
  ASSUME ~Up, Up', OnDisk' = OnDisk, Stored' = OnDisk
  PROVE  KV!Next
<1>1. kvShadow' = kvShadow BY DEF kvShadow, Shadow
<1> QED BY <1>1 DEF KV!Next, KV!Start, kvShadow

(* To a client the table is a last-writer-wins store that loses inserts only when it stops. *)
THEOREM Refinement == Spec => ImplementsKVStore
<1>1. Init => KV!Init
  <2> SUFFICES ASSUME Init PROVE KV!Init OBVIOUS
  <2>1. Stored = {} /\ Up BY DEF Init, Threads0, Stored, OnDisk, AllOf, InPartitions, NoTmp, Up
  <2> QED BY <2>1 DEF KV!Init, Shadow
<1>2. ASSUME IInv, [Next]_vars PROVE [KV!Next]_<<kvShadow, Up>>
  <2>1. CASE UNCHANGED vars
    <3>1. UNCHANGED <<OnDisk, Stored, Up>>
      BY <2>1 DEF vars, memory, disk, compactor, history, OnDisk, Stored, InPartitions, Up
    <3> QED BY <3>1 DEF kvShadow, Shadow
  <2>2. CASE Next
    <3>1. DownInv BY <1>2 DEF IInv
    <3>2. CASE RunStep /\ Up /\ Up' BY <1>2, <3>2, Running, RunRefines
    <3>3. CASE Up /\ Stops BY <1>2, <3>3, Stopping, StopRefines
    <3>4. CASE Restart BY <1>2, <3>4, Restarting, RestartRefines
    <3> QED BY <2>2, <3>1, <3>2, <3>3, <3>4, Steps
  <2> QED BY <1>2, <2>1, <2>2
<1> QED BY <1>1, <1>2, Invariance, PTL DEF Spec, ImplementsKVStore, KV!Spec, kvShadow
=============================================================================
