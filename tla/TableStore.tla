----------------------------- MODULE TableStore -----------------------------
(***************************************************************************)
(* The storage of one table of the Lissandra file system, and the threads  *)
(* that share it: clients inserting and selecting, the dump thread, the    *)
(* dump made when the process exits, and the table's compactor.            *)
(*                                                                         *)
(* An insert goes to the memtable.  A dump writes the memtable to a new    *)
(* n.tmp file.  A compaction renames every n.tmp to n.tmpc, reads them,    *)
(* appends the newest record of each key to the partition of the key, and  *)
(* deletes the .tmpc files.  A select reads the partition and the .tmp     *)
(* files under MUTEX_TABLE_PART and then, with that mutex released, the    *)
(* memtable under MUTEX_MEMTABLE.                                          *)
(*                                                                         *)
(* An insert is [key, ts]: its value travels with it and is left out.      *)
(* Where its blocks come from is the matter of module Bitarray.            *)
(***************************************************************************)
EXTENDS Integers, FiniteSets

CONSTANTS
  Entries,      \* the inserts clients may make, each at most once per run
  Parts,        \* PARTITIONS of the table
  Readers,      \* threads executing a SELECT
  NoOne,        \* a mutex is free
  MaxTmp,       \* bound: largest dump number
  MaxRestarts   \* bound: times the process is started again

Keys == {e.key : e \in Entries}

Dumpers   == {"threadDump", "main"}   \* threadDump, and kill_FileSystem at exit
Compactor == "threadCompact"

ASSUME EntriesAssumption ==
  /\ \A e \in Entries : e = [key |-> e.key, ts |-> e.ts] /\ e.key \in Nat /\ e.ts \in Nat
ASSUME PartsAssumption   == Parts \in Nat \ {0}     \* fs_create refuses 0
ASSUME ThreadsAssumption ==
  /\ Readers \cap (Dumpers \cup {Compactor, NoOne}) = {}
  /\ NoOne \notin Dumpers \cup {Compactor}
ASSUME BoundsAssumption  == MaxTmp \in Nat /\ MaxRestarts \in Nat

TmpNos == 0 .. MaxTmp

VARIABLES
  memtable,  \* the inserts of this table in the memtable
  tmpNo,     \* number of the next dump
  tmp,       \* tmp[n]:  the file n.tmp
  tmpc,      \* tmpc[n]: the file n.tmpc
  part,      \* part[i]: the records of partition file i.bin
  memLock,   \* holder of MUTEX_MEMTABLE
  partLock,  \* holder of the table's MUTEX_TABLE_PART
  dpc,       \* dpc[d]: where dump d is
  cpc,       \* where the compactor is
  ctodo,     \* files it has still to rename, read or delete
  held,      \* the .tmpc files it renamed itself: the list tmpsC
  batch,     \* the records it has read from them: allInserts
  ckeys,     \* the keys it has still to save
  rpc,       \* rpc[r]: where select r is
  rkey,      \* its key
  rnames,    \* the .tmp files it has still to read
  rset,      \* the records of its key it has collected
  want,      \* history: the inserts acknowledged when it began
  stale,     \* history: a dump or compaction moved records behind its back
  acked,     \* history: the inserts this run has acknowledged or loaded
  promised,  \* history: acked when the dump made at exit was complete
  status,    \* "up", or how the process ended
  restarts   \* number of starts, for the bound

memory    == <<memtable, tmpNo>>
disk      == <<tmp, tmpc, part>>
locks     == <<memLock, partLock>>
compactor == <<cpc, ctodo, held, batch, ckeys>>
selects   == <<rpc, rkey, rnames, rset, want, stale>>
history   == <<acked, promised, status, restarts>>
vars      == <<memory, disk, locks, dpc, compactor, selects, history>>

\* A file with no byte yet has no BLOCKS line: reading it dereferences NULL.
NoTmp    == [st |-> "none",  data |-> {}]
EmptyTmp == [st |-> "empty", data |-> {}]
Tmp(S)   == [st |-> "ready", data |-> S]
TmpFile  == {NoTmp, EmptyTmp} \cup {Tmp(S) : S \in SUBSET Entries}

Present(files) == {n \in TmpNos : files[n].st # "none"}
AllOf(files, S) == {e \in Entries : \E n \in S : e \in files[n].data}
InPartitions    == {e \in Entries : \E i \in 0 .. Parts - 1 : e \in part[i]}

PartOf(key) == key % Parts
Of(S, key)  == {e \in S : e.key = key}
Newest(S)   == {e \in S : \A x \in S : x.ts <= e.ts}

\* What a start-up finds, and a select reads, on disk: .tmpc files are not part of it.
OnDisk == AllOf(tmp, TmpNos) \cup InPartitions

\* Everything that some thread can still make visible.
Stored == memtable \cup OnDisk \cup AllOf(tmpc, held)

TypeOK ==
  /\ memtable \subseteq Entries
  /\ tmpNo \in 0 .. MaxTmp + 1
  /\ tmp \in [TmpNos -> TmpFile]
  /\ tmpc \in [TmpNos -> TmpFile]
  /\ part \in [0 .. Parts - 1 -> SUBSET Entries]
  /\ memLock \in Dumpers \cup {NoOne}
  /\ partLock \in Dumpers \cup Readers \cup {Compactor, NoOne}
  /\ dpc \in [Dumpers -> {"idle", "part", "create", "header", "save", "clean", "exit"}]
  /\ cpc \in {"idle", "rename", "read", "lock", "save", "clean"}
  /\ ctodo \subseteq TmpNos
  /\ held \subseteq TmpNos
  /\ batch \subseteq Entries
  /\ ckeys \subseteq Keys
  /\ rpc \in [Readers -> {"idle", "part", "read", "names", "files", "memtable", "done"}]
  /\ rkey \in [Readers -> Nat]
  /\ rnames \in [Readers -> SUBSET TmpNos]
  /\ rset \in [Readers -> SUBSET Entries]
  /\ want \in [Readers -> SUBSET Entries]
  /\ stale \in [Readers -> {"no", "yes"}]
  /\ acked \subseteq Entries
  /\ promised \subseteq Entries
  /\ status \in {"up", "exited", "died"}
  /\ restarts \in Nat

Threads0 ==
  /\ memLock = NoOne
  /\ partLock = NoOne
  /\ dpc = [d \in Dumpers |-> "idle"]
  /\ cpc = "idle"
  /\ ctodo = {}
  /\ held = {}
  /\ batch = {}
  /\ ckeys = {}
  /\ rpc = [r \in Readers |-> "idle"]
  /\ rkey = [r \in Readers |-> 0]
  /\ rnames = [r \in Readers |-> {}]
  /\ rset = [r \in Readers |-> {}]
  /\ want = [r \in Readers |-> {}]
  /\ stale = [r \in Readers |-> "no"]

Init ==
  /\ memtable = {}
  /\ tmpNo = 0
  /\ tmp = [n \in TmpNos |-> NoTmp]
  /\ tmpc = [n \in TmpNos |-> NoTmp]
  /\ part = [i \in 0 .. Parts - 1 |-> {}]
  /\ Threads0
  /\ acked = {}
  /\ promised = {}
  /\ status = "up"
  /\ restarts = 0

Up == status = "up"

-----------------------------------------------------------------------------
(* The process ends.  Memory is gone; the files stay as they are.          *)

StopAs(how) ==
  /\ status' = how
  /\ memtable' = {}
  /\ tmpNo' = 0
  /\ memLock' = NoOne
  /\ partLock' = NoOne
  /\ dpc' = [d \in Dumpers |-> "idle"]
  /\ cpc' = "idle"
  /\ ctodo' = {}
  /\ held' = {}
  /\ batch' = {}
  /\ ckeys' = {}
  /\ rpc' = [r \in Readers |-> "idle"]
  /\ rkey' = [r \in Readers |-> 0]
  /\ rnames' = [r \in Readers |-> {}]
  /\ rset' = [r \in Readers |-> {}]
  /\ want' = [r \in Readers |-> {}]
  /\ stale' = [r \in Readers |-> "no"]
  /\ UNCHANGED <<disk, acked, promised, restarts>>

\* Killed, or out of power, at any moment.
Kill == Up /\ restarts < MaxRestarts /\ StopAs("died")

\* config_create of a file that is gone returns NULL, and a file without a
\* BLOCKS line has no list: the caller dereferences NULL and the process dies.
Segfault == StopAs("died")

\* The largest n with an n.tmp, plus one (fs_setActualTmps, incrementTmpNo):
\* n.tmpc files do not count.
IsNextTmpNo(n) ==
  /\ \A m \in Present(tmp) : m < n
  /\ n = 0 \/ n - 1 \in Present(tmp)

\* init_FileSystem: from here on the store answers for what it finds.
Restart ==
  /\ ~Up
  /\ restarts < MaxRestarts
  /\ restarts' = restarts + 1
  /\ status' = "up"
  /\ \E n \in 0 .. MaxTmp + 1 : IsNextTmpNo(n) /\ tmpNo' = n
  /\ acked' = OnDisk
  /\ promised' = {}
  /\ UNCHANGED <<memtable, disk, locks, dpc, compactor, selects>>

-----------------------------------------------------------------------------
(* qinsert: mt_insert under MUTEX_MEMTABLE, then the acknowledgement.  An  *)
(* insert that is refused (value too long, no such table) changes nothing. *)

Insert(e) ==
  /\ Up
  /\ e \notin acked
  /\ memLock = NoOne
  /\ memtable' = memtable \cup {e}
  /\ acked' = acked \cup {e}
  /\ UNCHANGED <<tmpNo, disk, locks, dpc, compactor, selects, promised, status, restarts>>

-----------------------------------------------------------------------------
(* dump and fs_toDump, run by threadDump and by kill_FileSystem.           *)

GotoD(d, label) == dpc' = [dpc EXCEPT ![d] = label]

\* Mutant: the dump does not take MUTEX_MEMTABLE.
StartDumpUnlocked(d) ==
  /\ Up
  /\ dpc[d] = "idle"
  /\ memtable # {}
  /\ tmpNo <= MaxTmp
  /\ GotoD(d, "part")
  /\ UNCHANGED <<memory, disk, locks, compactor, selects, history>>

\* The dump holds MUTEX_MEMTABLE from here to CleanMemtable.
StartDump(d) ==
  /\ Up
  /\ dpc[d] = "idle"
  /\ memLock = NoOne
  /\ memtable # {}
  /\ tmpNo <= MaxTmp
  /\ memLock' = d
  /\ GotoD(d, "part")
  /\ UNCHANGED <<memory, disk, partLock, compactor, selects, history>>

\* The dump at exit has nothing to do.
SkipDump ==
  /\ Up
  /\ dpc["main"] = "idle"
  /\ memLock = NoOne
  /\ memtable = {}
  /\ promised' = acked
  /\ GotoD("main", "exit")
  /\ UNCHANGED <<memory, disk, locks, compactor, selects, acked, status, restarts>>

LockPartToDump(d) ==
  /\ dpc[d] = "part"
  /\ partLock = NoOne
  /\ partLock' = d
  /\ GotoD(d, "create")
  /\ UNCHANGED <<memory, disk, memLock, compactor, selects, history>>

\* txt_open_for_append creates the file with nothing in it.
CreateTmp(d) ==
  /\ dpc[d] = "create"
  /\ tmp' = [tmp EXCEPT ![tmpNo] = EmptyTmp]
  /\ GotoD(d, "header")
  /\ UNCHANGED <<memory, tmpc, part, locks, compactor, selects, history>>

\* b_assignSizeAndBlock appends SIZE and BLOCKS; it creates the file again if
\* the compactor has renamed it meanwhile.
WriteHeader(d) ==
  /\ dpc[d] = "header"
  /\ tmp' = [tmp EXCEPT ![tmpNo] = Tmp({})]
  /\ GotoD(d, "save")
  /\ UNCHANGED <<memory, tmpc, part, locks, compactor, selects, history>>

\* b_saveData goes through the name of the file at every step, and dies with
\* it if the compactor renames it.
SaveDump(d) ==
  /\ dpc[d] = "save"
  /\ IF tmp[tmpNo].st = "none"
       THEN Segfault
       ELSE /\ tmp' = [tmp EXCEPT ![tmpNo] = Tmp(memtable)]
            /\ partLock' = NoOne
            /\ GotoD(d, "clean")
            /\ UNCHANGED <<memory, tmpc, part, memLock, compactor, selects, history>>

\* Readers that have listed the .tmp files and not read the memtable yet.
PastTheFiles(r) == rpc[r] \in {"files", "memtable"}

\* Mutant: the number grows with every table dumped, not with every dump.
CleanSkipsNumbers(d) ==
  /\ dpc[d] = "clean"
  /\ memtable' = {}
  /\ tmpNo' = tmpNo + 2
  /\ memLock' = NoOne
  /\ GotoD(d, IF d = "main" THEN "exit" ELSE "idle")
  /\ UNCHANGED <<disk, partLock, compactor, selects, history>>

\* mt_clean, tmpNo++ and the release of MUTEX_MEMTABLE.
CleanMemtable(d) ==
  /\ dpc[d] = "clean"
  /\ memtable' = {}
  /\ tmpNo' = tmpNo + 1
  /\ memLock' = NoOne
  /\ stale' = [r \in Readers |-> IF PastTheFiles(r) THEN "yes" ELSE stale[r]]
  /\ IF d = "main"
       THEN GotoD(d, "exit") /\ promised' = acked
       ELSE GotoD(d, "idle") /\ UNCHANGED promised
  /\ UNCHANGED <<disk, partLock, compactor, rpc, rkey, rnames, rset, want, acked, status, restarts>>

\* kill_FileSystem goes on and the process ends, whatever the others are doing.
Exit ==
  /\ dpc["main"] = "exit"
  /\ StopAs("exited")

-----------------------------------------------------------------------------
(* compact, run by the table's threadCompact every ctime milliseconds.     *)

\* getAllTmps takes no mutex: a file a dump is still writing is listed too.
ListTmps ==
  /\ Up
  /\ cpc = "idle"
  /\ Present(tmp) # {}
  /\ ctodo' = Present(tmp)
  /\ cpc' = "rename"
  /\ UNCHANGED <<memory, disk, locks, dpc, held, batch, ckeys, selects, history>>

\* com_changeTmpsExtension: one rename per file, over any n.tmpc there is.
Rename(n) ==
  /\ cpc = "rename"
  /\ n \in ctodo
  /\ tmpc' = [tmpc EXCEPT ![n] = tmp[n]]
  /\ tmp' = [tmp EXCEPT ![n] = NoTmp]
  /\ held' = held \cup {n}
  /\ stale' = [r \in Readers |-> IF rpc[r] = "names" THEN "yes" ELSE stale[r]]
  /\ IF ctodo = {n}
       THEN ctodo' = held' /\ cpc' = "read"
       ELSE ctodo' = ctodo \ {n} /\ UNCHANGED cpc
  /\ UNCHANGED <<memory, part, locks, dpc, batch, ckeys, rpc, rkey, rnames, rset, want, history>>

\* com_compactTmpsC: b_getListOfInserts of every renamed file, in no mutex.
ReadTmpc(n) ==
  /\ cpc = "read"
  /\ n \in ctodo
  /\ IF tmpc[n].st # "ready"
       THEN Segfault
       ELSE /\ batch' = batch \cup tmpc[n].data
            /\ ctodo' = ctodo \ {n}
            /\ cpc' = IF ctodo = {n} THEN "lock" ELSE "read"
            /\ UNCHANGED <<memory, disk, locks, dpc, held, ckeys, selects, history>>

\* Mutant: the partitions are written without MUTEX_TABLE_PART.
SaveUnlocked ==
  /\ cpc = "lock"
  /\ ckeys' = {e.key : e \in batch}
  /\ cpc' = "save"
  /\ UNCHANGED <<memory, disk, locks, dpc, ctodo, held, batch, selects, history>>

LockPartToSave ==
  /\ cpc = "lock"
  /\ partLock = NoOne
  /\ partLock' = Compactor
  /\ ckeys' = {e.key : e \in batch}
  /\ cpc' = "save"
  /\ UNCHANGED <<memory, disk, memLock, dpc, ctodo, held, batch, selects, history>>

\* Mutant: the sort is in ascending order.
SaveOldest(k) ==
  /\ cpc = "save"
  /\ k \in ckeys
  /\ \E e \in Of(batch, k) :
       /\ \A x \in Of(batch, k) : e.ts <= x.ts
       /\ part' = [part EXCEPT ![PartOf(k)] = @ \cup {e}]
  /\ ckeys' = ckeys \ {k}
  /\ UNCHANGED <<memory, tmp, tmpc, locks, dpc, cpc, ctodo, held, batch, selects, history>>

\* com_saveInPartition: of equally new records of a key the sort decides.
SaveKey(k) ==
  /\ cpc = "save"
  /\ k \in ckeys
  /\ \E e \in Newest(Of(batch, k)) : part' = [part EXCEPT ![PartOf(k)] = @ \cup {e}]
  /\ ckeys' = ckeys \ {k}
  /\ UNCHANGED <<memory, tmp, tmpc, locks, dpc, cpc, ctodo, held, batch, selects, history>>

\* Mutant: MUTEX_TABLE_PART is kept after the save.
SavedKeepsMutex ==
  /\ cpc = "save"
  /\ ckeys = {}
  /\ ctodo' = Present(tmpc)
  /\ cpc' = "clean"
  /\ UNCHANGED <<memory, disk, locks, dpc, held, batch, ckeys, selects, history>>

\* fs_cleanTmpsC then deletes every .tmpc of the directory, also those left by
\* a compaction that did not finish before the process last stopped.
UnlockPartSaved ==
  /\ cpc = "save"
  /\ ckeys = {}
  /\ partLock' = NoOne
  /\ ctodo' = Present(tmpc)
  /\ cpc' = "clean"
  /\ UNCHANGED <<memory, disk, memLock, dpc, held, batch, ckeys, selects, history>>

DeleteTmpc(n) ==
  /\ cpc = "clean"
  /\ n \in ctodo
  /\ IF tmpc[n].st = "empty"
       THEN Segfault
       ELSE /\ tmpc' = [tmpc EXCEPT ![n] = NoTmp]
            /\ ctodo' = ctodo \ {n}
            /\ UNCHANGED <<memory, tmp, part, locks, dpc, cpc, held, batch, ckeys, selects, history>>

EndCompaction ==
  /\ cpc = "clean"
  /\ ctodo = {}
  /\ cpc' = "idle"
  /\ held' = {}
  /\ batch' = {}
  /\ UNCHANGED <<memory, disk, locks, dpc, ctodo, ckeys, selects, history>>

-----------------------------------------------------------------------------
(* qselect: fs_getListOfInserts, then getValue over what was collected.    *)

GotoR(r, label) == rpc' = [rpc EXCEPT ![r] = label]

StartSelect(r, k) ==
  /\ Up
  /\ rpc[r] = "idle"
  /\ rkey' = [rkey EXCEPT ![r] = k]
  /\ want' = [want EXCEPT ![r] = Of(acked, k)]
  /\ rset' = [rset EXCEPT ![r] = {}]
  /\ stale' = [stale EXCEPT ![r] = "no"]
  /\ GotoR(r, "part")
  /\ UNCHANGED <<memory, disk, locks, dpc, compactor, rnames, history>>

LockPartToRead(r) ==
  /\ rpc[r] = "part"
  /\ partLock = NoOne
  /\ partLock' = r
  /\ GotoR(r, "read")
  /\ UNCHANGED <<memory, disk, memLock, dpc, compactor, rkey, rnames, rset, want, stale, history>>

\* The partition of the key.  A compaction between its first rename and its
\* save has records that are in no file a select reads.
ReadPartition(r) ==
  /\ rpc[r] = "read"
  /\ rset' = [rset EXCEPT ![r] = Of(part[PartOf(rkey[r])], rkey[r])]
  /\ stale' = [stale EXCEPT ![r] =
                 IF held # {} /\ cpc \in {"rename", "read", "lock"} THEN "yes" ELSE @]
  /\ GotoR(r, "names")
  /\ UNCHANGED <<memory, disk, locks, dpc, compactor, rkey, rnames, want, history>>

ListTmpsToRead(r) ==
  /\ rpc[r] = "names"
  /\ rnames' = [rnames EXCEPT ![r] = Present(tmp)]
  /\ GotoR(r, "files")
  /\ UNCHANGED <<memory, disk, locks, dpc, compactor, rkey, rset, want, stale, history>>

ReadTmp(r, n) ==
  /\ rpc[r] = "files"
  /\ n \in rnames[r]
  /\ IF tmp[n].st # "ready"
       THEN Segfault
       ELSE /\ rset' = [rset EXCEPT ![r] = @ \cup Of(tmp[n].data, rkey[r])]
            /\ rnames' = [rnames EXCEPT ![r] = @ \ {n}]
            /\ UNCHANGED <<memory, disk, locks, dpc, compactor, rpc, rkey, want, stale, history>>

UnlockPartRead(r) ==
  /\ rpc[r] = "files"
  /\ rnames[r] = {}
  /\ partLock' = NoOne
  /\ GotoR(r, "memtable")
  /\ UNCHANGED <<memory, disk, memLock, dpc, compactor, rkey, rnames, rset, want, stale, history>>

\* mt_getListofInserts.
ReadMemtable(r) ==
  /\ rpc[r] = "memtable"
  /\ memLock = NoOne
  /\ rset' = [rset EXCEPT ![r] = @ \cup Of(memtable, rkey[r])]
  /\ GotoR(r, "done")
  /\ UNCHANGED <<memory, disk, locks, dpc, compactor, rkey, rnames, want, stale, history>>

\* The thread ends, and its variables with it.
Answer(r) ==
  /\ rpc[r] = "done"
  /\ GotoR(r, "idle")
  /\ rkey' = [rkey EXCEPT ![r] = 0]
  /\ rset' = [rset EXCEPT ![r] = {}]
  /\ want' = [want EXCEPT ![r] = {}]
  /\ stale' = [stale EXCEPT ![r] = "no"]
  /\ UNCHANGED <<memory, disk, locks, dpc, compactor, rnames, history>>

-----------------------------------------------------------------------------
DumpStep(d) ==
  \/ StartDump(d) \/ LockPartToDump(d) \/ CreateTmp(d) \/ WriteHeader(d)
  \/ SaveDump(d) \/ CleanMemtable(d)

CompactStep ==
  \/ ListTmps
  \/ \E n \in TmpNos : Rename(n) \/ ReadTmpc(n) \/ DeleteTmpc(n)
  \/ LockPartToSave
  \/ \E k \in Keys : SaveKey(k)
  \/ UnlockPartSaved \/ EndCompaction

SelectStep(r) ==
  \/ \E k \in Keys : StartSelect(r, k)
  \/ LockPartToRead(r) \/ ReadPartition(r) \/ ListTmpsToRead(r)
  \/ \E n \in TmpNos : ReadTmp(r, n)
  \/ UnlockPartRead(r) \/ ReadMemtable(r) \/ Answer(r)

Next ==
  \/ \E e \in Entries : Insert(e)
  \/ \E d \in Dumpers : DumpStep(d)
  \/ SkipDump \/ Exit
  \/ CompactStep
  \/ \E r \in Readers : SelectStep(r)
  \/ Kill \/ Restart

\* threadDump and threadCompact loop for ever; a select that has begun ends.
\* Each sleeps between two rounds (dumpTime, ctime, the RETARDO of delayer), so
\* MUTEX_TABLE_PART is found free again and again and a waiter gets it.
Fairness ==
  /\ WF_vars(DumpStep("threadDump")) /\ WF_vars(CompactStep)
  /\ SF_vars(LockPartToDump("threadDump")) /\ SF_vars(LockPartToSave)
  /\ \A d \in Dumpers : WF_vars(dpc[d] # "idle" /\ DumpStep(d))
  /\ \A r \in Readers : WF_vars(rpc[r] # "idle" /\ SelectStep(r))

Spec == Init /\ [][Next]_vars /\ Fairness

-----------------------------------------------------------------------------
(* Properties.                                                             *)

\* What a set of inserts accounts for; the promise of KVStore.
Shadow(S) == {e \in Entries : \E x \in S : x.key = e.key /\ e.ts <= x.ts}
KV == INSTANCE KVStore WITH
        shadow <- Shadow(IF Up THEN Stored ELSE OnDisk),
        up     <- Up

\* While the process runs, whatever dump and compaction are doing and however
\* their renames, writes and deletes interleave, every acknowledged insert is
\* kept, or superseded by a newer one of its key that is.
NothingAckedIsLost == Up => acked \subseteq Shadow(Stored)

\* The .tmpc files are deleted only when the partitions account for them.
CompactionLosesNothing ==
  cpc = "clean" => AllOf(tmpc, held) \subseteq Shadow(InPartitions)

\* A select may miss an acknowledged insert only if, while it ran, the memtable
\* was cleaned after it listed the files, or a compaction held records in .tmpc
\* files, or renamed some after it read the partition.
SelectMissesOnlyWhenOvertaken ==
  \A r \in Readers : rpc[r] = "done" /\ stale[r] = "no" => want[r] \subseteq Shadow(rset[r])

\* To a client the table is a last-writer-wins store; only a stop loses inserts.
ImplementsKVStore == KV!Spec

\* Every acknowledged insert reaches its partition, or the process ends: dumps,
\* compactions and selects never wait on one another for ever.  (Or the bound
\* MaxTmp leaves no dump for it.)
ReachesThePartition ==
  \A e \in Entries :
    (Up /\ e \in acked) ~> (e \in Shadow(InPartitions) \/ ~Up \/ tmpNo > MaxTmp)

\* FileSystem.c:127: the dump at exit is there for safety; the next start should
\* find what had been acknowledged when it was complete.
SecurityDumpSavesAll == status = "exited" => promised \subseteq Shadow(OnDisk)
=============================================================================
