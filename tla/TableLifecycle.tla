--------------------------- MODULE TableLifecycle ---------------------------
(***************************************************************************)
(* The life of a table name in the Lissandra file system: CREATE and DROP, *)
(* and what runs beside them: the threads attending INSERT, SELECT and     *)
(* DESCRIBE, the dump, and a compactor per active table.                   *)
(*                                                                         *)
(* A table is a directory (its partition, Metadata.bin and the .tmp files) *)
(* and an entry in sysTables, whose MUTEX_DROP_TABLE a DROP and a          *)
(* compaction take.  Every thread first looks whether the table is there   *)
(* and then uses its files and its entry by name or by pointer: nothing    *)
(* keeps it from being dropped, or half created, in between.               *)
(*                                                                         *)
(* One name is modelled, and of the records only which creation of the     *)
(* table they were inserted into: the number of the CREATE.  An entry is   *)
(* known by the CREATE that allocated it, and so is its compactor; 0 is    *)
(* what a start-up allocates.  The contents of one table that nobody drops *)
(* are the matter of module TableStore.                                    *)
(***************************************************************************)
EXTENDS Naturals, Sequences, FiniteSets

CONSTANTS
  Clients,      \* threads attending a query
  NoOne,        \* a mutex is free
  MaxCreates,   \* bound: CREATEs that find no table
  MaxStarts     \* bound: times the process is started again

ASSUME BoundsAssumption  == MaxCreates \in Nat /\ MaxStarts \in Nat
ASSUME ClientsAssumption ==
  /\ NoOne \notin Clients \cup (0 .. MaxCreates)
  /\ Clients \cap (0 .. MaxCreates) = {}

Ids == 0 .. MaxCreates

VARIABLES
  dir,        \* the table's directory
  memtable,   \* the creations whose inserts are in the memtable
  sysTables,  \* the entries of this name, in the order of the list
  freed,      \* the entries deleteTableFromMemory has freed
  dropLock,   \* dropLock[i]: holder of MUTEX_DROP_TABLE of entry i
  client,     \* client[c]: what the thread is doing
  comp,       \* comp[i]: the compactor started with entry i
  dump,       \* threadDump
  gen,        \* number of the last CREATE
  status,     \* "up", or how the process ended
  starts,     \* number of starts, for the bound
  carried,    \* history: creations with inserts a DROP left in the memtable
  collided    \* history: two updates of the table overlapped, or the process
              \* ended in the middle of one

lists   == <<memtable, sysTables, freed, dropLock>>
threads == <<client, comp, dump>>
process == <<gen, status, starts>>
history == <<carried, collided>>
vars    == <<dir, lists, threads, process, history>>

\* raw: a file fopen has created, with no SIZE and BLOCKS lines yet.
NoDir == [made |-> FALSE, bin |-> "none", meta |-> "none", raw |-> FALSE,
          tmp |-> {}, tmpc |-> {}, part |-> {}]

\* ptr: its entry, or for an INSERT the table it found.  todo: the files it has to
\* unlink, or the records it has to save.  raced: a CREATE or DROP was in progress
\* since it looked for the table.
Idle == [pc |-> "idle", ptr |-> 0, todo |-> {}, raced |-> FALSE]

Exists == dir.bin # "none"     \* fs_tableExists: access() to 0.bin
Up     == status = "up"

DropPcs   == {"entry", "lock", "free", "unlink", "unlock", "forget"}
CreatePcs == {"mkdir", "parts", "metadata", "blocks", "load", "add"}
Updating(c) == client[c].pc \in DropPcs \cup CreatePcs
Disturbed   == collided \/ \E c \in Clients : Updating(c)

WholeDir == [made |-> TRUE, bin |-> "ready", meta |-> "full", raw |-> FALSE,
             tmp |-> {}, tmpc |-> {}, part |-> {0}]

Asleep == [pc |-> "asleep", ptr |-> 0, todo |-> {}, raced |-> FALSE]

\* The process has started, on a directory with the table or without it.
Init ==
  /\ dir \in {NoDir, WholeDir}
  /\ memtable = {}
  /\ sysTables = IF dir = WholeDir THEN <<0>> ELSE <<>>
  /\ freed = {}
  /\ dropLock = [i \in Ids |-> NoOne]
  /\ client = [c \in Clients |-> Idle]
  /\ comp = [i \in Ids |-> IF i = 0 /\ dir = WholeDir THEN Asleep ELSE Idle]
  /\ dump = Idle
  /\ gen = 0
  /\ status = "up"
  /\ starts = 0
  /\ carried = {}
  /\ collided = FALSE

-----------------------------------------------------------------------------
(* The process ends: killed, or by a NULL pointer.  What using a freed     *)
(* entry does is undefined; the process is taken to die of it.             *)

Ends(how) ==
  /\ status' = how
  /\ memtable' = {}
  /\ sysTables' = <<>>
  /\ freed' = {}
  /\ dropLock' = [i \in Ids |-> NoOne]
  /\ client' = [c \in Clients |-> Idle]
  /\ comp' = [i \in Ids |-> Idle]
  /\ dump' = Idle
  /\ collided' = Disturbed
  /\ UNCHANGED <<dir, gen, starts, carried>>

Dies(thread) == Ends(IF thread.raced THEN "raced" ELSE "died")

Kill == Up /\ Ends("killed")

\* Mutant: MUTEX_DROP_TABLE need not be free.
LockEntryUnlocked(thread, holder, Then) ==
  IF thread.ptr \in freed THEN Dies(thread)
  ELSE /\ dropLock' = [dropLock EXCEPT ![thread.ptr] = holder]
       /\ Then

\* pthread_mutex_lock(&table->MUTEX_DROP_TABLE).
LockEntry(thread, holder, Then) ==
  IF thread.ptr \in freed THEN Dies(thread)
  ELSE /\ dropLock[thread.ptr] = NoOne
       /\ dropLock' = [dropLock EXCEPT ![thread.ptr] = holder]
       /\ Then

\* init_FileSystem: fs_setActiveTables reads the Metadata.bin of every directory,
\* and a compactor is started for each table.
Start ==
  /\ status \in {"killed", "raced", "unfinished", "renamed"}
  /\ starts < MaxStarts
  /\ starts' = starts + 1
  /\ IF dir.made /\ dir.meta # "full"
       THEN /\ status' = IF collided \/ carried # {} THEN "raced" ELSE "died"
            /\ UNCHANGED <<sysTables, comp>>
       ELSE /\ status' = "up"
            /\ sysTables' = IF dir.made THEN <<0>> ELSE <<>>
            /\ comp' = IF dir.made
                       THEN [comp EXCEPT ![0] = Asleep] ELSE comp
  /\ UNCHANGED <<dir, memtable, freed, dropLock, client, dump, gen, history>>

-----------------------------------------------------------------------------
(* Clients.  A query arrives, waits the RETARDO of delayer, and looks for  *)
(* the table.  One that does not find it as it needs it, or has an invalid *)
(* argument, is refused and changes nothing: there is no step for it.      *)
(* Bound: once updates have overlapped, what is under way goes on, and so  *)
(* do the compactors, but no query and no dump begins; nor do they in a    *)
(* process started again, which has what one of Init may find, or less.    *)

Calm     == Up /\ ~collided /\ starts = 0
Ready(c) == Calm /\ client[c].pc = "idle"

Goto(c, label) == client' = [client EXCEPT ![c].pc = label]
Done(c)        == client' = [client EXCEPT ![c] = Idle]

\* What a thread that is now looking for the table becomes.
Looking(label, ptr) == [pc |-> label, ptr |-> ptr, todo |-> {}, raced |-> Disturbed]

NotLooked == {"idle", "asleep"}
Overtaken(t) == [t EXCEPT !.raced = @ \/ t.pc \notin NotLooked]

\* A CREATE or DROP begins: whoever is at work runs into it.
BeginUpdate(c, label, ptr) ==
  /\ client' = [x \in Clients |->
                  IF x = c THEN Looking(label, ptr) ELSE Overtaken(client[x])]
  /\ comp' = [i \in Ids |-> Overtaken(comp[i])]
  /\ dump' = Overtaken(dump)
  /\ collided' = Disturbed

\* A query that found the table goes on.
Found(c, label) ==
  /\ Ready(c)
  /\ Exists
  /\ client' = [client EXCEPT ![c] = Looking(label, gen)]
  /\ UNCHANGED <<dir, lists, comp, dump, process, history>>

\* com_getActiveTable, getActiveTable: the first entry of the name.
FindEntry(t, Then(_)) == IF sysTables = <<>> THEN Dies(t) ELSE Then(Head(sysTables))

-----------------------------------------------------------------------------
(* qcreate and fs_create: the files one by one, then the list of tables.   *)

\* Steps that change only the directory and the program counter of c.
OnDirectory(c, newDir, label) ==
  /\ dir' = newDir
  /\ Goto(c, label)
  /\ UNCHANGED <<lists, comp, dump, process, history>>

BeginCreate(c) ==
  /\ Ready(c)
  /\ ~Exists
  /\ gen < MaxCreates
  /\ gen' = gen + 1
  /\ BeginUpdate(c, "mkdir", gen + 1)
  /\ UNCHANGED <<dir, lists, status, starts, carried>>

\* mkdir fails, unnoticed, when the directory is there.
MakeDirectories(c) ==
  /\ client[c].pc = "mkdir"
  /\ OnDirectory(c, [dir EXCEPT !.made = TRUE], "parts")

\* fopen with "w+" empties the partition there was.  Without the directory it
\* returns NULL, and fclose is called with it.
MakeFiles(c) ==
  /\ client[c].pc = "parts"
  /\ IF dir.made
     THEN OnDirectory(c, [dir EXCEPT !.bin = "raw", !.part = {}], "metadata")
     ELSE Dies(client[c])

MakeMetadataFile(c) ==
  /\ client[c].pc = "metadata"
  /\ IF dir.made
     THEN OnDirectory(c, [dir EXCEPT !.meta = "empty"], "blocks")
     ELSE Dies(client[c])

LoadPartitionsFiles(c) ==
  /\ client[c].pc = "blocks"
  /\ IF dir.made
     THEN OnDirectory(c, [dir EXCEPT !.bin = "ready"], "load")
     ELSE Dies(client[c])

LoadMetadata(c) ==
  /\ client[c].pc = "load"
  /\ IF dir.made
     THEN OnDirectory(c, [dir EXCEPT !.meta = "full"], "add")
     ELSE Dies(client[c])

\* addToActiveTables, and the compactor's thread.
AddToActiveTables(c) ==
  /\ client[c].pc = "add"
  /\ sysTables' = Append(sysTables, client[c].ptr)
  /\ comp' = [comp EXCEPT ![client[c].ptr] = Asleep]
  /\ Done(c)
  /\ UNCHANGED <<dir, memtable, freed, dropLock, dump, process, history>>

-----------------------------------------------------------------------------
(* qdrop.                                                                  *)

BeginDrop(c) ==
  /\ Ready(c)
  /\ Exists
  /\ BeginUpdate(c, "entry", 0)
  /\ UNCHANGED <<dir, lists, process, carried>>

EntryToDrop(c) ==
  /\ client[c].pc = "entry"
  /\ FindEntry(client[c], LAMBDA i :
       /\ client' = [client EXCEPT ![c].pc = "lock", ![c].ptr = i]
       /\ UNCHANGED <<dir, lists, comp, dump, process, history>>)

LockToDrop(c) ==
  /\ client[c].pc = "lock"
  /\ LockEntry(client[c], c,
       /\ Goto(c, "free")
       /\ UNCHANGED <<dir, memtable, sysTables, freed, comp, dump, process, history>>)

Files == {"bin", "meta"}
There == {f \in Files : dir[f] # "none"}

\* Mutant: the blocks are freed and the partition files left where they are.
FreeBlocksOfTmps(c) ==
  /\ client[c].pc = "free"
  /\ IF dir.raw THEN Ends("unfinished")
     ELSE IF ~dir.made \/ dir.bin = "raw" THEN Dies(client[c])
     ELSE /\ dir' = [dir EXCEPT !.tmpc = {}, !.part = {}]
          /\ carried' = carried \cup memtable
          /\ client' = [client EXCEPT ![c].pc = "unlink", ![c].todo = There]
          /\ UNCHANGED <<lists, comp, dump, process, collided>>

\* freeBlocks: every file's blocks are emptied and freed.  A file without BLOCKS
\* line, or no directory to open, is a NULL pointer.  The names that the first
\* readdir of the next loop reads are the files there are at its end.
FreeBlocks(c) ==
  /\ client[c].pc = "free"
  /\ IF dir.raw THEN Ends("unfinished")
     ELSE IF ~dir.made \/ dir.bin = "raw" THEN Dies(client[c])
     ELSE /\ dir' = [dir EXCEPT !.tmp = {}, !.tmpc = {}, !.part = {}]
          /\ carried' = carried \cup memtable
          /\ client' = [client EXCEPT ![c].pc = "unlink", ![c].todo = There]
          /\ UNCHANGED <<lists, comp, dump, process, collided>>

Without(f) ==
  IF f = "bin" THEN [dir EXCEPT !.bin = "none", !.part = {}] ELSE [dir EXCEPT !.meta = "none"]

\* deleteDirectoriesAndFiles, in the order readdir returns the names.
Unlink(c) ==
  /\ client[c].pc = "unlink"
  /\ \E f \in client[c].todo :
       /\ dir' = Without(f)
       /\ client' = [client EXCEPT ![c].todo = @ \ {f}]
  /\ UNCHANGED <<lists, comp, dump, process, history>>

\* rmdir fails, unnoticed, when a file has appeared.
RemoveDirectory(c) ==
  /\ client[c].pc = "unlink"
  /\ client[c].todo = {}
  /\ OnDirectory(c, [dir EXCEPT !.made = There # {} \/ dir.raw \/ dir.tmp \cup dir.tmpc # {}],
                 "unlock")

UnlockDropped(c) ==
  /\ client[c].pc = "unlock"
  /\ IF client[c].ptr \in freed THEN Dies(client[c])
     ELSE /\ dropLock' = [dropLock EXCEPT ![client[c].ptr] = NoOne]
          /\ Goto(c, "forget")
          /\ UNCHANGED <<dir, memtable, sysTables, freed, comp, dump, process, history>>

\* Mutant: the entry stays in sysTables.
ForgetNothing(c) ==
  /\ client[c].pc = "forget"
  /\ Done(c)
  /\ UNCHANGED <<dir, lists, comp, dump, process, history>>

\* Mutant: the entry is freed and stays in the list.
FreeWithoutRemoving(c) ==
  /\ client[c].pc = "forget"
  /\ freed' = freed \cup {sysTables[i] : i \in DOMAIN sysTables}
  /\ Done(c)
  /\ UNCHANGED <<dir, memtable, sysTables, dropLock, comp, dump, process, history>>

\* deleteTableFromMemory: the first entry of the name goes, and is freed.
DeleteTableFromMemory(c) ==
  /\ client[c].pc = "forget"
  /\ IF sysTables = <<>> THEN UNCHANGED <<sysTables, freed>>
     ELSE /\ sysTables' = Tail(sysTables)
          /\ freed' = freed \cup {Head(sysTables)}
  /\ Done(c)
  /\ UNCHANGED <<dir, memtable, dropLock, comp, dump, process, history>>

-----------------------------------------------------------------------------
(* qinsert, qselect and qdescribe.                                         *)

LookToInsert(c)   == Found(c, "put")
LookToSelect(c)   == Found(c, "getMetadata")
LookToDescribe(c) == Found(c, "describing")

\* Under MUTEX_MEMTABLE, which a dump holds from its beginning to its end.
PutInMemtable(c) ==
  /\ client[c].pc = "put"
  /\ dump.pc = "idle"
  /\ memtable' = memtable \cup {client[c].ptr}
  /\ carried' = IF client[c].raced THEN carried \cup {client[c].ptr} ELSE carried
  /\ Done(c)
  /\ UNCHANGED <<dir, sysTables, freed, dropLock, comp, dump, process, collided>>

\* fs_getListOfInserts reads PARTS without a look at what config_create returned.
ReadMetadata(c) ==
  /\ client[c].pc = "getMetadata"
  /\ IF dir.meta # "full" THEN Dies(client[c])
     ELSE /\ Goto(c, "getTable")
          /\ UNCHANGED <<dir, lists, comp, dump, process, history>>

EntryToRead(c) ==
  /\ client[c].pc = "getTable"
  /\ FindEntry(client[c], LAMBDA i :
       /\ client' = [client EXCEPT ![c].pc = "reading", ![c].ptr = i]
       /\ UNCHANGED <<dir, lists, comp, dump, process, history>>)

\* MUTEX_TABLE_PART of entry i is free: nobody writes a dump or reads the files.
PartFree(i) ==
  /\ dump.pc = "save" => dump.ptr # i
  /\ \A c \in Clients : client[c].pc = "readTmps" => client[c].ptr # i

\* The partition is read and the directory listed.
ListTmps(c) ==
  /\ client[c].pc = "reading"
  /\ PartFree(client[c].ptr)
  /\ IF dir.raw THEN Ends("unfinished")
     ELSE IF client[c].ptr \in freed \/ dir.bin # "ready" THEN Dies(client[c])
     ELSE /\ client' = [client EXCEPT
                         ![c] = IF dir.tmp = {} THEN Idle ELSE [@ EXCEPT !.pc = "readTmps"]]
          /\ UNCHANGED <<dir, lists, comp, dump, process, history>>

\* The .tmp files of the list, with the mutex still held.  A compactor renames them
\* without it, and reading one that has been renamed is a NULL pointer.
ReadTmpFiles(c) ==
  /\ client[c].pc = "readTmps"
  /\ IF client[c].ptr \in freed THEN Dies(client[c])
     ELSE IF dir.tmp = {} THEN Ends(IF client[c].raced THEN "raced" ELSE "renamed")
     ELSE /\ Done(c)
          /\ UNCHANGED <<dir, lists, comp, dump, process, history>>

\* A missing Metadata.bin is an error, one still empty a NULL pointer.
GetTableMetadata(c) ==
  /\ client[c].pc = "describing"
  /\ IF dir.meta = "empty" THEN Dies(client[c])
     ELSE /\ Done(c)
          /\ UNCHANGED <<dir, lists, comp, dump, process, history>>

-----------------------------------------------------------------------------
(* threadDump: dump and fs_toDump.                                         *)

DumpDoes(newDir, label) ==
  /\ dir' = newDir
  /\ dump' = [dump EXCEPT !.pc = label]
  /\ UNCHANGED <<lists, client, comp, process, history>>

StartDump ==
  /\ Calm
  /\ dump.pc = "idle"
  /\ memtable # {}
  /\ dump' = [Looking("entry", 0) EXCEPT !.raced = @ \/ memtable \cap carried # {}]
  /\ UNCHANGED <<dir, lists, client, comp, process, history>>

EntryToDump ==
  /\ dump.pc = "entry"
  /\ FindEntry(dump, LAMBDA i :
       /\ dump' = [dump EXCEPT !.pc = "open", !.ptr = i]
       /\ UNCHANGED <<dir, lists, client, comp, process, history>>)

\* The new .tmp file.  Without the directory fopen returns NULL.
OpenTmp ==
  /\ dump.pc = "open"
  /\ PartFree(dump.ptr)
  /\ IF dump.ptr \in freed \/ ~dir.made THEN Dies(dump)
     ELSE DumpDoes([dir EXCEPT !.raw = TRUE], "save")

SaveTmp ==
  /\ dump.pc = "save"
  /\ IF ~dir.made THEN Dies(dump)
     ELSE DumpDoes([dir EXCEPT !.raw = FALSE, !.tmp = @ \cup memtable], "clean")

CleanMemtable ==
  /\ dump.pc = "clean"
  /\ memtable' = {}
  /\ dump' = Idle
  /\ UNCHANGED <<dir, sysTables, freed, dropLock, client, comp, process, history>>

-----------------------------------------------------------------------------
(* threadCompact.                                                          *)

CompDoes(i, thread) ==
  /\ comp' = [comp EXCEPT ![i] = thread]
  /\ UNCHANGED <<lists, client, dump, process, history>>

\* ctime has gone by: tableIsActive.  The thread ends with the table.
Wake(i) ==
  /\ comp[i].pc = "asleep"
  /\ CompDoes(i, IF sysTables = <<>> THEN Idle ELSE Looking("entry", 0))
  /\ UNCHANGED dir

EntryToCompact(i) ==
  /\ comp[i].pc = "entry"
  /\ FindEntry(comp[i], LAMBDA e :
       /\ CompDoes(i, [comp[i] EXCEPT !.pc = "lock", !.ptr = e])
       /\ UNCHANGED dir)

LockToCompact(i) ==
  /\ comp[i].pc = "lock"
  /\ LockEntry(comp[i], i,
       /\ comp' = [comp EXCEPT ![i].pc = "getCTime"]
       /\ UNCHANGED <<dir, memtable, sysTables, freed, client, dump, process, history>>)

\* com_getCTime does not look at what config_create returned either.
GetCTime(i) ==
  /\ comp[i].pc = "getCTime"
  /\ IF comp[i].ptr \in freed \/ dir.meta # "full" THEN Dies(comp[i])
     ELSE /\ CompDoes(i, [comp[i] EXCEPT !.pc = "compact"])
          /\ UNCHANGED dir

\* The .tmp files are renamed and read.  (Renaming one that a dump has just
\* created kills the process: TableStore has that race.)
ReadTmps(i) ==
  /\ comp[i].pc = "compact"
  /\ IF dir.raw THEN Ends("unfinished")
     ELSE IF comp[i].ptr \in freed \/ ~dir.made THEN Dies(comp[i])
     ELSE /\ dir' = [dir EXCEPT !.tmp = {}, !.tmpc = @ \cup dir.tmp]
          /\ CompDoes(i, [comp[i] EXCEPT !.pc = IF dir.tmp = {} THEN "unlock" ELSE "save",
                                         !.todo = dir.tmp])

\* Into the partition, under MUTEX_TABLE_PART, and the .tmpc files are deleted.
SaveInPartition(i) ==
  /\ comp[i].pc = "save"
  /\ PartFree(comp[i].ptr)
  /\ IF comp[i].ptr \in freed \/ dir.bin # "ready" THEN Dies(comp[i])
     ELSE /\ dir' = [dir EXCEPT !.part = @ \cup comp[i].todo, !.tmpc = {}]
          /\ CompDoes(i, [comp[i] EXCEPT !.pc = "unlock", !.todo = {}])

UnlockCompacted(i) ==
  /\ comp[i].pc = "unlock"
  /\ IF comp[i].ptr \in freed THEN Dies(comp[i])
     ELSE /\ dropLock' = [dropLock EXCEPT ![comp[i].ptr] = NoOne]
          /\ comp' = [comp EXCEPT ![i] = Asleep]
          /\ UNCHANGED <<dir, memtable, sysTables, freed, client, dump, process, history>>

-----------------------------------------------------------------------------
Query(c) ==
  BeginCreate(c) \/ BeginDrop(c) \/ LookToInsert(c) \/ LookToSelect(c) \/ LookToDescribe(c)

CreateStep(c) ==
  \/ MakeDirectories(c) \/ MakeFiles(c) \/ MakeMetadataFile(c)
  \/ LoadPartitionsFiles(c) \/ LoadMetadata(c) \/ AddToActiveTables(c)

DropStep(c) ==
  \/ EntryToDrop(c) \/ LockToDrop(c) \/ FreeBlocks(c) \/ Unlink(c)
  \/ RemoveDirectory(c) \/ UnlockDropped(c) \/ DeleteTableFromMemory(c)

AccessStep(c) ==
  \/ PutInMemtable(c) \/ ReadMetadata(c) \/ EntryToRead(c) \/ ListTmps(c) \/ ReadTmpFiles(c)
  \/ GetTableMetadata(c)

ClientStep(c) == CreateStep(c) \/ DropStep(c) \/ AccessStep(c)

DumpStep == StartDump \/ EntryToDump \/ OpenTmp \/ SaveTmp \/ CleanMemtable

CompactStep(i) ==
  \/ Wake(i) \/ EntryToCompact(i) \/ LockToCompact(i) \/ GetCTime(i) \/ ReadTmps(i)
  \/ SaveInPartition(i) \/ UnlockCompacted(i)

Next ==
  \/ \E c \in Clients : Query(c) \/ ClientStep(c)
  \/ DumpStep
  \/ \E i \in Ids : CompactStep(i)
  \/ Kill \/ Start

Spec == Init /\ [][Next]_vars

-----------------------------------------------------------------------------
(* Properties.                                                             *)

Pcs == NotLooked \cup DropPcs \cup CreatePcs \cup
       {"put", "getMetadata", "getTable", "reading", "readTmps", "describing", "open", "save",
        "clean", "getCTime", "compact"}
Thread(Todo) == [pc : Pcs, ptr : Ids, todo : SUBSET Todo, raced : BOOLEAN]
Dir == [made : BOOLEAN, bin : {"none", "raw", "ready"}, meta : {"none", "empty", "full"},
        raw : BOOLEAN, tmp : SUBSET Ids, tmpc : SUBSET Ids, part : SUBSET Ids]

TypeOK ==
  /\ dir \in Dir
  /\ memtable \subseteq Ids
  /\ sysTables \in Seq(Ids)
  /\ freed \subseteq {i \in Ids : \A n \in DOMAIN sysTables : sysTables[n] # i}
  /\ dropLock \in [Ids -> Clients \cup Ids \cup {NoOne}]
  /\ client \in [Clients -> Thread(Files)]
  /\ comp \in [Ids -> Thread(Ids)]
  /\ dump \in Thread({})
  /\ gen \in Ids
  /\ status \in {"up", "killed", "raced", "unfinished", "renamed", "died"}
  /\ starts \in 0 .. MaxStarts
  /\ carried \subseteq Ids
  /\ collided \in BOOLEAN

\* A table created again is empty: no file of it has an insert made into the
\* table of that name that was dropped, whether they were in .tmp files, in a
\* compaction or in the partition when the DROP came.  Excepted are the inserts it
\* left in the memtable, or that were on their way to it (drop.c:26), and updates
\* that overlapped.
DroppedDataStaysDropped ==
  ~collided => dir.tmp \cup dir.tmpc \cup dir.part \subseteq {gen} \cup carried

\* No thread, and no start-up, meets a NULL pointer, a missing file or a freed
\* entry, unless a CREATE or a DROP was in progress since it looked for the
\* table, or it dumps inserts that a DROP left behind.  Two deaths of their own need
\* neither.  "unfinished" is a .tmp file that a dump has not completed: a DROP or a
\* compaction lists the files without its MUTEX_TABLE_PART, and a kill leaves it so
\* for good.  "renamed" is a SELECT that listed the .tmp files before a compactor,
\* without that mutex, renamed them, and opens them after (fs.c:294, compactador.c:49).
NobodyDiesUnlessRaced == status # "died"

\* Between updates the list and the directory agree: one entry and a complete
\* directory, with a compactor to compact it, or neither an entry nor a file that
\* makes a table.  (The compactor of a table that is gone sleeps on until it next
\* looks for it.)
ListMatchesDirectory ==
  Up /\ ~Disturbed =>
    \/ sysTables = <<>> /\ ~Exists /\ dir.meta = "none"
    \/ /\ Len(sysTables) = 1
       /\ dir.bin = "ready" /\ dir.meta = "full"
       /\ \E i \in Ids : comp[i].pc # "idle"

\* The threads in the files of the table by the mutex of an entry not freed.
Inside == {c \in Clients : client[c].pc \in {"free", "unlink", "unlock"}
                           /\ client[c].ptr \notin freed}
          \cup {i \in Ids : comp[i].pc \in {"getCTime", "compact", "save", "unlock"}
                             /\ comp[i].ptr \notin freed}

\* MUTEX_DROP_TABLE does its work: never two DROPs or compactions in the files of a
\* table, even when overlapping CREATEs gave it two entries and two compactors, as
\* all take the first entry's; and a thread that returns has left it.  Only one
\* whose entry was freed under it may still be there.
OneThreadAtTheFiles ==
  /\ Cardinality(Inside) <= 1
  /\ \A i \in Ids \ freed : dropLock[i] \in Inside \cup {NoOne}
=============================================================================
