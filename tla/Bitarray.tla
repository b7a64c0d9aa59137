------------------------------ MODULE Bitarray ------------------------------
(***************************************************************************)
(* The block allocator of the Lissandra file system: Fs/bitarray.c and the *)
(* parts of Fs/blocks.c that hand blocks to files and take them back.      *)
(*                                                                         *)
(* Threads allocate, fill and free blocks concurrently.  A table file (a   *)
(* partition i.bin or a dump n.tmp) has one writer at a time, who holds    *)
(* MUTEX_TABLE_PART or is alone in creating it, and one thread deleting it *)
(* at a time, a DROP or the compactor, who holds MUTEX_DROP_TABLE; so the  *)
(* two are named by the file.  Nothing keeps them apart: a DROP lists the  *)
(* blocks of a file, frees them and unlinks it while a dump is giving it   *)
(* blocks and writing them.  MUTEX_BITARRAY is explicit, and a step of a   *)
(* thread is one test of a bit: the search of ba_getNewBlock is not atomic *)
(* by assumption, it is made atomic by the mutex or not at all.            *)
(*                                                                         *)
(* A block file is abstracted to what ba_create distinguishes in it:       *)
(* whether it has any byte, the mark "&" of ba_getNewBlock or records.     *)
(***************************************************************************)
EXTENDS Integers, FiniteSets

CONSTANTS
  Files,        \* the table files that own blocks
  NBlocks,      \* metadataBlocks: BLOCKS of Metadata/Metadata.bin
  NoFile,       \* MUTEX_BITARRAY is free
  MaxPerFile,   \* bound: entries of the BLOCKS=[...] list of one file
  MaxDeleting,  \* bound: files being deleted at the same time
  MaxRaces,     \* bound: writes that reach a file being deleted
  MaxRestarts   \* bound: times the process is started again

ASSUME BlocksAssumption  == NBlocks \in Nat \ {0}   \* ba_create refuses 0 blocks
ASSUME NoFileAssumption  == NoFile \notin Files
ASSUME BoundsAssumption  ==
  MaxPerFile \in Nat /\ MaxDeleting \in Nat /\ MaxRaces \in Nat /\ MaxRestarts \in Nat

Blocks  == 0 .. NBlocks - 1
NoBlock == -1     \* what ba_getNewBlock returns when it finds no free block

VARIABLES
  bitarray,           \* the blocks whose bit is set
  lastBlockAssigned,  \* where the next search starts
  flagBloquesLibres,  \* 0: a search found no free block
  filled,             \* the blocks whose file is not empty
  blocks,             \* blocks[f]: the BLOCKS list in file f, on disk
  mutex,              \* the holder of MUTEX_BITARRAY
  pc,                 \* where the writer of file f is
  cur,                \* its block number: aux of the search, the result, or
                      \* the block it writes to
  seen,               \* the list of f when its writer asked for a block
  del,                \* where the deletion of file f is
  victim,             \* the block it has truncated and is to free
  todo,               \* the blocks it listed and has not freed yet
  damaged,            \* history: a start-up read a disk it cannot make sense of
  races,              \* history: writes that reached a file being deleted
  restarts            \* number of starts, for the bound

allocator == <<bitarray, lastBlockAssigned, flagBloquesLibres>>
disk      == <<filled, blocks>>
writers   == <<pc, cur, seen>>
deleters  == <<del, victim, todo>>
history   == <<damaged, races, restarts>>
vars      == <<allocator, disk, mutex, writers, deleters, history>>

Labels == {"idle", "lock", "scan", "take", "wrap", "takeWrapped", "list",
           "save", "append"}

\* The labels at which a writer is inside the critical section of
\* ba_getNewBlock.
Searching == {"scan", "take", "wrap", "takeWrapped"}

TypeOK ==
  /\ bitarray \subseteq Blocks
  /\ lastBlockAssigned \in Blocks
  /\ flagBloquesLibres \in {0, 1}
  /\ filled \subseteq Blocks
  /\ blocks \in [Files -> SUBSET (Blocks \cup {NoBlock})]
  /\ mutex \in Files \cup {NoFile}
  /\ pc \in [Files -> Labels]
  /\ cur \in [Files -> NoBlock .. NBlocks]
  /\ seen \in [Files -> SUBSET (Blocks \cup {NoBlock})]
  /\ del \in [Files -> {"none", "delete", "free"}]
  /\ victim \in [Files -> Blocks \cup {NoBlock}]
  /\ todo \in [Files -> SUBSET (Blocks \cup {NoBlock})]
  /\ damaged \in BOOLEAN
  /\ races \in Nat
  /\ restarts \in Nat

Init ==
  /\ bitarray = {}
  /\ lastBlockAssigned = 0
  /\ flagBloquesLibres = 1
  /\ filled = {}
  /\ blocks = [f \in Files |-> {}]
  /\ mutex = NoFile
  /\ pc = [f \in Files |-> "idle"]
  /\ cur = [f \in Files |-> NoBlock]
  /\ seen = [f \in Files |-> {}]
  /\ del = [f \in Files |-> "none"]
  /\ victim = [f \in Files |-> NoBlock]
  /\ todo = [f \in Files |-> {}]
  /\ damaged = FALSE
  /\ races = 0
  /\ restarts = 0

At(f, label)   == pc[f] = label
Goto(f, label) == pc' = [pc EXCEPT ![f] = label]
SetCur(f, b)   == cur' = [cur EXCEPT ![f] = b]
Deleting(f)    == del[f] # "none"

\* A write to file f, or to a block of it, that knows nothing of its deletion:
\* gone says that what the writer has read of the file no longer holds.
Race(f, gone) ==
  IF Deleting(f) \/ gone
    THEN races < MaxRaces /\ races' = races + 1
    ELSE UNCHANGED races

-----------------------------------------------------------------------------
(* ba_getNewBlock, called by b_assignSizeAndBlock and b_addNewBlock.       *)

\* The flag is read before MUTEX_BITARRAY is taken.
BeginAlloc(f) ==
  /\ At(f, "idle")
  /\ Cardinality(blocks[f]) < MaxPerFile
  /\ IF flagBloquesLibres = 0
       THEN Goto(f, "list") /\ SetCur(f, NoBlock)
       ELSE Goto(f, "lock") /\ UNCHANGED cur
  /\ seen' = [seen EXCEPT ![f] = blocks[f]]
  /\ UNCHANGED <<allocator, disk, mutex, deleters, history>>

\* Mutant: the search starts without waiting for the mutex.
LockWithoutWaiting(f) ==
  /\ At(f, "lock")
  /\ mutex' = f
  /\ Goto(f, "scan")
  /\ SetCur(f, lastBlockAssigned)
  /\ UNCHANGED <<allocator, disk, seen, deleters, history>>

Lock(f) ==
  /\ At(f, "lock")
  /\ mutex = NoFile
  /\ mutex' = f
  /\ Goto(f, "scan")
  /\ SetCur(f, lastBlockAssigned)
  /\ UNCHANGED <<allocator, disk, seen, deleters, history>>

\* Mutant: the first loop tests i <= blocks.
ScanOffByOne(f) ==
  /\ At(f, "scan")
  /\ \/ /\ cur[f] > NBlocks
        /\ Goto(f, "wrap")
        /\ SetCur(f, 0)
     \/ /\ cur[f] <= NBlocks
        /\ cur[f] \in bitarray
        /\ SetCur(f, cur[f] + 1)
        /\ UNCHANGED pc
     \/ /\ cur[f] <= NBlocks
        /\ cur[f] \notin bitarray
        /\ Goto(f, "take")
        /\ UNCHANGED cur
  /\ UNCHANGED <<allocator, disk, mutex, seen, deleters, history>>

\* for(i = lastBlockAssigned; i < blocks; i++)
Scan(f) ==
  /\ At(f, "scan")
  /\ \/ /\ cur[f] = NBlocks
        /\ Goto(f, "wrap")
        /\ SetCur(f, 0)
     \/ /\ cur[f] < NBlocks
        /\ cur[f] \in bitarray
        /\ SetCur(f, cur[f] + 1)
        /\ UNCHANGED pc
     \/ /\ cur[f] < NBlocks
        /\ cur[f] \notin bitarray
        /\ Goto(f, "take")
        /\ UNCHANGED cur
  /\ UNCHANGED <<allocator, disk, mutex, seen, deleters, history>>

\* Found in the first loop: the bit, the cursor, and the mark appended to the
\* block's file (b_writeBlockAssigned).
Take(f) ==
  /\ At(f, "take")
  /\ bitarray' = bitarray \cup {cur[f]}
  /\ lastBlockAssigned' = cur[f]
  /\ filled' = filled \cup {cur[f]}
  /\ mutex' = NoFile
  /\ Goto(f, "list")
  /\ UNCHANGED <<flagBloquesLibres, blocks, cur, seen, deleters, history>>

\* Mutant: the second loop returns without unlocking when it finds nothing.
WrapKeepsMutex(f) ==
  /\ At(f, "wrap")
  /\ \/ /\ cur[f] < lastBlockAssigned
        /\ cur[f] \in bitarray
        /\ SetCur(f, cur[f] + 1)
        /\ UNCHANGED <<pc, flagBloquesLibres, mutex>>
     \/ /\ cur[f] < lastBlockAssigned
        /\ cur[f] \notin bitarray
        /\ Goto(f, "takeWrapped")
        /\ UNCHANGED <<cur, flagBloquesLibres, mutex>>
     \/ /\ cur[f] >= lastBlockAssigned
        /\ flagBloquesLibres' = 0
        /\ Goto(f, "list")
        /\ SetCur(f, NoBlock)
        /\ UNCHANGED mutex
  /\ UNCHANGED <<bitarray, lastBlockAssigned, disk, seen, deleters, history>>

\* while(aux < lastBlockAssigned); past its end there is no free block.
Wrap(f) ==
  /\ At(f, "wrap")
  /\ \/ /\ cur[f] < lastBlockAssigned
        /\ cur[f] \in bitarray
        /\ SetCur(f, cur[f] + 1)
        /\ UNCHANGED <<pc, flagBloquesLibres, mutex>>
     \/ /\ cur[f] < lastBlockAssigned
        /\ cur[f] \notin bitarray
        /\ Goto(f, "takeWrapped")
        /\ UNCHANGED <<cur, flagBloquesLibres, mutex>>
     \/ /\ cur[f] >= lastBlockAssigned
        /\ flagBloquesLibres' = 0
        /\ mutex' = NoFile
        /\ Goto(f, "list")
        /\ SetCur(f, NoBlock)
  /\ UNCHANGED <<bitarray, lastBlockAssigned, disk, seen, deleters, history>>

\* Found in the second loop: the block's file is not marked.
TakeWrapped(f) ==
  /\ At(f, "takeWrapped")
  /\ bitarray' = bitarray \cup {cur[f]}
  /\ lastBlockAssigned' = cur[f]
  /\ mutex' = NoFile
  /\ Goto(f, "list")
  /\ UNCHANGED <<flagBloquesLibres, disk, cur, seen, deleters, history>>

\* The number returned, -1 included, goes to the BLOCKS list of the file:
\* startPartition for a file that has none, b_modifyBlocks otherwise.  The first
\* makes a file that was deleted meanwhile anew.  The second dies of it, or
\* writes back the list it had read, when the file went between its
\* config_create and its config_save; a file that is only marked for deletion
\* takes the block, and loses it when it is unlinked.
ListBlock(f) ==
  /\ At(f, "list")
  /\ blocks' = [blocks EXCEPT ![f] = seen[f] \cup {cur[f]}]
  /\ Race(f, blocks[f] # seen[f])
  /\ Goto(f, "idle")
  /\ SetCur(f, NoBlock)
  /\ seen' = [seen EXCEPT ![f] = {}]
  /\ UNCHANGED <<allocator, filled, mutex, deleters, damaged, restarts>>

-----------------------------------------------------------------------------
(* b_saveData: the block is looked up in the list of the file, and its     *)
(* file is written afterwards (b_saveIntoBlock).                           *)

ChooseBlock(f) ==
  /\ At(f, "idle")
  /\ \E b \in blocks[f] \ {NoBlock} : SetCur(f, b)
  /\ Goto(f, "save")
  /\ UNCHANGED <<allocator, disk, mutex, seen, deleters, history>>

\* The block is written by its number: nothing tells the writer that the file
\* is being deleted, or is gone.
Writes(f) ==
  /\ Race(f, cur[f] \notin blocks[f])
  /\ UNCHANGED <<allocator, blocks, mutex, seen, deleters, damaged, restarts>>

\* A file that holds only the mark is truncated first; which one does is not kept.
SaveIntoBlock(f) ==
  /\ At(f, "save")
  /\ \/ /\ filled' = filled \ {cur[f]}
        /\ Goto(f, "append")
        /\ UNCHANGED cur
     \/ /\ filled' = filled \cup {cur[f]}
        /\ Goto(f, "idle")
        /\ SetCur(f, NoBlock)
  /\ Writes(f)

AppendData(f) ==
  /\ At(f, "append")
  /\ filled' = filled \cup {cur[f]}
  /\ Goto(f, "idle")
  /\ SetCur(f, NoBlock)
  /\ Writes(f)

-----------------------------------------------------------------------------
(* Deleting a file: fs_cleanTmpsC with b_freeblock, freeBlocks of drop.c.  *)

\* The list is read once.  The compactor deletes files nobody writes any more;
\* a DROP holds MUTEX_DROP_TABLE only, so the writer of the file may be
\* anywhere, and a file that appears after the directory was read is unlinked
\* without any of its blocks being freed.
BeginDelete(f) ==
  /\ ~Deleting(f)
  /\ Cardinality({g \in Files : Deleting(g)}) < MaxDeleting
  /\ del' = [del EXCEPT ![f] = "delete"]
  /\ todo' = [todo EXCEPT ![f] = blocks[f]]
  /\ UNCHANGED <<allocator, disk, mutex, writers, victim, history>>

\* fopen(blockUrl, "w"), outside the mutex.  "-1.bin" is no block of Blocks.
Truncate(f) ==
  /\ del[f] = "delete"
  /\ \E b \in todo[f] :
       /\ filled' = filled \ {b}
       /\ victim' = [victim EXCEPT ![f] = b]
  /\ del' = [del EXCEPT ![f] = "free"]
  /\ UNCHANGED <<allocator, blocks, mutex, writers, todo, history>>

\* What ba_freeBlock leaves behind but the bitmap.
Freed(f) ==
  /\ flagBloquesLibres' = 1
  /\ del' = [del EXCEPT ![f] = "delete"]
  /\ todo' = [todo EXCEPT ![f] = @ \ {victim[f]}]
  /\ victim' = [victim EXCEPT ![f] = NoBlock]
  /\ UNCHANGED <<lastBlockAssigned, disk, mutex, writers, history>>

\* Mutant: the bit is cleaned without MUTEX_BITARRAY.
FreeWithoutMutex(f) ==
  /\ del[f] = "free"
  /\ bitarray' = bitarray \ {victim[f]}
  /\ Freed(f)

\* Mutant: the bit is never cleaned.
FreeForgetsBit(f) ==
  /\ del[f] = "free"
  /\ mutex = NoFile
  /\ Freed(f)
  /\ UNCHANGED bitarray

\* ba_freeBlock.  Cleaning bit -1 shifts by a negative count; the byte
\* mask the build computes is 0, so no bit changes and only the flag is raised.
FreeBlock(f) ==
  /\ del[f] = "free"
  /\ mutex = NoFile
  /\ bitarray' = bitarray \ {victim[f]}
  /\ Freed(f)

Unlink(f) ==
  /\ del[f] = "delete"
  /\ todo[f] = {}
  /\ blocks' = [blocks EXCEPT ![f] = {}]
  /\ del' = [del EXCEPT ![f] = "none"]
  /\ UNCHANGED <<allocator, filled, mutex, writers, victim, todo, history>>

-----------------------------------------------------------------------------
(* Start-up: init_FileSystem and ba_create rebuild the bitmap from the     *)
(* sizes of the block files (b_empty), whatever Bitmap.bin says.           *)

Load ==
  /\ bitarray' = filled
  /\ lastBlockAssigned' = 0
  /\ flagBloquesLibres' = 1
  /\ mutex' = NoFile
  /\ pc' = [f \in Files |-> "idle"]
  /\ cur' = [f \in Files |-> NoBlock]
  /\ seen' = [f \in Files |-> {}]
  /\ del' = [f \in Files |-> "none"]
  /\ victim' = [f \in Files |-> NoBlock]
  /\ todo' = [f \in Files |-> {}]
  /\ restarts' = restarts + 1
  /\ UNCHANGED <<disk, races>>

Quiescent == \A f \in Files : At(f, "idle") /\ ~Deleting(f)

\* Every block a file lists has something in it.
AllMarked == \A f \in Files : blocks[f] \ {NoBlock} \subseteq filled

Restart ==
  /\ restarts < MaxRestarts
  /\ Quiescent
  /\ Load
  /\ damaged' = (damaged \/ ~AllMarked)

\* The process dies while some thread is in the middle of an operation: it is
\* killed, or kills itself when getListOfBlocks finds no BLOCKS in a file, or no
\* file.
Crash ==
  /\ restarts < MaxRestarts
  /\ ~Quiescent
  /\ Load
  /\ damaged' = TRUE

-----------------------------------------------------------------------------
GetNewBlock(f) == Lock(f) \/ Scan(f) \/ Take(f) \/ Wrap(f) \/ TakeWrapped(f)

Step(f) ==
  \/ BeginAlloc(f) \/ GetNewBlock(f) \/ ListBlock(f)
  \/ ChooseBlock(f) \/ SaveIntoBlock(f) \/ AppendData(f)
  \/ BeginDelete(f) \/ Truncate(f) \/ FreeBlock(f) \/ Unlink(f)

Next == (\E f \in Files : Step(f)) \/ Restart \/ Crash

\* A thread inside ba_getNewBlock keeps running; nothing makes it allocate.
Fairness == \A f \in Files : WF_vars(GetNewBlock(f))

Spec == Init /\ [][Next]_vars /\ Fairness

\* The process is only ever stopped when no thread is busy.
OrderlySpec == Init /\ [][(\E f \in Files : Step(f)) \/ Restart]_vars

-----------------------------------------------------------------------------
(* Properties.                                                             *)

\* What file f still lists: a deletion gives its blocks back one by one.
Listed(f) == (IF Deleting(f) THEN todo[f] ELSE blocks[f]) \ {NoBlock}

\* The blocks file f is entitled to: those it lists, and the one its writer has
\* been returned and not listed yet.
Holding(f) == Listed(f) \cup (IF At(f, "list") THEN {cur[f]} \ {NoBlock} ELSE {})

\* No block is handed to two files, nor twice to one.
Disjoint ==
  /\ \A f, g \in Files : f # g => Holding(f) \cap Holding(g) = {}
  /\ \A f \in Files : At(f, "list") => cur[f] \notin Listed(f)

\* ba_getNewBlock never hands out a block somebody owns, for any interleaving of
\* searches, frees, writes and DROPs, until one of two things happens: a start-up
\* finds the block of a listed file empty, or was needed in the middle of an
\* operation (damaged); or a dump lists or writes a block of a file while a DROP
\* is deleting it or has deleted it (races; drop.c:18 against fs.c:139).
NoDoubleAllocation == ~damaged /\ races = 0 => Disjoint

\* A bit that is set belongs to a file: drop and compaction give back every
\* block, and no interleaving of ba_getNewBlock and ba_freeBlock loses one, under
\* the same two provisos.
NoLeak == ~damaged /\ races = 0 => \A b \in bitarray : \E f \in Files : b \in Holding(f)

\* flagBloquesLibres = 0 short-circuits every later ba_getNewBlock: it may only
\* be down while no block is free.
FlagDownMeansFull == flagBloquesLibres = 0 => bitarray = Blocks

\* A search that gives up (bitarray.c:95) gives up over a bitmap that is full at
\* that instant, whatever was freed while it was scanning.
FailsOnlyWhenFull ==
  [][\A f \in Files : (At(f, "wrap") /\ pc'[f] = "list") => bitarray = Blocks]_vars

\* Every path of ba_getNewBlock releases MUTEX_BITARRAY.
MutexReleased == \A f \in Files : (mutex = f) ~> (mutex # f)

\* What bitarray.c:57 promises, with no proviso about restarts.
ReturnsAFreeBlock == Disjoint
=============================================================================
