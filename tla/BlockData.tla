----------------------------- MODULE BlockData -----------------------------
(***************************************************************************)
(* What blocks.c keeps in the blocks of a file.  A partition or .tmp file  *)
(* is a header, SIZE= and BLOCKS=[...]; its records are the bytes of those *)
(* blocks, one after the other.  b_saveData adds the blocks the data needs *)
(* and then fills them piece by piece, looking each time for the first     *)
(* block of the file that is not full.  A block that holds just "&" is     *)
(* assigned and empty.                                                     *)
(*                                                                         *)
(* One thread at a time works on a file (it holds the MUTEX_TABLE_PART of  *)
(* its table); files share the blocks.  A crash falls between two of these *)
(* steps, or inside the rewriting of a header (config_save truncates it).  *)
(*                                                                         *)
(* The order in which blocks are handed out, and the steps of an           *)
(* allocation and of a deletion, are the matter of module Bitarray; here   *)
(* each is one step and any block with a clear bit may be handed out.      *)
(***************************************************************************)
EXTENDS Integers, Sequences, FiniteSets, Functions, SequencesExt

CONSTANTS
  Files,       \* the partition and .tmp files
  Blocks,      \* the blocks of the file system
  NoBlock,     \* -1, what ba_getNewBlock answers when every bit is set
  BlockSize,   \* BLOCK_SIZE of the metadata
  Data,        \* what may be saved: records, as sequences of bytes
  Mark,        \* the byte "&"
  MaxSaves,    \* bound: calls to b_saveData
  MaxCrashes   \* bound: crashes

ASSUME BlocksAssumption == IsFiniteSet(Blocks) /\ NoBlock \notin Blocks
\* In blocks of one byte a "&" that belongs to a record cannot be told from the mark.
ASSUME BlockSizeAssumption == BlockSize \in Nat \ {0, 1}
\* Records end with a line feed.
ASSUME DataAssumption ==
  \A d \in Data : d \in Seq(Range(d)) /\ Len(d) > 0 /\ d[Len(d)] # Mark
ASSUME BoundsAssumption == MaxSaves \in Nat /\ MaxCrashes \in Nat

Bytes == {Mark} \cup UNION {Range(d) : d \in Data}

VARIABLES
  disk,     \* disk[b]: the bytes of b.bin
  bitmap,   \* the blocks whose bit is set
  header,   \* header[f]: the file f, with its SIZE= and BLOCKS=
  pc,       \* pc[f]: where the save into f is
  data,     \* data[f]: what it saves
  need,     \* need[f]: blocks it has still to add
  at,       \* at[f]: lastPosInserted, bytes of data it has placed or is placing
  saved,    \* history: saved[f], what the saves into f have been given
  sound,    \* history: no crash has hit a save or found a listed block empty
  saves,    \* number of saves, for the bound
  crashes   \* number of crashes, for the bound

vars == <<disk, bitmap, header, pc, data, need, at, saved, sound, saves, crashes>>
saving == <<pc, data, need, at>>

NoFile      == [st |-> "none", size |-> 0, blocks |-> <<>>]
LostFile    == [st |-> "lost", size |-> 0, blocks |-> <<>>]   \* no line left in it
File(n, bs) == [st |-> "ok", size |-> n, blocks |-> bs]

-----------------------------------------------------------------------------
(* Operators: what the functions of blocks.c answer.                       *)

\* The bytes of a block that are data: b_freeSize and b_getListOfInserts skip a mark.
Held(b) == IF disk[b] = <<Mark>> THEN <<>> ELSE disk[b]

FreeSize(b) == BlockSize - Len(Held(b))

LastBlock(f) == Last(header[f].blocks)

\* Mutant: The data goes to the last block, which is where b_saveData saw room.
FreeBlockIsLast(f) == LastBlock(f)

\* b_full asks for a free size of exactly 0; with no block left the answer is -1.
FirstFreeBlock(f) ==
  LET bs   == header[f].blocks
      open == {i \in DOMAIN bs : FreeSize(bs[i]) # 0}
  IN  IF open = {} THEN NoBlock
      ELSE bs[CHOOSE i \in open : \A j \in open : i <= j]

\* Mutant: A one-byte block is emptied whatever the byte is.
SavedIntoUnread(b, d) ==
  [disk EXCEPT ![b] = (IF Len(disk[b]) = 1 THEN <<>> ELSE disk[b]) \o d]

\* b_saveIntoBlock: a block that holds the mark is emptied, then data is appended.
SavedInto(b, d) == [disk EXCEPT ![b] = Held(b) \o d]

\* Mutant: The blocks needed are counted for all the data and rounded down.
BlocksNeededRoundedDown(n) == n \div BlockSize

\* The blocks to add for n bytes that do not fit.
BlocksNeeded(n) ==
  IF n % BlockSize = 0 THEN n \div BlockSize ELSE n \div BlockSize + 1

\* What b_getListOfInserts reads.
Contents(f) == FlattenSeq([i \in DOMAIN header[f].blocks |-> Held(header[f].blocks[i])])

\* Mutant: The bits are rebuilt from the blocks that are full.
BlocksFull == {b \in Blocks : Len(disk[b]) = BlockSize}

\* b_empty of each block: the bits ba_create sets, a block with just the mark included.
BlocksInUse == {b \in Blocks : disk[b] # <<>>}

\* A file that lists -1 is read and written through a stat of -1.bin, which
\* may not exist: its result is uninitialized, and nothing more is said of it.
Usable(f) == header[f].st = "ok" /\ NoBlock \notin Range(header[f].blocks)

-----------------------------------------------------------------------------

TypeOK ==
  /\ disk \in [Blocks \cup {NoBlock} -> Seq(Bytes)]
  /\ bitmap \subseteq Blocks
  /\ header \in [Files -> [st : {"none", "ok", "lost"}, size : Int,
                           blocks : Seq(Blocks \cup {NoBlock})]]
  /\ pc \in [Files -> {"idle", "grow", "fill", "chunk", "size"}]
  /\ data \in [Files -> Seq(Bytes)]
  /\ need \in [Files -> Nat]
  /\ at \in [Files -> Int]
  /\ saved \in [Files -> Seq(Bytes)]
  /\ sound \in BOOLEAN
  /\ saves \in 0 .. MaxSaves
  /\ crashes \in 0 .. MaxCrashes

\* b_create has made every block, empty.
Init ==
  /\ disk = [b \in Blocks \cup {NoBlock} |-> <<>>]
  /\ bitmap = {}
  /\ header = [f \in Files |-> NoFile]
  /\ pc = [f \in Files |-> "idle"]
  /\ data = [f \in Files |-> <<>>]
  /\ need = [f \in Files |-> 0]
  /\ at = [f \in Files |-> 0]
  /\ saved = [f \in Files |-> <<>>]
  /\ sound = TRUE
  /\ saves = 0
  /\ crashes = 0

\* ba_getNewBlock: only the first of its two loops writes the mark.
NewBlock(b) ==
  \/ /\ b \in Blocks \ bitmap
     /\ bitmap' = bitmap \cup {b}
     /\ \E mark \in {<<Mark>>, <<>>} : disk' = [disk EXCEPT ![b] = @ \o mark]
  \/ /\ b = NoBlock
     /\ Blocks \subseteq bitmap
     /\ UNCHANGED <<disk, bitmap>>

\* b_assignSizeAndBlock: a new file, of size 0, with one block.
Create(f) ==
  /\ header[f].st = "none"
  /\ \E b \in Blocks \cup {NoBlock} :
       /\ NewBlock(b)
       /\ header' = [header EXCEPT ![f] = File(0, <<b>>)]
  /\ UNCHANGED <<saving, saved, sound, saves, crashes>>

\* b_saveData: it looks at the last block only.  A negative free size is
\* compared unsigned, as a huge one.
BeginSave(f, d) ==
  LET free == FreeSize(LastBlock(f)) IN
  /\ pc[f] = "idle"
  /\ Usable(f)
  /\ saves < MaxSaves
  /\ saves' = saves + 1
  /\ data' = [data EXCEPT ![f] = d]
  /\ IF free < 0 \/ free >= Len(d)
       THEN /\ disk' = SavedInto(LastBlock(f), d)
            /\ pc' = [pc EXCEPT ![f] = "size"]
            /\ at' = [at EXCEPT ![f] = Len(d)]
            /\ UNCHANGED need
       ELSE /\ need' = [need EXCEPT ![f] = BlocksNeeded(Len(d) - free)]
            /\ at' = [at EXCEPT ![f] = free]
            /\ pc' = [pc EXCEPT ![f] = "grow"]
            /\ UNCHANGED disk
  /\ saved' = IF sound THEN [saved EXCEPT ![f] = @ \o d] ELSE saved
  /\ UNCHANGED <<bitmap, header, sound, crashes>>

\* b_addNewBlock, once for each block needed.
AddNewBlock(f) ==
  /\ pc[f] = "grow"
  /\ \E b \in Blocks \cup {NoBlock} :
       /\ NewBlock(b)
       /\ header' = [header EXCEPT ![f].blocks = Append(@, b)]
  /\ need' = [need EXCEPT ![f] = @ - 1]
  /\ pc' = [pc EXCEPT ![f] = IF need[f] = 1 THEN "fill" ELSE "grow"]
  /\ UNCHANGED <<data, at, saved, sound, saves, crashes>>

\* The room the last block had is filled, in the first block that is not full.
Fill(f) ==
  /\ pc[f] = "fill"
  /\ Usable(f)
  /\ disk' = SavedInto(FirstFreeBlock(f), SubSeq(data[f], 1, at[f]))
  /\ pc' = [pc EXCEPT ![f] = "chunk"]
  /\ UNCHANGED <<bitmap, header, data, need, at, saved, sound, saves, crashes>>

\* One turn of the loop that places the rest, a block at a time.
SaveChunk(f) ==
  LET left == Len(data[f]) - at[f]
      upto == IF left > BlockSize THEN at[f] + BlockSize ELSE Len(data[f])
  IN
  /\ pc[f] = "chunk"
  /\ disk' = SavedInto(FirstFreeBlock(f), SubSeq(data[f], at[f] + 1, upto))
  /\ at' = [at EXCEPT ![f] = upto]
  /\ pc' = [pc EXCEPT ![f] = IF left > BlockSize THEN "chunk" ELSE "size"]
  /\ UNCHANGED <<bitmap, header, data, need, saved, sound, saves, crashes>>

\* Mutant: The last block is counted as full.
UpdateSizeAllFull(f) ==
  /\ pc[f] = "size"
  /\ header' = [header EXCEPT ![f].size = Len(header[f].blocks) * BlockSize]
  /\ pc' = [pc EXCEPT ![f] = "idle"]
  /\ data' = [data EXCEPT ![f] = <<>>]
  /\ at' = [at EXCEPT ![f] = 0]
  /\ UNCHANGED <<disk, bitmap, need, saved, sound, saves, crashes>>

\* b_updateSize, the last thing b_saveData does.
UpdateSize(f) ==
  /\ pc[f] = "size"
  /\ header' = [header EXCEPT ![f].size =
       (Len(header[f].blocks) - 1) * BlockSize + (BlockSize - FreeSize(LastBlock(f)))]
  /\ pc' = [pc EXCEPT ![f] = "idle"]
  /\ data' = [data EXCEPT ![f] = <<>>]
  /\ at' = [at EXCEPT ![f] = 0]
  /\ UNCHANGED <<disk, bitmap, need, saved, sound, saves, crashes>>

\* The blocks of a file emptied and their bits cleared, and the file removed.
Delete(f) ==
  /\ pc[f] = "idle"
  /\ Usable(f)
  /\ disk' = [b \in DOMAIN disk |-> IF b \in Range(header[f].blocks) THEN <<>> ELSE disk[b]]
  /\ bitmap' = bitmap \ Range(header[f].blocks)
  /\ header' = [header EXCEPT ![f] = NoFile]
  /\ saved' = [saved EXCEPT ![f] = <<>>]
  /\ UNCHANGED <<saving, sound, saves, crashes>>

\* The process dies and starts again: ba_create sets the bit of every block
\* that is not empty.  A header being rewritten may be lost.
Crash ==
  /\ crashes < MaxCrashes
  /\ crashes' = crashes + 1
  /\ \E lost \in SUBSET {f \in Files : pc[f] \in {"grow", "size"}} :
       header' = [f \in Files |-> IF f \in lost THEN LostFile ELSE header[f]]
  /\ bitmap' = BlocksInUse
  /\ pc' = [f \in Files |-> "idle"]
  /\ data' = [f \in Files |-> <<>>]
  /\ need' = [f \in Files |-> 0]
  /\ at' = [f \in Files |-> 0]
  /\ sound' = (sound /\ \A f \in Files : /\ pc[f] = "idle"
                                         /\ \A b \in Range(header[f].blocks) : disk[b] # <<>>)
  /\ saved' = [f \in Files |-> IF pc[f] = "idle" \/ ~sound THEN saved[f]
                               ELSE SubSeq(saved[f], 1, Len(saved[f]) - Len(data[f]))]
  /\ UNCHANGED <<disk, saves>>

Next ==
  \/ \E f \in Files :
       \/ Create(f)
       \/ \E d \in Data : BeginSave(f, d)
       \/ AddNewBlock(f) \/ Fill(f) \/ SaveChunk(f) \/ UpdateSize(f)
       \/ Delete(f)
  \/ Crash

Spec == Init /\ [][Next]_vars

-----------------------------------------------------------------------------
(* Properties.                                                             *)

\* Between crashes a file holds, in order, every byte its saves were given:
\* all of them when no save is under way, and a part of the last one's after
\* all of the earlier ones' while it is (b_saveData, b_getListOfInserts).
SavedDataReadsBack ==
  \A f \in Files : sound /\ Usable(f) =>
    IF pc[f] \in {"idle", "size"}
      THEN Contents(f) = saved[f]
      ELSE /\ IsPrefix(Contents(f), saved[f])
           /\ Len(Contents(f)) >= Len(saved[f]) - Len(data[f])

\* SIZE= is the number of bytes of the records whenever no save is under
\* way (b_updateSize supposes that every block but the last is full).
SizeIsLength ==
  \A f \in Files : sound /\ Usable(f) /\ pc[f] = "idle" =>
    header[f].size = Len(Contents(f))

\* No block is given more than BLOCK_SIZE bytes: what the comment on
\* b_saveIntoBlock (blocks.c:390) says.
BlocksNeverOverflow == \A b \in Blocks : Len(disk[b]) <= BlockSize

\* The same, as long as no crash has hit a save.
BlocksFit == sound => BlocksNeverOverflow

\* After a crash in the middle of a save, and whatever the process does
\* afterwards, the bytes of the saves complete by then are still where the
\* file begins, unless the crash emptied its header (ba_create, b_freeblock).
CompleteSavesSurvive ==
  \A f \in Files : Usable(f) /\ ~sound => IsPrefix(saved[f], Contents(f))
=============================================================================
