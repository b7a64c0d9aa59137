-------------------------- MODULE BlockDataProofs ---------------------------
(***************************************************************************)
(* Proofs about the contents of files, for every set of files and blocks,  *)
(* every size of block and every data: blocks are not overfilled, what is  *)
(* saved is read back, and a crash costs no more than the save it cuts.    *)
(***************************************************************************)
EXTENDS BlockData, SequenceTheorems, WellFoundedInduction, TLAPS

Listing(f) == header[f].blocks

\* Where a save is says what it has still to do.
SaveInv ==
  \A f \in Files :
    /\ header[f].st = "ok" => Len(Listing(f)) >= 1
    /\ pc[f] # "idle" => header[f].st = "ok"
    /\ pc[f] = "grow" => need[f] >= 1
    /\ pc[f] \in {"grow", "fill", "chunk"} => 0 <= at[f] /\ at[f] < Len(data[f])
    /\ pc[f] \in {"grow", "fill", "chunk"} => data[f] \in Data
    /\ pc[f] # "idle" /\ sound => Len(data[f]) <= Len(saved[f])

TInv == TypeOK /\ SaveInv

-----------------------------------------------------------------------------

\* What is saved are bytes, and does not end with a mark.
LEMMA DataType == \A d \in Data : d \in Seq(Bytes) /\ Len(d) \in Nat \ {0} /\ d[Len(d)] # Mark
<1> SUFFICES ASSUME NEW d \in Data
             PROVE d \in Seq(Bytes) /\ Len(d) \in Nat \ {0} /\ d[Len(d)] # Mark
  OBVIOUS
<1>1. d \in Seq(Range(d)) /\ Len(d) > 0 /\ d[Len(d)] # Mark BY DataAssumption
<1>2. Range(d) \subseteq Bytes BY DEF Bytes
<1> QED BY <1>1, <1>2

\* The blocks needed for x bytes hold them, and one less would not.
Room(n, x) == (n - 1) * BlockSize < x /\ x <= n * BlockSize

LEMMA NeededRoom ==
  ASSUME NEW x \in Nat \ {0}
  PROVE BlocksNeeded(x) \in Nat \ {0} /\ Room(BlocksNeeded(x), x)
<1> DEFINE q == x \div BlockSize
           r == x % BlockSize
<1>1. BlockSize \in Nat /\ BlockSize >= 2 BY BlockSizeAssumption
<1>2. q \in Int /\ r \in Int /\ 0 <= r /\ r < BlockSize /\ x = q * BlockSize + r
  BY <1>1
<1>3. q >= 0 BY <1>1, <1>2
<1>4. r = 0 => q # 0 BY <1>1, <1>2
<1>5. /\ (q - 1) * BlockSize = q * BlockSize - BlockSize
      /\ (q + 1) * BlockSize = q * BlockSize + BlockSize
  BY <1>1, <1>2
<1>h. HIDE DEF q, r
<1>6. CASE r = 0
  <2>1. BlocksNeeded(x) = q BY <1>6 DEF BlocksNeeded, q, r
  <2> QED BY <2>1, <1>1, <1>2, <1>3, <1>4, <1>5, <1>6 DEF Room
<1>7. CASE r # 0
  <2>1. BlocksNeeded(x) = q + 1 BY <1>7 DEF BlocksNeeded, q, r
  <2>2. q + 1 - 1 = q BY <1>2
  <2> QED BY <2>1, <2>2, <1>1, <1>2, <1>3, <1>5, <1>7 DEF Room
<1> QED BY <1>6, <1>7

\* What a block holds of data, and the room it has.
LEMMA HeldType ==
  ASSUME TypeOK, NEW b \in Blocks \cup {NoBlock}
  PROVE /\ Held(b) \in Seq(Bytes) /\ Len(Held(b)) \in Nat
        /\ FreeSize(b) \in Int /\ FreeSize(b) = BlockSize - Len(Held(b))
        /\ Held(b) # <<Mark>>
<1>1. disk[b] \in Seq(Bytes) BY DEF TypeOK
<1>2. <<>> \in Seq(Bytes) /\ <<>> # <<Mark>> OBVIOUS
<1>3. Held(b) \in Seq(Bytes) /\ Held(b) # <<Mark>> BY <1>1, <1>2 DEF Held
<1>4. Len(Held(b)) \in Nat BY <1>3
<1> QED BY <1>3, <1>4, BlockSizeAssumption DEF FreeSize

\* Saving into any block leaves the disk well typed.
LEMMA SavedType ==
  ASSUME TypeOK, NEW b, NEW d \in Seq(Bytes)
  PROVE SavedInto(b, d) \in [Blocks \cup {NoBlock} -> Seq(Bytes)]
<1>1. CASE b \in Blocks \cup {NoBlock}
  <2>1. Held(b) \o d \in Seq(Bytes) BY <1>1, HeldType
  <2> QED BY <2>1 DEF SavedInto, TypeOK
<1>2. CASE b \notin Blocks \cup {NoBlock} BY <1>2 DEF SavedInto, TypeOK
<1> QED BY <1>1, <1>2

-----------------------------------------------------------------------------
(* Types.                                                                  *)

\* The first states are well typed.
LEMMA InitType == Init => TInv
<1> SUFFICES ASSUME Init PROVE TInv OBVIOUS
<1>1. <<>> \in Seq(Bytes) /\ <<>> \in Seq(Blocks \cup {NoBlock}) /\ Len(<<>>) = 0 OBVIOUS
<1>2. TypeOK BY <1>1, BoundsAssumption DEF Init, TypeOK, NoFile
<1>3. SaveInv BY DEF Init, SaveInv, NoFile, Listing
<1> QED BY <1>2, <1>3 DEF TInv

\* An allocation leaves the disk and the bitmap well typed.
LEMMA NewBlockType ==
  ASSUME TypeOK, NEW b \in Blocks \cup {NoBlock}, NewBlock(b)
  PROVE /\ disk' \in [Blocks \cup {NoBlock} -> Seq(Bytes)]
        /\ bitmap' \subseteq Blocks
<1>1. CASE /\ b \in Blocks \ bitmap
           /\ \E mark \in {<<Mark>>, <<>>} : disk' = [disk EXCEPT ![b] = @ \o mark]
  <2>1. PICK mark \in {<<Mark>>, <<>>} : disk' = [disk EXCEPT ![b] = @ \o mark] BY <1>1
  <2>2. Mark \in Bytes BY DEF Bytes
  <2>3. mark \in Seq(Bytes)
    <3>1. <<Mark>> \in Seq(Bytes) /\ <<>> \in Seq(Bytes) BY <2>2
    <3> QED BY <2>1, <3>1
  <2>4. disk[b] \in Seq(Bytes) BY DEF TypeOK
  <2>5. disk[b] \o mark \in Seq(Bytes) BY <2>3, <2>4
  <2>6. disk' \in [Blocks \cup {NoBlock} -> Seq(Bytes)] BY <2>1, <2>5 DEF TypeOK
  <2>7. bitmap' \subseteq Blocks BY <1>1, BlocksAssumption DEF NewBlock, TypeOK
  <2> QED BY <2>6, <2>7
<1>2. CASE UNCHANGED <<disk, bitmap>> BY <1>2 DEF TypeOK
<1> QED BY <1>1, <1>2 DEF NewBlock

Headers == [st : {"none", "ok", "lost"}, size : Int, blocks : Seq(Blocks \cup {NoBlock})]

\* So is what every step leaves.
LEMMA StepType == TInv /\ [Next]_vars => TInv'
<1> SUFFICES ASSUME TInv, [Next]_vars PROVE TInv' OBVIOUS
<1>0. TypeOK /\ SaveInv BY DEF TInv
<1>e. <<>> \in Seq(Bytes) /\ <<>> \in Seq(Blocks \cup {NoBlock}) /\ Len(<<>>) = 0 OBVIOUS
<1>b. BlockSize \in Nat /\ BlockSize >= 2 BY BlockSizeAssumption
<1>1. ASSUME NEW f \in Files, Create(f) PROVE TInv'
  <2>1. PICK b \in Blocks \cup {NoBlock} :
          NewBlock(b) /\ header' = [header EXCEPT ![f] = File(0, <<b>>)]
    BY <1>1 DEF Create
  <2>2. <<b>> \in Seq(Blocks \cup {NoBlock}) /\ Len(<<b>>) = 1 OBVIOUS
  <2>3. header' \in [Files -> Headers] BY <1>0, <2>1, <2>2 DEF TypeOK, Headers, File
  <2>4. TypeOK' BY <1>0, <1>1, <2>1, <2>3, NewBlockType DEF TypeOK, Create, saving, Headers
  <2>5. pc[f] = "idle" BY <1>0, <1>1 DEF SaveInv, Create
  <2>6. SaveInv' BY <1>0, <1>1, <2>1, <2>2, <2>5 DEF SaveInv, Create, saving, File, Listing, TypeOK
  <2> QED BY <2>4, <2>6 DEF TInv
<1>2. ASSUME NEW f \in Files, NEW d \in Data, BeginSave(f, d) PROVE TInv'
  <2> DEFINE b == LastBlock(f)
  <2>1. d \in Seq(Bytes) /\ Len(d) \in Nat \ {0} BY DataType
  <2>2. header[f].st = "ok" /\ Len(Listing(f)) >= 1 /\ pc[f] = "idle"
    BY <1>0, <1>2 DEF BeginSave, Usable, SaveInv
  <2>3. b \in Blocks \cup {NoBlock} BY <1>0, <2>2 DEF TypeOK, Listing, LastBlock, Last
  <2>4. FreeSize(b) \in Int BY <1>0, <2>3, HeldType
  <2>5. saved' \in [Files -> Seq(Bytes)] /\ (sound => Len(saved'[f]) >= Len(d))
    BY <1>0, <1>2, <2>1 DEF TypeOK, BeginSave
  <2>c. \A g \in Files \ {f} : saved'[g] = saved[g] BY <1>0, <1>2 DEF TypeOK, BeginSave
  <2>6. data' = [data EXCEPT ![f] = d] /\ data' \in [Files -> Seq(Bytes)]
    BY <1>0, <1>2, <2>1 DEF TypeOK, BeginSave
  <2>7. saves' \in 0 .. MaxSaves BY <1>0, <1>2, BoundsAssumption DEF TypeOK, BeginSave
  <2>8. UNCHANGED <<bitmap, header, sound, crashes>> BY <1>2 DEF BeginSave
  <2>9. CASE FreeSize(b) < 0 \/ FreeSize(b) >= Len(d)
    <3>1. /\ disk' = SavedInto(b, d) /\ pc' = [pc EXCEPT ![f] = "size"]
          /\ at' = [at EXCEPT ![f] = Len(d)] /\ need' = need
      BY <1>2, <2>9 DEF BeginSave
    <3>d. disk' \in [Blocks \cup {NoBlock} -> Seq(Bytes)] BY <1>0, <2>1, <3>1, SavedType
    <3>a. at' \in [Files -> Int] /\ pc' \in [Files -> {"idle", "grow", "fill", "chunk", "size"}]
      BY <1>0, <2>1, <3>1 DEF TypeOK
    <3>2. TypeOK' BY <1>0, <2>5, <2>6, <2>7, <2>8, <3>1, <3>d, <3>a DEF TypeOK
    <3>3. SaveInv' BY <1>0, <2>2, <2>5, <2>c, <2>6, <2>8, <3>1 DEF TypeOK, SaveInv, Listing
    <3> QED BY <3>2, <3>3 DEF TInv
  <2>10. CASE ~(FreeSize(b) < 0 \/ FreeSize(b) >= Len(d))
    <3>1. /\ need' = [need EXCEPT ![f] = BlocksNeeded(Len(d) - FreeSize(b))]
          /\ at' = [at EXCEPT ![f] = FreeSize(b)]
          /\ pc' = [pc EXCEPT ![f] = "grow"] /\ disk' = disk
      BY <1>2, <2>10 DEF BeginSave
    <3>2. Len(d) - FreeSize(b) \in Nat \ {0} BY <2>1, <2>4, <2>10
    <3>3. BlocksNeeded(Len(d) - FreeSize(b)) \in Nat \ {0} BY <3>2, NeededRoom
    <3>4. TypeOK' BY <1>0, <2>4, <2>5, <2>6, <2>7, <2>8, <3>1, <3>3 DEF TypeOK
    <3>5. /\ pc'[f] = "grow" /\ data'[f] = d /\ at'[f] = FreeSize(b)
          /\ need'[f] = BlocksNeeded(Len(d) - FreeSize(b)) /\ header' = header
      BY <1>0, <2>6, <2>8, <3>1 DEF TypeOK
    <3>6. ASSUME NEW g \in Files \ {f}
          PROVE pc'[g] = pc[g] /\ data'[g] = data[g] /\ at'[g] = at[g] /\ need'[g] = need[g]
      BY <1>0, <2>6, <3>1 DEF TypeOK
    <3>7. 0 <= FreeSize(b) /\ FreeSize(b) < Len(d) BY <2>1, <2>4, <2>10
    <3>8. BlocksNeeded(Len(d) - FreeSize(b)) >= 1 BY <3>3
    <3> HIDE DEF b
    <3>9. SaveInv'
      BY <1>0, <2>2, <2>5, <2>c, <2>8, <3>5, <3>6, <3>7, <3>8 DEF SaveInv, Listing
    <3> QED BY <3>4, <3>9 DEF TInv
  <2> QED BY <2>9, <2>10
<1>3. ASSUME NEW f \in Files, AddNewBlock(f) PROVE TInv'
  <2>1. PICK b \in Blocks \cup {NoBlock} :
          NewBlock(b) /\ header' = [header EXCEPT ![f].blocks = Append(@, b)]
    BY <1>3 DEF AddNewBlock
  <2>2. pc[f] = "grow" /\ header[f].st = "ok" /\ need[f] >= 1
    BY <1>0, <1>3 DEF AddNewBlock, SaveInv
  <2>3. Append(header[f].blocks, b) \in Seq(Blocks \cup {NoBlock})
        /\ Len(Append(header[f].blocks, b)) = Len(header[f].blocks) + 1
    BY <1>0 DEF TypeOK
  <2>4. header' \in [Files -> Headers] BY <1>0, <2>1, <2>3 DEF TypeOK, Headers
  <2>5. need' = [need EXCEPT ![f] = need[f] - 1] /\ need' \in [Files -> Nat]
    BY <1>0, <1>3, <2>2 DEF TypeOK, AddNewBlock
  <2>6. TypeOK' BY <1>0, <1>3, <2>1, <2>4, <2>5, NewBlockType DEF TypeOK, AddNewBlock, Headers
  <2>7. /\ \A g \in Files : header'[g].st = header[g].st
        /\ \A g \in Files \ {f} : header'[g] = header[g]
        /\ header'[f].blocks = Append(header[f].blocks, b)
    BY <1>0, <2>1 DEF TypeOK
  <2>8. SaveInv'
    BY SMTT(30), <1>0, <1>3, <2>2, <2>3, <2>5, <2>7 DEF TypeOK, SaveInv, AddNewBlock, Listing
  <2> QED BY <2>6, <2>8 DEF TInv
<1>4. ASSUME NEW f \in Files, Fill(f) PROVE TInv'
  <2>1. /\ 0 <= at[f] /\ at[f] < Len(data[f]) /\ data[f] \in Seq(Bytes) /\ at[f] \in Int
        /\ pc[f] = "fill"
    BY <1>0, <1>4 DEF TypeOK, SaveInv, Fill
  <2>2. SubSeq(data[f], 1, at[f]) \in Seq(Bytes) BY <2>1
  <2>3. TypeOK' BY <1>0, <1>4, <2>2, SavedType DEF TypeOK, Fill
  <2>4. SaveInv' BY <1>0, <1>4, <2>1 DEF TypeOK, SaveInv, Fill, Listing
  <2> QED BY <2>3, <2>4 DEF TInv
<1>5. ASSUME NEW f \in Files, SaveChunk(f) PROVE TInv'
  <2> DEFINE left == Len(data[f]) - at[f]
             upto == IF left > BlockSize THEN at[f] + BlockSize ELSE Len(data[f])
  <2>1. /\ 0 <= at[f] /\ at[f] < Len(data[f]) /\ data[f] \in Seq(Bytes) /\ at[f] \in Int
        /\ pc[f] = "chunk"
    BY <1>0, <1>5 DEF TypeOK, SaveInv, SaveChunk
  <2>2. upto \in Nat /\ upto <= Len(data[f]) /\ at[f] + 1 \in Nat \ {0} BY <1>b, <2>1
  <2>3. SubSeq(data[f], at[f] + 1, upto) \in Seq(Bytes) BY <2>1, <2>2
  <2>4. /\ disk' = SavedInto(FirstFreeBlock(f), SubSeq(data[f], at[f] + 1, upto))
        /\ at' = [at EXCEPT ![f] = upto]
        /\ pc' = [pc EXCEPT ![f] = IF left > BlockSize THEN "chunk" ELSE "size"]
        /\ UNCHANGED <<bitmap, header, data, need, saved, sound, saves, crashes>>
    BY <1>5 DEF SaveChunk
  <2>5. left > BlockSize => upto < Len(data[f]) BY <1>b, <2>1
  <2> HIDE DEF left, upto
  <2>d. disk' \in [Blocks \cup {NoBlock} -> Seq(Bytes)] BY <1>0, <2>3, <2>4, SavedType
  <2>a. at' \in [Files -> Int] /\ pc' \in [Files -> {"idle", "grow", "fill", "chunk", "size"}]
    BY SMTT(30), <1>0, <2>2, <2>4 DEF TypeOK
  <2>6. TypeOK' BY <1>0, <2>4, <2>d, <2>a DEF TypeOK
  <2>7. SaveInv' BY SMTT(30), <1>0, <2>1, <2>2, <2>4, <2>5 DEF TypeOK, SaveInv, Listing
  <2> QED BY <2>6, <2>7 DEF TInv
<1>6. ASSUME NEW f \in Files, UpdateSize(f) PROVE TInv'
  <2>1. header[f].st = "ok" /\ Len(Listing(f)) >= 1 /\ Len(header[f].blocks) \in Nat
    BY <1>0, <1>6 DEF UpdateSize, SaveInv, TypeOK
  <2>2. LastBlock(f) \in Blocks \cup {NoBlock}
    BY <1>0, <2>1 DEF TypeOK, Listing, LastBlock, Last
  <2>3. FreeSize(LastBlock(f)) \in Int BY <1>0, <2>2, HeldType
  <2>4. (Len(header[f].blocks) - 1) * BlockSize + (BlockSize - FreeSize(LastBlock(f))) \in Int
    BY <1>b, <2>1, <2>3
  <2>5. header' \in [Files -> Headers] BY <1>0, <1>6, <2>4 DEF TypeOK, Headers, UpdateSize
  <2>6. TypeOK' BY SMTT(30), <1>0, <1>e, <1>6, <2>5 DEF TypeOK, UpdateSize, Headers
  <2>7. /\ \A g \in Files : header'[g].st = header[g].st /\ header'[g].blocks = header[g].blocks
    BY <1>0, <1>6 DEF TypeOK, UpdateSize
  <2>8. SaveInv' BY <1>0, <1>e, <1>6, <2>7 DEF TypeOK, SaveInv, UpdateSize, Listing
  <2> QED BY <2>6, <2>8 DEF TInv
<1>7. ASSUME NEW f \in Files, Delete(f) PROVE TInv'
  <2>1. disk' \in [Blocks \cup {NoBlock} -> Seq(Bytes)] BY <1>0, <1>e, <1>7 DEF TypeOK, Delete
  <2>2. header' \in [Files -> Headers] BY <1>0, <1>e, <1>7 DEF TypeOK, Headers, Delete, NoFile
  <2>3. TypeOK' BY <1>0, <1>e, <1>7, <2>1, <2>2 DEF TypeOK, Delete, Headers, saving
  <2>4. SaveInv' BY <1>0, <1>7 DEF TypeOK, SaveInv, Delete, saving, Listing, NoFile
  <2> QED BY <2>3, <2>4 DEF TInv
<1>8. CASE Crash
  <2>1. PICK ls \in SUBSET Files :
          header' = [f \in Files |-> IF f \in ls THEN LostFile ELSE header[f]]
    BY <1>8 DEF Crash
  <2>2. header' \in [Files -> Headers] BY <1>0, <1>e, <2>1 DEF TypeOK, Headers, LostFile
  <2>3. ASSUME NEW f \in Files, pc[f] # "idle", sound
        PROVE SubSeq(saved[f], 1, Len(saved[f]) - Len(data[f])) \in Seq(Bytes)
    <3>1. saved[f] \in Seq(Bytes) /\ data[f] \in Seq(Bytes) /\ Len(data[f]) <= Len(saved[f])
      BY <1>0, <2>3 DEF TypeOK, SaveInv
    <3> QED BY <3>1
  <2>4. saved' \in [Files -> Seq(Bytes)] BY <1>0, <1>8, <2>3 DEF TypeOK, Crash
  <2>5. sound' \in BOOLEAN BY <1>0, <1>8 DEF TypeOK, Crash
  <2>6. crashes' \in 0 .. MaxCrashes BY <1>0, <1>8, BoundsAssumption DEF TypeOK, Crash
  <2>7. TypeOK' BY SMTT(30), <1>0, <1>e, <1>8, <2>2, <2>4, <2>5, <2>6 DEF TypeOK, Crash, Headers, BlocksInUse
  <2>8. SaveInv' BY <1>0, <1>8, <2>1 DEF TypeOK, SaveInv, Crash, Listing, LostFile
  <2> QED BY <2>7, <2>8 DEF TInv
<1>9. CASE UNCHANGED vars
  <2>1. TypeOK' BY <1>0, <1>9 DEF TypeOK, vars
  <2>2. SaveInv' BY <1>0, <1>9 DEF SaveInv, vars, Listing
  <2> QED BY <2>1, <2>2 DEF TInv
<1> QED BY <1>1, <1>2, <1>3, <1>4, <1>5, <1>6, <1>7, <1>8, <1>9 DEF Next

\* The state of the files is well typed (TypeOK), whatever the crashes: no
\* save asks for a negative number of blocks or a piece past its data.
THEOREM Typing == Spec => []TypeOK
<1>1. TInv => TypeOK BY DEF TInv
<1> QED BY <1>1, InitType, StepType, PTL DEF Spec

-----------------------------------------------------------------------------
(* No block over its size.                                                 *)

Free(f, i)       == FreeSize(Listing(f)[i])
FullTo(f, k)     == \A i \in 1 .. k : Free(f, i) = 0
VacantFrom(f, k) == \A i \in k .. Len(Listing(f)) : Free(f, i) = BlockSize

\* While it is idle, the blocks of a file before the last are full.  While it
\* grows, they are full up to the block that had room for at bytes, the ones
\* after it are vacant, and with those to be added there will be just enough
\* of them for the rest of the data.  While the rest is placed, the first
\* block that is not full is vacant.
FileInv(f) ==
  /\ pc[f] \in {"idle", "size"} => FullTo(f, Len(Listing(f)) - 1)
  /\ pc[f] \in {"grow", "fill"} =>
       \E k \in 1 .. Len(Listing(f)) :
         /\ FullTo(f, k - 1) /\ Free(f, k) = at[f] /\ VacantFrom(f, k + 1)
         /\ Room(Len(Listing(f)) - k + need[f], Len(data[f]) - at[f])
  /\ pc[f] = "fill" => need[f] = 0
  /\ pc[f] = "chunk" =>
       \E k \in 1 .. Len(Listing(f)) :
         /\ FullTo(f, k - 1) /\ VacantFrom(f, k)
         /\ Room(Len(Listing(f)) - k + 1, Len(data[f]) - at[f])

\* No block is listed twice.
Apart ==
  \A f, g \in Files : \A i \in 1 .. Len(Listing(f)), j \in 1 .. Len(Listing(g)) :
    Listing(f)[i] = Listing(g)[j] /\ Listing(f)[i] # NoBlock => f = g /\ i = j

Assigned ==
  \A f \in Files : \A i \in 1 .. Len(Listing(f)) : Listing(f)[i] \in bitmap \cup {NoBlock}

ClearIsEmpty == \A b \in Blocks \ bitmap : disk[b] = <<>>

Sane ==
  /\ Apart /\ Assigned /\ ClearIsEmpty /\ BlocksNeverOverflow
  /\ \A f \in Files : /\ Usable(f) => FileInv(f)
                      /\ pc[f] \in {"chunk", "size"} => Usable(f)

SInv == TInv /\ (sound => Sane)

\* A usable file lists blocks only.
LEMMA UsableBlocks ==
  ASSUME TypeOK, NEW f \in Files, Usable(f), NEW i \in 1 .. Len(Listing(f))
  PROVE Listing(f)[i] \in Blocks
<1>1. Listing(f) \in Seq(Blocks \cup {NoBlock}) BY DEF TypeOK, Listing
<1>2. Listing(f)[i] \in Range(Listing(f)) BY <1>1 DEF Range
<1>3. Listing(f)[i] # NoBlock BY <1>2 DEF Usable, Listing
<1> QED BY <1>1, <1>3

\* A block within its size has room for between 0 and BLOCK_SIZE bytes.
LEMMA FreeRange ==
  ASSUME TypeOK, BlocksNeverOverflow, NEW b \in Blocks
  PROVE FreeSize(b) \in 0 .. BlockSize /\ Len(Held(b)) = BlockSize - FreeSize(b)
<1>1. Len(disk[b]) <= BlockSize /\ disk[b] \in Seq(Bytes) BY DEF TypeOK, BlocksNeverOverflow
<1>2. Len(Held(b)) <= BlockSize
  <2>1. CASE disk[b] = <<Mark>>
    <3>1. Held(b) = <<>> BY <2>1 DEF Held
    <3> QED BY <3>1, BlockSizeAssumption
  <2>2. CASE disk[b] # <<Mark>>
    <3>1. Held(b) = disk[b] BY <2>2 DEF Held
    <3> QED BY <1>1, <3>1
  <2> QED BY <2>1, <2>2
<1> QED BY <1>2, HeldType, BlockSizeAssumption

\* The first block that is not full is the one all those before which are.
LEMMA FirstFree ==
  ASSUME TypeOK, NEW f \in Files, NEW k \in 1 .. Len(Listing(f)),
         FullTo(f, k - 1), Free(f, k) # 0
  PROVE FirstFreeBlock(f) = Listing(f)[k]
<1> DEFINE bs == header[f].blocks
           open == {i \in DOMAIN bs : FreeSize(bs[i]) # 0}
<1>1. bs \in Seq(Blocks \cup {NoBlock}) BY DEF TypeOK
<1>2. k \in open BY <1>1 DEF Free, Listing
<1>3. \A i \in open : k <= i
  <2> SUFFICES ASSUME NEW i \in open, i < k PROVE FALSE BY <1>1
  <2>1. i \in 1 .. k - 1 BY <1>1
  <2> QED BY <2>1 DEF FullTo, Free, Listing
<1>4. open \subseteq Int BY <1>1
<1>5. \A i \in open : (\A j \in open : i <= j) => i = k BY <1>2, <1>3, <1>4
<1>6. (CHOOSE i \in open : \A j \in open : i <= j) = k BY <1>2, <1>3, <1>5
<1>7. FirstFreeBlock(f) = bs[CHOOSE i \in open : \A j \in open : i <= j] BY <1>2 DEF FirstFreeBlock
<1> QED BY <1>6, <1>7 DEF Listing

\* Data saved into a block with room for it.
LEMMA WriteBlock ==
  ASSUME TypeOK, NEW b \in Blocks, NEW d \in Seq(Bytes), disk' = SavedInto(b, d),
         Len(Held(b)) + Len(d) <= BlockSize
  PROVE /\ \A c \in (Blocks \cup {NoBlock}) \ {b} : disk'[c] = disk[c]
        /\ Len(disk'[b]) <= BlockSize
        /\ Len(Held(b)) + Len(d) = BlockSize => FreeSize(b)' = 0
        /\ Len(d) = 0 => FreeSize(b)' = FreeSize(b)
<1>1. Held(b) \in Seq(Bytes) /\ Held(b) # <<Mark>> BY HeldType
<1>2. disk'[b] = Held(b) \o d /\ Len(disk'[b]) = Len(Held(b)) + Len(d)
  BY <1>1 DEF TypeOK, SavedInto
<1>3. \A c \in (Blocks \cup {NoBlock}) \ {b} : disk'[c] = disk[c] BY DEF TypeOK, SavedInto
<1>4. ASSUME Len(Held(b)) + Len(d) = BlockSize PROVE FreeSize(b)' = 0
  <2>1. Len(disk'[b]) = BlockSize /\ BlockSize # 1 BY <1>2, <1>4, BlockSizeAssumption
  <2>2. disk'[b] # <<Mark>> BY <2>1
  <2>3. Held(b)' = disk'[b] BY <2>2 DEF Held
  <2> QED BY <2>1, <2>3, BlockSizeAssumption DEF FreeSize
<1>5. ASSUME Len(d) = 0 PROVE FreeSize(b)' = FreeSize(b)
  <2>1. Held(b) \o d = Held(b) BY <1>1, <1>5
  <2>2. Held(b)' = Held(b) BY <1>1, <1>2, <2>1 DEF Held
  <2> QED BY <2>2 DEF FreeSize
<1> QED BY <1>2, <1>3, <1>4, <1>5

\* A step that touches neither a file, nor its save, nor its blocks.
LEMMA FileFrame ==
  ASSUME TypeOK, NEW f \in Files, FileInv(f), Listing(f)' = Listing(f),
         pc'[f] = pc[f], need'[f] = need[f], at'[f] = at[f], data'[f] = data[f],
         \A i \in 1 .. Len(Listing(f)) : disk'[Listing(f)[i]] = disk[Listing(f)[i]]
  PROVE FileInv(f)'
<1> DEFINE n == Len(Listing(f))
<1>1. n \in Nat BY DEF TypeOK, Listing
<1>2. Len(Listing(f))' = n OBVIOUS
<1>3. \A i \in 1 .. n : Free(f, i)' = Free(f, i) BY DEF Free, FreeSize, Held
<1>4. \A k \in 1 .. n : /\ FullTo(f, k - 1) => FullTo(f, k - 1)'
                        /\ VacantFrom(f, k) => VacantFrom(f, k)'
                        /\ VacantFrom(f, k + 1) => VacantFrom(f, k + 1)'
  BY <1>1, <1>2, <1>3 DEF FullTo, VacantFrom
<1>5. FullTo(f, n - 1) => FullTo(f, n - 1)' BY <1>1, <1>3 DEF FullTo
<1> QED BY <1>1, <1>2, <1>3, <1>4, <1>5 DEF FileInv, Room

\* What saving into a block of a file does to the room in its blocks.
LEMMA WriteEffect ==
  ASSUME TypeOK, Sane, NEW f \in Files, Usable(f), NEW w \in 1 .. Len(Listing(f)),
         NEW d \in Seq(Bytes), disk' = SavedInto(Listing(f)[w], d),
         Len(d) <= Free(f, w), Listing(f)' = Listing(f)
  PROVE /\ \A i \in (1 .. Len(Listing(f))) \ {w} : Free(f, i)' = Free(f, i)
        /\ Len(d) = Free(f, w) => Free(f, w)' = 0
        /\ Len(d) = 0 => Free(f, w)' = Free(f, w)
<1>0. \A i \in 1 .. Len(Listing(f)) : Listing(f)[i] \in Blocks BY UsableBlocks
<1>1. PICK b \in Blocks : b = Listing(f)[w] BY <1>0
<1>2. FreeSize(b) \in 0 .. BlockSize /\ Len(Held(b)) = BlockSize - FreeSize(b)
  BY FreeRange DEF Sane
<1>d. Len(d) \in Nat OBVIOUS
<1>3. Len(Held(b)) + Len(d) <= BlockSize
      /\ (Len(d) = FreeSize(b) => Len(Held(b)) + Len(d) = BlockSize)
  BY <1>1, <1>2, <1>d, BlockSizeAssumption DEF Free
<1>4. /\ \A c \in (Blocks \cup {NoBlock}) \ {b} : disk'[c] = disk[c]
      /\ Len(Held(b)) + Len(d) = BlockSize => FreeSize(b)' = 0
      /\ Len(d) = 0 => FreeSize(b)' = FreeSize(b)
  BY <1>1, <1>3, WriteBlock
<1>5. ASSUME NEW i \in (1 .. Len(Listing(f))) \ {w} PROVE Free(f, i)' = Free(f, i)
  <2>1. Listing(f)[i] \in Blocks /\ Listing(f)[i] # NoBlock BY <1>0, BlocksAssumption
  <2>2. Listing(f)[i] # b BY <1>1, <2>1 DEF Sane, Apart
  <2>3. disk'[Listing(f)[i]] = disk[Listing(f)[i]] BY <1>4, <2>1, <2>2
  <2> QED BY <2>3 DEF Free, FreeSize, Held
<1>6. Free(f, w)' = FreeSize(b)' BY <1>1 DEF Free, FreeSize, Held
<1> QED BY <1>1, <1>3, <1>4, <1>5, <1>6 DEF Free

\* Data saved into a block of a file, with room for it, leaves the rest as it was.
LEMMA WriteFrame ==
  ASSUME TypeOK, Sane, NEW f \in Files, Usable(f), NEW k \in 1 .. Len(Listing(f)),
         NEW d \in Seq(Bytes), disk' = SavedInto(Listing(f)[k], d),
         Len(d) <= Free(f, k), bitmap' = bitmap, header' = header,
         \A g \in Files \ {f} : /\ pc'[g] = pc[g] /\ need'[g] = need[g]
                                /\ at'[g] = at[g] /\ data'[g] = data[g],
         FileInv(f)'
  PROVE Sane'
<1> DEFINE b == Listing(f)[k]
<1>1. b \in Blocks /\ b \in bitmap
  <2>1. b \in Blocks BY UsableBlocks
  <2>2. b \in bitmap \cup {NoBlock} BY DEF Sane, Assigned
  <2> QED BY <2>1, <2>2, BlocksAssumption
<1>2. Len(Held(b)) + Len(d) <= BlockSize
  <2>1. FreeSize(b) \in 0 .. BlockSize /\ Len(Held(b)) = BlockSize - FreeSize(b)
    BY <1>1, FreeRange DEF Sane
  <2>2. Len(d) <= FreeSize(b) BY DEF Free
  <2> QED BY <2>1, <2>2, BlockSizeAssumption
<1>3. /\ \A c \in (Blocks \cup {NoBlock}) \ {b} : disk'[c] = disk[c]
      /\ Len(disk'[b]) <= BlockSize
  BY <1>1, <1>2, WriteBlock
<1>4. Apart' /\ Assigned' BY DEF Sane, Apart, Assigned, Listing
<1>5. ClearIsEmpty' BY <1>1, <1>3 DEF Sane, ClearIsEmpty
<1>6. BlocksNeverOverflow' BY <1>3 DEF Sane, BlocksNeverOverflow
<1>7. ASSUME NEW g \in Files, Usable(g)' PROVE FileInv(g)'
  <2>1. CASE g = f BY <2>1
  <2>2. CASE g # f
    <3>1. Usable(g) /\ FileInv(g) BY <1>7 DEF Usable, Sane
    <3>2. ASSUME NEW i \in 1 .. Len(Listing(g))
          PROVE disk'[Listing(g)[i]] = disk[Listing(g)[i]]
      <4>1. Listing(g)[i] \in Blocks BY <3>1, UsableBlocks
      <4>2. Listing(g)[i] # b BY <2>2, <4>1, BlocksAssumption DEF Sane, Apart
      <4> QED BY <1>3, <4>1, <4>2
    <3>3. Listing(g)' = Listing(g) BY DEF Listing
    <3> QED BY <2>2, <3>1, <3>2, <3>3, FileFrame
  <2> QED BY <2>1, <2>2
<1>8. ASSUME NEW g \in Files, pc'[g] \in {"chunk", "size"} PROVE Usable(g)'
  <2>1. Usable(g) BY <1>8 DEF Sane
  <2> QED BY <2>1 DEF Usable
<1> QED BY <1>4, <1>5, <1>6, <1>7, <1>8 DEF Sane

\* A block newly assigned is vacant and was in no file.
LEMMA NewBlockSane ==
  ASSUME TypeOK, Sane, NEW b \in Blocks \cup {NoBlock}, NewBlock(b)
  PROVE /\ \A f \in Files : \A i \in 1 .. Len(Listing(f)) :
             disk'[Listing(f)[i]] = disk[Listing(f)[i]]
        /\ b # NoBlock => /\ FreeSize(b)' = BlockSize
                          /\ \A f \in Files : \A i \in 1 .. Len(Listing(f)) : Listing(f)[i] # b
        /\ bitmap \subseteq bitmap' /\ b \in bitmap' \cup {NoBlock}
        /\ ClearIsEmpty' /\ BlocksNeverOverflow'
<1>1. CASE b \in Blocks
  <2>1. b # NoBlock BY <1>1, BlocksAssumption
  <2>2. b \in Blocks \ bitmap /\ bitmap' = bitmap \cup {b} BY <2>1 DEF NewBlock
  <2>3. PICK mark \in {<<Mark>>, <<>>} : disk' = [disk EXCEPT ![b] = @ \o mark]
    BY <2>1 DEF NewBlock
  <2>4. disk[b] = <<>> BY <2>2 DEF Sane, ClearIsEmpty
  <2>5. disk'[b] = mark
    <3>1. Mark \in Bytes BY DEF Bytes
    <3>2. <<>> \o mark = mark BY <2>3, <3>1
    <3> QED BY <1>1, <2>3, <2>4, <3>2 DEF TypeOK
  <2>6. \A c \in (Blocks \cup {NoBlock}) \ {b} : disk'[c] = disk[c] BY <2>3 DEF TypeOK
  <2>7. ASSUME NEW f \in Files, NEW i \in 1 .. Len(Listing(f))
        PROVE Listing(f)[i] \in (Blocks \cup {NoBlock}) \ {b}
    BY <2>1, <2>2 DEF Sane, Assigned, TypeOK
  <2>8. FreeSize(b)' = BlockSize
    <3>1. Held(b)' = <<>> BY <2>3, <2>5 DEF Held
    <3> QED BY <3>1, BlockSizeAssumption DEF FreeSize
  <2>9. Len(disk'[b]) <= BlockSize
    <3>1. Len(<<Mark>>) = 1 /\ Len(<<>>) = 0 OBVIOUS
    <3>2. Len(mark) \in {0, 1} BY <2>3, <3>1
    <3>3. BlockSize \in Nat /\ 1 <= BlockSize BY BlockSizeAssumption
    <3> QED BY <2>5, <3>2, <3>3
  <2>10. BlocksNeverOverflow' BY <2>6, <2>9 DEF Sane, BlocksNeverOverflow
  <2>11. ClearIsEmpty' BY <2>2, <2>6 DEF Sane, ClearIsEmpty
  <2> QED BY <2>2, <2>6, <2>7, <2>8, <2>10, <2>11
<1>2. CASE b = NoBlock
  <2>1. UNCHANGED <<disk, bitmap>> BY <1>2, BlocksAssumption DEF NewBlock
  <2> QED BY <1>2, <2>1 DEF Sane, ClearIsEmpty, BlocksNeverOverflow
<1> QED BY <1>1, <1>2

\* CREATE gives a new file a block that nobody lists.
LEMMA CreateSane ==
  ASSUME TypeOK, SaveInv, Sane, NEW f \in Files, Create(f)
  PROVE Sane'
<1>1. PICK b \in Blocks \cup {NoBlock} :
        NewBlock(b) /\ header' = [header EXCEPT ![f] = File(0, <<b>>)]
  BY DEF Create
<1>2. /\ Listing(f)' = <<b>> /\ Len(Listing(f)') = 1 /\ Listing(f)'[1] = b /\ pc'[f] = "idle"
      /\ \A g \in Files \ {f} : header'[g] = header[g] /\ Listing(g)' = Listing(g)
      /\ pc' = pc /\ data' = data /\ need' = need /\ at' = at
  BY <1>1 DEF TypeOK, Listing, File, Create, SaveInv, saving
<1>3. Apart'
  <2> SUFFICES ASSUME NEW g \in Files, NEW h \in Files,
                      NEW i \in 1 .. Len(Listing(g)'), NEW j \in 1 .. Len(Listing(h)'),
                      Listing(g)'[i] = Listing(h)'[j], Listing(g)'[i] # NoBlock
               PROVE g = h /\ i = j
    BY DEF Apart
  <2>1. CASE g = f /\ h = f BY <1>2, <2>1 DEF Listing
  <2>2. CASE g = f /\ h # f BY <1>1, <1>2, <2>2, NewBlockSane DEF Listing
  <2>3. CASE g # f /\ h = f BY <1>1, <1>2, <2>3, NewBlockSane DEF Listing
  <2>4. CASE g # f /\ h # f BY <1>2, <2>4 DEF Sane, Apart
  <2> QED BY <2>1, <2>2, <2>3, <2>4
<1>4. Assigned'
  <2> SUFFICES ASSUME NEW g \in Files, NEW i \in 1 .. Len(Listing(g)')
               PROVE Listing(g)'[i] \in bitmap' \cup {NoBlock}
    BY DEF Assigned
  <2>1. CASE g = f BY <1>1, <1>2, <2>1, NewBlockSane DEF Listing
  <2>2. CASE g # f BY <1>1, <1>2, <2>2, NewBlockSane DEF Sane, Assigned
  <2> QED BY <2>1, <2>2
<1>5. ASSUME NEW g \in Files, Usable(g)' PROVE FileInv(g)'
  <2>1. CASE g = f
    <3>1. FullTo(f, Len(Listing(f)) - 1)' BY <1>2 DEF FullTo
    <3>2. FileInv(f)' BY <1>2, <3>1 DEF FileInv
    <3> QED BY <2>1, <3>2
  <2>2. CASE g # f
    <3>1. Usable(g) BY <1>2, <1>5, <2>2 DEF Usable
    <3>2. FileInv(g) BY <3>1 DEF Sane
    <3> QED BY <1>1, <1>2, <2>2, <3>2, NewBlockSane, FileFrame
  <2> QED BY <2>1, <2>2
<1>6. ASSUME NEW g \in Files, pc'[g] \in {"chunk", "size"} PROVE Usable(g)'
  <2>1. g # f BY <1>2, <1>6
  <2> QED BY <1>2, <1>6, <2>1 DEF Sane, Usable
<1> QED BY <1>1, <1>3, <1>4, <1>5, <1>6, NewBlockSane DEF Sane

\* The data fits in the last block, or the blocks to add are just enough for the rest.
LEMMA BeginSaveSane ==
  ASSUME TypeOK, SaveInv, Sane, NEW f \in Files, NEW d \in Data, BeginSave(f, d)
  PROVE Sane'
<1>0. /\ Usable(f) /\ pc[f] = "idle" /\ Len(Listing(f)) \in Nat \ {0}
  BY DEF BeginSave, Usable, SaveInv, TypeOK, Listing
<1>n. PICK n \in Nat \ {0} : n = Len(Listing(f)) BY <1>0
<1>4. PICK b \in Blocks : b = Listing(f)[n] BY <1>0, <1>n, UsableBlocks
<1>1. Usable(f) /\ pc[f] = "idle" /\ n \in Nat /\ n >= 1 /\ n = Len(Listing(f)) BY <1>0, <1>n
<1>2. LastBlock(f) = b BY <1>n, <1>4 DEF LastBlock, Last, Listing
<1>3. d \in Seq(Bytes) /\ Len(d) \in Nat \ {0} BY DataType
<1>5. FreeSize(b) \in 0 .. BlockSize BY <1>4, FreeRange DEF Sane
<1>6. FullTo(f, n - 1) BY <1>1 DEF Sane, FileInv
<1>7. UNCHANGED <<bitmap, header>> /\ Listing(f)' = Listing(f) /\ data'[f] = d
  BY DEF BeginSave, TypeOK, Listing
<1>8. CASE FreeSize(b) >= Len(d)
  <2>1. disk' = SavedInto(b, d) /\ pc' = [pc EXCEPT ![f] = "size"]
        /\ at' = [at EXCEPT ![f] = Len(d)] /\ need' = need
        /\ data' = [data EXCEPT ![f] = d]
    BY <1>2, <1>8 DEF BeginSave
  <2>2. \A i \in (1 .. n) \ {n} : Free(f, i)' = Free(f, i)
    BY <1>1, <1>3, <1>4, <1>7, <1>8, <2>1, WriteEffect DEF Free
  <2>3. FullTo(f, n - 1)'
    <3>1. \A i \in 1 .. n - 1 : i \in (1 .. n) \ {n} /\ Free(f, i) = 0 BY <1>1, <1>6 DEF FullTo
    <3> QED BY <2>2, <3>1 DEF FullTo
  <2>4. pc'[f] = "size" BY <2>1 DEF TypeOK
  <2>5. FileInv(f)'
    <3>1. FullTo(f, Len(Listing(f)) - 1)' BY <1>1, <1>7, <2>3
    <3> QED BY <2>4, <3>1 DEF FileInv
  <2>6. \A g \in Files \ {f} : /\ pc'[g] = pc[g] /\ need'[g] = need[g]
                               /\ at'[g] = at[g] /\ data'[g] = data[g]
    BY <2>1 DEF TypeOK
  <2>7. n \in 1 .. Len(Listing(f)) /\ Len(d) <= Free(f, n) BY <1>1, <1>4, <1>8 DEF Free
  <2>8. bitmap' = bitmap /\ header' = header BY <1>7
  <2> QED BY <1>1, <1>3, <1>4, <2>1, <2>5, <2>6, <2>7, <2>8, WriteFrame
<1>9. CASE ~(FreeSize(b) >= Len(d))
  <2>0. ~(FreeSize(b) < 0 \/ FreeSize(b) >= Len(d)) BY <1>5, <1>9, BlockSizeAssumption
  <2>1. need' = [need EXCEPT ![f] = BlocksNeeded(Len(d) - FreeSize(b))]
        /\ at' = [at EXCEPT ![f] = FreeSize(b)] /\ pc' = [pc EXCEPT ![f] = "grow"]
        /\ disk' = disk /\ data' = [data EXCEPT ![f] = d]
    BY <1>2, <2>0 DEF BeginSave
  <2>2. Len(d) - FreeSize(b) \in Nat \ {0} BY <1>3, <1>5, <1>9, BlockSizeAssumption
  <2>3. Room(BlocksNeeded(Len(d) - FreeSize(b)), Len(d) - FreeSize(b))
        /\ BlocksNeeded(Len(d) - FreeSize(b)) \in Nat
    BY <2>2, NeededRoom
  <2>4. need'[f] = BlocksNeeded(Len(d) - FreeSize(b)) /\ at'[f] = FreeSize(b) /\ pc'[f] = "grow"
    BY <2>1 DEF TypeOK
  <2>5. \A i \in 1 .. n : Free(f, i)' = Free(f, i) BY <1>7, <2>1 DEF Free, FreeSize, Held
  <2>6. FullTo(f, n - 1)' BY <1>1, <1>6, <2>5 DEF FullTo
  <2>7. VacantFrom(f, n + 1)' BY <1>1, <1>7 DEF VacantFrom
  <2>8. Free(f, n)' = at'[f] BY <1>1, <1>4, <2>4, <2>5 DEF Free
  <2>9. Room(n - n + need'[f], Len(data'[f]) - at'[f])
    <3>1. n - n + need'[f] = need'[f] BY <1>1, <2>3, <2>4
    <3> QED BY <1>7, <2>3, <2>4, <3>1
  <2>10. FileInv(f)'
    <3>1. n \in 1 .. Len(Listing(f)') /\ Len(Listing(f)') = n BY <1>1, <1>7
    <3>2. /\ FullTo(f, n - 1)' /\ Free(f, n)' = at'[f] /\ VacantFrom(f, n + 1)'
          /\ Room(Len(Listing(f)') - n + need'[f], Len(data'[f]) - at'[f])
      BY <2>6, <2>7, <2>8, <2>9, <3>1
    <3>3. \E k \in 1 .. Len(Listing(f)') :
            /\ FullTo(f, k - 1)' /\ Free(f, k)' = at'[f] /\ VacantFrom(f, k + 1)'
            /\ Room(Len(Listing(f)') - k + need'[f], Len(data'[f]) - at'[f])
      BY <3>1, <3>2 DEF FullTo, Free, VacantFrom
    <3> QED BY <2>4, <3>3 DEF FileInv, FullTo, Free, VacantFrom, Room
  <2>11. Apart' /\ Assigned' /\ ClearIsEmpty' /\ BlocksNeverOverflow'
    BY <1>7, <2>1 DEF Sane, Apart, Assigned, ClearIsEmpty, BlocksNeverOverflow, Listing
  <2>12. ASSUME NEW g \in Files, Usable(g)' PROVE FileInv(g)'
    <3>1. CASE g = f BY <2>10, <3>1
    <3>2. CASE g # f
      <4>1. Usable(g) /\ FileInv(g) BY <1>7, <2>12 DEF Sane, Usable
      <4>2. pc'[g] = pc[g] /\ need'[g] = need[g] /\ at'[g] = at[g] /\ data'[g] = data[g]
            /\ Listing(g)' = Listing(g)
        BY <1>7, <2>1, <3>2 DEF TypeOK, Listing
      <4> QED BY <2>1, <4>1, <4>2, FileFrame
    <3> QED BY <3>1, <3>2
  <2>13. ASSUME NEW g \in Files, pc'[g] \in {"chunk", "size"} PROVE Usable(g)'
    BY <1>7, <2>1, <2>13 DEF TypeOK, Sane, Usable
  <2> QED BY <2>11, <2>12, <2>13 DEF Sane
<1> QED BY <1>8, <1>9

\* The block added is vacant, and one less is needed.
LEMMA AddNewBlockSane ==
  ASSUME TypeOK, SaveInv, Sane, NEW f \in Files, AddNewBlock(f)
  PROVE Sane'
<1>1. PICK b \in Blocks \cup {NoBlock} :
        NewBlock(b) /\ header' = [header EXCEPT ![f].blocks = Append(@, b)]
  BY DEF AddNewBlock
<1>2. PICK n \in Nat : n = Len(header[f].blocks) BY DEF TypeOK
<1>3. /\ header'[f].st = header[f].st
      /\ header'[f].blocks = Append(header[f].blocks, b)
      /\ \A g \in Files \ {f} : header'[g] = header[g]
  BY <1>1 DEF TypeOK
<1>4. /\ Len(header'[f].blocks) = n + 1 /\ header'[f].blocks[n + 1] = b
      /\ \A i \in 1 .. n : header'[f].blocks[i] = header[f].blocks[i]
  BY <1>2, <1>3 DEF TypeOK
<1>5. /\ pc[f] = "grow" /\ need[f] \in Nat \ {0} /\ need'[f] = need[f] - 1
      /\ pc'[f] = (IF need[f] = 1 THEN "fill" ELSE "grow")
      /\ UNCHANGED <<data, at>>
      /\ \A g \in Files \ {f} : pc'[g] = pc[g] /\ need'[g] = need[g]
  BY DEF AddNewBlock, TypeOK, SaveInv
<1>6. Apart'
  <2> SUFFICES ASSUME NEW g \in Files, NEW h \in Files,
                      NEW i \in 1 .. Len(header'[g].blocks), NEW j \in 1 .. Len(header'[h].blocks),
                      header'[g].blocks[i] = header'[h].blocks[j], header'[g].blocks[i] # NoBlock
               PROVE g = h /\ i = j
    BY DEF Apart, Listing
  <2> DEFINE New(x, y) == x = f /\ y = n + 1
  <2>1. ASSUME NEW x \in Files, NEW y \in 1 .. Len(header'[x].blocks), ~New(x, y)
        PROVE y \in 1 .. Len(header[x].blocks) /\ header'[x].blocks[y] = header[x].blocks[y]
    <3>1. CASE x = f
      <4>1. y \in 1 .. n + 1 /\ y # n + 1 BY <1>4, <2>1, <3>1
      <4>2. y \in 1 .. n BY <4>1
      <4> QED BY <1>2, <1>4, <3>1, <4>2
    <3>2. CASE x # f BY <1>3, <3>2
    <3> QED BY <3>1, <3>2
  <2>2. CASE New(g, i) /\ New(h, j) BY <2>2
  <2>3. CASE New(g, i) /\ ~New(h, j)
    <3>1. header'[h].blocks[j] = b /\ b # NoBlock BY <1>4, <2>3
    <3>2. j \in 1 .. Len(Listing(h)) /\ Listing(h)[j] = b BY <2>1, <2>3, <3>1 DEF Listing
    <3> QED BY <1>1, <3>1, <3>2, NewBlockSane
  <2>4. CASE ~New(g, i) /\ New(h, j)
    <3>1. header'[g].blocks[i] = b /\ b # NoBlock BY <1>4, <2>4
    <3>2. i \in 1 .. Len(Listing(g)) /\ Listing(g)[i] = b BY <2>1, <2>4, <3>1 DEF Listing
    <3> QED BY <1>1, <3>1, <3>2, NewBlockSane
  <2>5. CASE ~New(g, i) /\ ~New(h, j)
    <3>1. i \in 1 .. Len(header[g].blocks) /\ header'[g].blocks[i] = header[g].blocks[i]
      BY <2>1, <2>5
    <3>2. j \in 1 .. Len(header[h].blocks) /\ header'[h].blocks[j] = header[h].blocks[j]
      BY <2>1, <2>5
    <3>3. i \in 1 .. Len(Listing(g)) /\ j \in 1 .. Len(Listing(h))
          /\ Listing(g)[i] = Listing(h)[j] /\ Listing(g)[i] # NoBlock
      BY <3>1, <3>2 DEF Listing
    <3>4. Apart BY DEF Sane
    <3> QED BY <3>3, <3>4 DEF Apart
  <2> QED BY <2>2, <2>3, <2>4, <2>5
<1>7. Assigned'
  <2> SUFFICES ASSUME NEW g \in Files, NEW i \in 1 .. Len(header'[g].blocks)
               PROVE header'[g].blocks[i] \in bitmap' \cup {NoBlock}
    BY DEF Assigned, Listing
  <2>0. bitmap \subseteq bitmap' /\ b \in bitmap' \cup {NoBlock} BY <1>1, NewBlockSane
  <2>1. CASE g = f /\ i = n + 1 BY <1>4, <2>0, <2>1
  <2>2. CASE ~(g = f /\ i = n + 1)
    <3>1. i \in 1 .. Len(header[g].blocks) /\ header'[g].blocks[i] = header[g].blocks[i]
      <4>1. CASE g = f
        <5>1. i \in 1 .. n + 1 /\ i # n + 1 BY <1>4, <2>2, <4>1
        <5>2. i \in 1 .. n BY <5>1
        <5> QED BY <1>2, <1>4, <4>1, <5>2
      <4>2. CASE g # f BY <1>3, <4>2
      <4> QED BY <4>1, <4>2
    <3> QED BY <2>0, <3>1 DEF Sane, Assigned, Listing
  <2> QED BY <2>1, <2>2
<1>8. ASSUME Usable(f)' PROVE FileInv(f)'
  <2>1. b # NoBlock BY <1>4, <1>8 DEF Usable, Range
  <2>2. Usable(f)
    <3>1. \A i \in DOMAIN header[f].blocks :
            i \in DOMAIN header'[f].blocks /\ header'[f].blocks[i] = header[f].blocks[i]
      BY <1>2, <1>3, <1>4 DEF TypeOK
    <3> QED BY <1>3, <1>8, <3>1 DEF Usable, Range
  <2>3. PICK k \in 1 .. n :
          /\ FullTo(f, k - 1) /\ Free(f, k) = at[f] /\ VacantFrom(f, k + 1)
          /\ Room(n - k + need[f], Len(data[f]) - at[f])
    BY <1>2, <1>5, <2>2 DEF Sane, FileInv, Listing
  <2>4. \A i \in 1 .. n : Free(f, i)' = Free(f, i)
    <3>1. \A i \in 1 .. n : disk'[header[f].blocks[i]] = disk[header[f].blocks[i]]
      BY <1>1, <1>2, NewBlockSane DEF Listing
    <3> QED BY <1>4, <3>1 DEF Free, FreeSize, Held, Listing
  <2>5. Free(f, n + 1)' = BlockSize
    <3>1. FreeSize(b)' = BlockSize BY <1>1, <2>1, NewBlockSane
    <3> QED BY <1>4, <3>1 DEF Free, FreeSize, Held, Listing
  <2>6. FullTo(f, k - 1)' BY <2>3, <2>4 DEF FullTo
  <2>7. VacantFrom(f, k + 1)'
    <3>1. ASSUME NEW i \in k + 1 .. n + 1 PROVE Free(f, i)' = BlockSize
      <4>1. CASE i = n + 1 BY <2>5, <4>1
      <4>2. CASE i # n + 1
        <5>1. i \in 1 .. n /\ i \in k + 1 .. Len(Listing(f)) BY <1>2, <4>2 DEF Listing
        <5> QED BY <2>3, <2>4, <5>1 DEF VacantFrom
      <4> QED BY <4>1, <4>2
    <3> QED BY <1>4, <3>1 DEF VacantFrom, Listing
  <2>8. Room(n + 1 - k + need'[f], Len(data'[f]) - at'[f])
    <3>1. n + 1 - k + need'[f] = n - k + need[f] BY <1>5
    <3> QED BY <1>5, <2>3, <3>1
  <2>9. Free(f, k)' = at'[f] /\ k \in 1 .. n + 1 BY <1>5, <2>3, <2>4
  <2>10. \E j \in 1 .. Len(Listing(f)') :
            /\ FullTo(f, j - 1)' /\ Free(f, j)' = at'[f] /\ VacantFrom(f, j + 1)'
            /\ Room(Len(Listing(f)') - j + need'[f], Len(data'[f]) - at'[f])
    <3>1. Len(Listing(f)') = n + 1 BY <1>4 DEF Listing
    <3>2. Room(Len(Listing(f)') - k + need'[f], Len(data'[f]) - at'[f]) BY <2>8, <3>1
    <3> QED BY <2>6, <2>7, <2>9, <3>1, <3>2 DEF FullTo, Free, VacantFrom
  <2>11. pc'[f] \in {"grow", "fill"} /\ (pc'[f] = "fill" => need'[f] = 0) BY <1>5
  <2> QED BY <2>10, <2>11 DEF FileInv, FullTo, Free, VacantFrom, Room
<1>9. ASSUME NEW g \in Files, Usable(g)' PROVE FileInv(g)'
  <2>1. CASE g = f BY <1>8, <1>9, <2>1
  <2>2. CASE g # f
    <3>1. Usable(g) /\ Listing(g)' = Listing(g) BY <1>3, <1>9, <2>2 DEF Usable, Listing
    <3>2. FileInv(g) BY <3>1 DEF Sane
    <3> QED BY <1>1, <1>5, <2>2, <3>1, <3>2, NewBlockSane, FileFrame
  <2> QED BY <2>1, <2>2
<1>10. ASSUME NEW g \in Files, pc'[g] \in {"chunk", "size"} PROVE Usable(g)'
  <2>1. g # f BY <1>5, <1>10
  <2> QED BY <1>3, <1>5, <1>10, <2>1 DEF Sane, Usable
<1> QED BY <1>1, <1>6, <1>7, <1>9, <1>10, NewBlockSane DEF Sane

\* The room of the block that had some is filled, and the next is vacant.
LEMMA FillSane ==
  ASSUME TypeOK, SaveInv, Sane, NEW f \in Files, Fill(f)
  PROVE Sane'
<1>1. /\ Usable(f) /\ pc[f] = "fill" /\ need[f] = 0
      /\ at[f] \in Int /\ 0 <= at[f] /\ at[f] < Len(data[f])
      /\ data[f] \in Seq(Bytes) /\ Len(data[f]) \in Nat
  BY DEF Fill, TypeOK, SaveInv, Sane, FileInv
<1>2. PICK n \in Nat : n = Len(Listing(f)) BY DEF TypeOK, Listing
<1>3. PICK k \in 1 .. n :
        /\ FullTo(f, k - 1) /\ Free(f, k) = at[f] /\ VacantFrom(f, k + 1)
        /\ Room(n - k, Len(data[f]) - at[f])
  <2>1. PICK k \in 1 .. n :
          /\ FullTo(f, k - 1) /\ Free(f, k) = at[f] /\ VacantFrom(f, k + 1)
          /\ Room(n - k + need[f], Len(data[f]) - at[f])
    BY <1>1, <1>2 DEF Sane, FileInv
  <2>2. n - k + need[f] = n - k BY <1>1
  <2> QED BY <2>1, <2>2
<1>4. n - k >= 1
  <2>1. PICK m \in Nat : m = n - k OBVIOUS
  <2>2. Len(data[f]) - at[f] > 0 /\ Len(data[f]) - at[f] <= m * BlockSize
    BY <1>1, <1>3, <2>1 DEF Room
  <2>3. m = 0 => m * BlockSize = 0 BY BlockSizeAssumption
  <2>4. m # 0 BY <1>1, <2>2, <2>3
  <2> QED BY <2>1, <2>4
<1>5. SubSeq(data[f], 1, at[f]) \in Seq(Bytes) /\ Len(SubSeq(data[f], 1, at[f])) = at[f]
  BY <1>1
<1>6. PICK d \in Seq(Bytes) : d = SubSeq(data[f], 1, at[f]) /\ Len(d) = at[f] BY <1>5
<1>7. /\ disk' = SavedInto(FirstFreeBlock(f), d)
      /\ UNCHANGED <<bitmap, header, data, need, at>> /\ Listing(f)' = Listing(f)
      /\ pc'[f] = "chunk" /\ \A g \in Files \ {f} : pc'[g] = pc[g]
  BY <1>6 DEF Fill, TypeOK, Listing
\* The block written, and what it leaves: every block up to k full.
<1>8. PICK w \in 1 .. n :
        /\ disk' = SavedInto(Listing(f)[w], d) /\ Len(d) <= Free(f, w)
        /\ FullTo(f, k)' /\ VacantFrom(f, k + 1)'
  <2>1. ASSUME NEW w \in 1 .. n, disk' = SavedInto(Listing(f)[w], d), Len(d) <= Free(f, w)
        PROVE /\ \A i \in (1 .. n) \ {w} : Free(f, i)' = Free(f, i)
              /\ Len(d) = Free(f, w) => Free(f, w)' = 0
              /\ Len(d) = 0 => Free(f, w)' = Free(f, w)
    BY <1>1, <1>2, <1>7, <2>1, WriteEffect
  <2>2. CASE at[f] = 0
    <3>1. FullTo(f, k + 1 - 1)
      <4> SUFFICES ASSUME NEW i \in 1 .. k PROVE Free(f, i) = 0 BY DEF FullTo
      <4>1. CASE i = k BY <1>3, <2>2, <4>1
      <4>2. CASE i # k BY <1>3, <4>2 DEF FullTo
      <4> QED BY <4>1, <4>2
    <3>2. k + 1 \in 1 .. n BY <1>4
    <3>3. Free(f, k + 1) = BlockSize BY <1>2, <1>3, <3>2 DEF VacantFrom
    <3>4. FirstFreeBlock(f) = Listing(f)[k + 1]
      BY <1>2, <3>1, <3>2, <3>3, FirstFree, BlockSizeAssumption
    <3>5. disk' = SavedInto(Listing(f)[k + 1], d) /\ Len(d) = 0 /\ Len(d) <= Free(f, k + 1)
      BY <1>6, <1>7, <2>2, <3>3, <3>4, BlockSizeAssumption
    <3>6. \A i \in 1 .. n : Free(f, i)' = Free(f, i) BY <2>1, <3>2, <3>5
    <3>7. FullTo(f, k)' BY <3>1, <3>6 DEF FullTo
    <3>8. VacantFrom(f, k + 1)' BY <1>2, <1>3, <1>7, <3>6 DEF VacantFrom
    <3> QED BY <3>2, <3>5, <3>7, <3>8
  <2>3. CASE at[f] # 0
    <3>1. FirstFreeBlock(f) = Listing(f)[k] BY <1>2, <1>3, <2>3, FirstFree
    <3>2. disk' = SavedInto(Listing(f)[k], d) /\ Len(d) = Free(f, k) /\ Len(d) <= Free(f, k)
      BY <1>1, <1>3, <1>6, <1>7, <3>1
    <3>3. Free(f, k)' = 0 /\ \A i \in (1 .. n) \ {k} : Free(f, i)' = Free(f, i) BY <2>1, <3>2
    <3>4. FullTo(f, k)' BY <1>3, <3>3 DEF FullTo
    <3>5. VacantFrom(f, k + 1)' BY <1>2, <1>3, <1>7, <3>3 DEF VacantFrom
    <3> QED BY <3>2, <3>4, <3>5
  <2> QED BY <2>2, <2>3
<1>9. FileInv(f)'
  <2>1. PICK p \in 1 .. n : p = k + 1 BY <1>4
  <2>2. p - 1 = k /\ n - p + 1 = n - k BY <2>1
  <2>3. FullTo(f, p - 1)' /\ VacantFrom(f, p)' BY <1>8, <2>1, <2>2
  <2>4. Room(n - p + 1, Len(data'[f]) - at'[f]) BY <1>3, <1>7, <2>2
  <2>5. \E j \in 1 .. Len(Listing(f)') :
          /\ FullTo(f, j - 1)' /\ VacantFrom(f, j)'
          /\ Room(Len(Listing(f)') - j + 1, Len(data'[f]) - at'[f])
    BY <1>2, <1>7, <2>3, <2>4 DEF FullTo, VacantFrom
  <2> QED BY <1>7, <2>5 DEF FileInv, FullTo, VacantFrom, Room
<1>10. bitmap' = bitmap /\ header' = header /\ data' = data /\ need' = need /\ at' = at BY <1>7
<1> QED BY <1>1, <1>2, <1>7, <1>8, <1>9, <1>10, WriteFrame

\* Each turn fills a vacant block, and the last one may leave room.
LEMMA SaveChunkSane ==
  ASSUME TypeOK, SaveInv, Sane, NEW f \in Files, SaveChunk(f)
  PROVE Sane'
<1>1. /\ Usable(f) /\ pc[f] = "chunk"
      /\ at[f] \in Int /\ 0 <= at[f] /\ at[f] < Len(data[f])
      /\ data[f] \in Seq(Bytes) /\ Len(data[f]) \in Nat
  BY DEF SaveChunk, TypeOK, SaveInv, Sane
<1>2. PICK n \in Nat : n = Len(Listing(f)) BY DEF TypeOK, Listing
<1>3. PICK k \in 1 .. n :
        FullTo(f, k - 1) /\ VacantFrom(f, k) /\ Room(n - k + 1, Len(data[f]) - at[f])
  BY <1>1, <1>2 DEF Sane, FileInv
<1>4. Free(f, k) = BlockSize BY <1>2, <1>3 DEF VacantFrom
<1>5. FirstFreeBlock(f) = Listing(f)[k]
  BY <1>2, <1>3, <1>4, FirstFree, BlockSizeAssumption
<1>6. PICK left \in Nat \ {0} : left = Len(data[f]) - at[f] BY <1>1
<1>7. PICK upto \in Nat : upto = IF left > BlockSize THEN at[f] + BlockSize ELSE Len(data[f])
  BY <1>1, BlockSizeAssumption
<1>8. /\ SubSeq(data[f], at[f] + 1, upto) \in Seq(Bytes)
      /\ Len(SubSeq(data[f], at[f] + 1, upto)) = upto - at[f]
  <2>1. at[f] + 1 \in Nat \ {0} /\ upto <= Len(data[f]) /\ at[f] + 1 <= upto + 1
    BY <1>1, <1>6, <1>7, BlockSizeAssumption
  <2> QED BY SMTT(30), <1>1, <1>7, <2>1
<1>9. PICK d \in Seq(Bytes) : d = SubSeq(data[f], at[f] + 1, upto) /\ Len(d) = upto - at[f]
  BY <1>8
<1>10. /\ disk' = SavedInto(Listing(f)[k], d)
       /\ UNCHANGED <<bitmap, header, data, need>> /\ Listing(f)' = Listing(f)
       /\ at'[f] = upto /\ pc'[f] = (IF left > BlockSize THEN "chunk" ELSE "size")
       /\ \A g \in Files \ {f} : pc'[g] = pc[g] /\ at'[g] = at[g]
  BY <1>5, <1>6, <1>7, <1>9 DEF SaveChunk, TypeOK, Listing
<1>b. BlockSize \in Nat /\ Len(d) \in Nat BY BlockSizeAssumption
<1>c. at[f] \in Int /\ Len(d) = upto - at[f] BY <1>1, <1>9
<1>d. Len(d) = IF left > BlockSize THEN BlockSize ELSE left
  <2>1. CASE left > BlockSize
    <3>1. upto = at[f] + BlockSize BY <1>7, <2>1
    <3> QED BY <1>b, <1>c, <2>1, <3>1
  <2>2. CASE ~(left > BlockSize)
    <3>1. upto = Len(data[f]) BY <1>7, <2>2
    <3> QED BY <1>6, <1>c, <2>2, <3>1
  <2> QED BY <2>1, <2>2
<1>11. Len(d) <= Free(f, k) BY <1>4, <1>6, <1>b, <1>d
<1>12. /\ \A i \in (1 .. n) \ {k} : Free(f, i)' = Free(f, i)
       /\ Len(d) = Free(f, k) => Free(f, k)' = 0
  BY <1>1, <1>2, <1>10, <1>11, WriteEffect
<1>13. FullTo(f, k - 1)' BY <1>3, <1>12 DEF FullTo
\* Blocks in hand and bytes left are counted by m = n - k, the blocks after k.
<1>14. PICK m \in Nat : m = n - k OBVIOUS
<1>15. m * BlockSize < left /\ left <= (m + 1) * BlockSize
  <2>1. n - k + 1 = m + 1 /\ n - k + 1 - 1 = m BY <1>14
  <2> QED BY <1>3, <1>6, <2>1 DEF Room
<1>16. m \in Nat /\ BlockSize \in Nat /\ (m + 1) * BlockSize = m * BlockSize + BlockSize
       /\ m * BlockSize \in Nat
  BY <1>14, BlockSizeAssumption
<1>17. CASE left > BlockSize
  <2>1. Len(d) = BlockSize /\ Len(data[f]) - upto = left - BlockSize
    <3>1. upto = at[f] + BlockSize BY <1>7, <1>17
    <3> QED BY <1>1, <1>6, <1>17, <1>b, <1>d, <3>1
  <2>2. m >= 1
    <3>1. m = 0 => m * BlockSize = 0 BY <1>16
    <3> QED BY <1>6, <1>15, <1>16, <1>17, <3>1
  <2>3. PICK p \in 1 .. n : p = k + 1 BY <1>14, <2>2
  <2>4. Free(f, k)' = 0 BY <1>4, <1>12, <2>1
  <2>5. FullTo(f, p - 1)'
    <3> SUFFICES ASSUME NEW i \in 1 .. p - 1 PROVE Free(f, i)' = 0 BY DEF FullTo
    <3>1. CASE i = k BY <2>4, <3>1
    <3>2. CASE i # k
      <4>1. i \in 1 .. k - 1 BY <2>3, <3>2
      <4> QED BY <1>13, <4>1 DEF FullTo
    <3> QED BY <3>1, <3>2
  <2>6. VacantFrom(f, p)'
    <3>1. \A i \in p .. n : i \in (1 .. n) \ {k} /\ Free(f, i) = BlockSize
      BY <1>2, <1>3, <2>3 DEF VacantFrom
    <3> QED BY <1>2, <1>10, <1>12, <3>1 DEF VacantFrom
  <2>7. Room(n - p + 1, Len(data'[f]) - at'[f])
    <3>1. n - p + 1 = m BY <1>14, <2>3
    <3>2. Len(data'[f]) - at'[f] = left - BlockSize BY <1>10, <2>1
    <3>3. (m - 1) * BlockSize = m * BlockSize - BlockSize BY <1>16
    <3>4. Room(m, left - BlockSize) BY <1>6, <1>15, <1>16, <3>3 DEF Room
    <3> QED BY <3>1, <3>2, <3>4
  <2>8. \E j \in 1 .. Len(Listing(f)') :
          /\ FullTo(f, j - 1)' /\ VacantFrom(f, j)'
          /\ Room(Len(Listing(f)') - j + 1, Len(data'[f]) - at'[f])
    BY <1>2, <1>10, <2>5, <2>6, <2>7 DEF FullTo, VacantFrom
  <2>9. pc'[f] = "chunk" BY <1>10, <1>17
  <2>10. FileInv(f)' BY <2>8, <2>9 DEF FileInv, FullTo, VacantFrom, Room
  <2> QED BY <1>1, <1>2, <1>10, <1>11, <2>10, WriteFrame
<1>18. CASE ~(left > BlockSize)
  <2>1. m = 0
    <3>1. m >= 1 => m * BlockSize >= BlockSize BY <1>16
    <3> QED BY <1>6, <1>15, <1>16, <1>18, <3>1
  <2>2. k = n BY <1>14, <2>1
  <2>3. pc'[f] = "size" BY <1>10, <1>18
  <2>4. FullTo(f, Len(Listing(f)) - 1)' BY <1>2, <1>10, <1>13, <2>2 DEF FullTo
  <2>5. FileInv(f)' BY <2>3, <2>4 DEF FileInv
  <2> QED BY <1>1, <1>2, <1>10, <1>11, <2>5, WriteFrame
<1> QED BY <1>17, <1>18

\* SIZE= is no matter of the blocks.
LEMMA UpdateSizeSane ==
  ASSUME TypeOK, SaveInv, Sane, NEW f \in Files, UpdateSize(f)
  PROVE Sane'
<1>1. /\ pc[f] = "size" /\ pc'[f] = "idle" /\ UNCHANGED <<disk, bitmap, need>>
      /\ \A g \in Files : /\ header'[g].st = header[g].st
                          /\ header'[g].blocks = header[g].blocks
      /\ \A g \in Files \ {f} : pc'[g] = pc[g] /\ data'[g] = data[g] /\ at'[g] = at[g]
  BY DEF UpdateSize, TypeOK
<1>2. \A g \in Files : Usable(g)' <=> Usable(g) BY <1>1 DEF Usable
<1>3. Apart' /\ Assigned' /\ ClearIsEmpty' /\ BlocksNeverOverflow'
  <2>1. Apart'
    <3>1. Apart /\ \A g \in Files : Listing(g)' = Listing(g) BY <1>1 DEF Sane, Listing
    <3> QED BY <3>1 DEF Apart
  <2>2. Assigned' BY <1>1 DEF Sane, Assigned, Listing
  <2>3. ClearIsEmpty' /\ BlocksNeverOverflow' BY <1>1 DEF Sane, ClearIsEmpty, BlocksNeverOverflow
  <2> QED BY <2>1, <2>2, <2>3
<1>4. ASSUME NEW g \in Files, Usable(g)' PROVE FileInv(g)'
  <2>0. FileInv(g) BY <1>2, <1>4 DEF Sane
  <2>1. CASE g = f
    <3>1. FullTo(f, Len(Listing(f)) - 1) BY <1>1, <2>0, <2>1 DEF FileInv
    <3>2. FullTo(f, Len(Listing(f)) - 1)'
      BY <1>1, <3>1 DEF FullTo, Free, FreeSize, Held, Listing
    <3>3. FileInv(f)' BY <1>1, <3>2 DEF FileInv
    <3> QED BY <2>1, <3>3
  <2>2. CASE g # f
    <3>1. Listing(g)' = Listing(g) BY <1>1 DEF Listing
    <3> QED BY <1>1, <2>0, <2>2, <3>1, FileFrame
  <2> QED BY <2>1, <2>2
<1>5. ASSUME NEW g \in Files, pc'[g] \in {"chunk", "size"} PROVE Usable(g)'
  <2>1. g # f BY <1>1, <1>5
  <2> QED BY <1>1, <1>2, <1>5, <2>1 DEF Sane
<1> QED BY <1>3, <1>4, <1>5 DEF Sane

\* The blocks freed are empty.
LEMMA DeleteSane ==
  ASSUME TypeOK, SaveInv, Sane, NEW f \in Files, Delete(f)
  PROVE Sane'
<1>1. /\ pc[f] = "idle" /\ UNCHANGED <<pc, data, need, at>>
      /\ disk' = [b \in DOMAIN disk |->
                    IF b \in Range(header[f].blocks) THEN <<>> ELSE disk[b]]
      /\ bitmap' = bitmap \ Range(header[f].blocks)
      /\ header'[f] = NoFile /\ \A g \in Files \ {f} : header'[g] = header[g]
  BY DEF Delete, saving, TypeOK
<1>2. ~Usable(f)' BY <1>1 DEF Usable, NoFile
<1>3. Len(header'[f].blocks) = 0 BY <1>1 DEF NoFile
<1>4. ASSUME NEW g \in Files \ {f}, NEW i \in 1 .. Len(Listing(g)), Listing(g)[i] # NoBlock
      PROVE Listing(g)[i] \notin Range(header[f].blocks)
  <2> SUFFICES ASSUME Listing(g)[i] \in Range(header[f].blocks) PROVE FALSE OBVIOUS
  <2>1. PICK j \in 1 .. Len(Listing(f)) : Listing(f)[j] = Listing(g)[i]
    <3>1. Listing(f) \in Seq(Blocks \cup {NoBlock}) BY DEF TypeOK, Listing
    <3>2. PICK j \in DOMAIN Listing(f) : Listing(f)[j] = Listing(g)[i] BY DEF Range, Listing
    <3> QED BY <3>1, <3>2
  <2>2. Apart BY DEF Sane
  <2> QED BY <1>4, <2>1, <2>2 DEF Apart
<1>5. Apart'
  <2> SUFFICES ASSUME NEW g \in Files, NEW h \in Files,
                      NEW i \in 1 .. Len(header'[g].blocks), NEW j \in 1 .. Len(header'[h].blocks),
                      header'[g].blocks[i] = header'[h].blocks[j], header'[g].blocks[i] # NoBlock
               PROVE g = h /\ i = j
    BY DEF Apart, Listing
  <2>1. g # f /\ h # f BY <1>3
  <2>2. /\ i \in 1 .. Len(Listing(g)) /\ j \in 1 .. Len(Listing(h))
        /\ Listing(g)[i] = Listing(h)[j] /\ Listing(g)[i] # NoBlock
    BY <1>1, <2>1 DEF Listing
  <2>3. Apart BY DEF Sane
  <2> QED BY <2>2, <2>3 DEF Apart
<1>6. Assigned'
  <2> SUFFICES ASSUME NEW g \in Files, NEW i \in 1 .. Len(header'[g].blocks)
               PROVE header'[g].blocks[i] \in bitmap' \cup {NoBlock}
    BY DEF Assigned, Listing
  <2>1. g # f BY <1>3
  <2>2. i \in 1 .. Len(Listing(g)) /\ header'[g].blocks[i] = Listing(g)[i] BY <1>1, <2>1 DEF Listing
  <2>3. Listing(g)[i] \in bitmap \cup {NoBlock} BY <2>2 DEF Sane, Assigned
  <2> QED BY <1>1, <1>4, <2>1, <2>2, <2>3
<1>7. ClearIsEmpty'
  <2> SUFFICES ASSUME NEW b \in Blocks \ bitmap' PROVE disk'[b] = <<>> BY DEF ClearIsEmpty
  <2> QED BY <1>1 DEF Sane, ClearIsEmpty, TypeOK
<1>8. BlocksNeverOverflow'
  <2>1. Len(<<>>) = 0 /\ 0 <= BlockSize BY BlockSizeAssumption
  <2> QED BY <1>1, <2>1 DEF Sane, BlocksNeverOverflow, TypeOK
<1>9. ASSUME NEW g \in Files, Usable(g)' PROVE FileInv(g)'
  <2>1. g # f BY <1>2, <1>9
  <2>2. Usable(g) /\ Listing(g)' = Listing(g) BY <1>1, <1>9, <2>1 DEF Usable, Listing
  <2>3. ASSUME NEW i \in 1 .. Len(Listing(g)) PROVE disk'[Listing(g)[i]] = disk[Listing(g)[i]]
    <3>1. Listing(g)[i] \in Blocks BY <2>2, UsableBlocks
    <3>2. Listing(g)[i] \notin Range(header[f].blocks) BY <1>4, <2>1, <3>1, BlocksAssumption
    <3> QED BY <1>1, <3>1, <3>2 DEF TypeOK
  <2>4. FileInv(g) BY <2>2 DEF Sane
  <2> QED BY <1>1, <2>2, <2>3, <2>4, FileFrame
<1>10. ASSUME NEW g \in Files, pc'[g] \in {"chunk", "size"} PROVE Usable(g)'
  <2>1. g # f BY <1>1, <1>10
  <2> QED BY <1>1, <1>10, <2>1 DEF Sane, Usable
<1> QED BY <1>5, <1>6, <1>7, <1>8, <1>9, <1>10 DEF Sane

\* A crash that hits no save and leaves no listed block without its bit.
LEMMA CrashSane ==
  ASSUME TypeOK, SaveInv, Sane, Crash, sound'
  PROVE Sane'
<1>1. /\ \A f \in Files : /\ pc[f] = "idle"
                          /\ \A b \in Range(header[f].blocks) : disk[b] # <<>>
      /\ disk' = disk /\ bitmap' = BlocksInUse
      /\ pc' = [f \in Files |-> "idle"]
  BY DEF Crash
<1>2. header' = header
  <2>1. PICK ls \in SUBSET {f \in Files : pc[f] \in {"grow", "size"}} :
          header' = [f \in Files |-> IF f \in ls THEN LostFile ELSE header[f]]
    BY DEF Crash
  <2>2. ls = {} BY <1>1
  <2> QED BY <2>1, <2>2 DEF TypeOK
<1>3. Apart' BY <1>2 DEF Sane, Apart, Listing
<1>4. Assigned'
  <2> SUFFICES ASSUME NEW f \in Files, NEW i \in 1 .. Len(Listing(f))
               PROVE Listing(f)[i] \in bitmap' \cup {NoBlock}
    BY <1>2 DEF Assigned, Listing
  <2>1. Listing(f)[i] \in Blocks \cup {NoBlock} /\ Listing(f)[i] \in Range(header[f].blocks)
    BY DEF TypeOK, Listing, Range
  <2> QED BY <1>1, <2>1 DEF BlocksInUse
<1>5. ClearIsEmpty' BY <1>1 DEF ClearIsEmpty, BlocksInUse
<1>6. BlocksNeverOverflow' BY <1>1 DEF Sane, BlocksNeverOverflow
<1>7. ASSUME NEW f \in Files, Usable(f)' PROVE FileInv(f)'
  <2>1. FileInv(f) BY <1>2, <1>7 DEF Sane, Usable
  <2>2. FullTo(f, Len(Listing(f)) - 1) BY <1>1, <2>1 DEF FileInv
  <2>3. FullTo(f, Len(Listing(f)) - 1)'
    BY <1>1, <1>2, <2>2 DEF FullTo, Free, FreeSize, Held, Listing
  <2> QED BY <1>1, <2>3 DEF FileInv
<1>8. \A f \in Files : pc'[f] = "idle" BY <1>1
<1> QED BY <1>3, <1>4, <1>5, <1>6, <1>7, <1>8 DEF Sane

\* No file has a block yet.
LEMMA InitSane == Init => Sane
<1> SUFFICES ASSUME Init PROVE Sane OBVIOUS
<1>1. /\ disk = [b \in Blocks \cup {NoBlock} |-> <<>>] /\ bitmap = {}
      /\ \A f \in Files : Listing(f) = <<>> /\ pc[f] = "idle" /\ ~Usable(f)
  BY DEF Init, NoFile, Listing, Usable
<1>2. Len(<<>>) = 0 /\ 0 <= BlockSize BY BlockSizeAssumption
<1>3. Apart /\ Assigned BY <1>1, <1>2 DEF Apart, Assigned
<1>4. ClearIsEmpty /\ BlocksNeverOverflow BY <1>1, <1>2 DEF ClearIsEmpty, BlocksNeverOverflow
<1> QED BY <1>1, <1>3, <1>4 DEF Sane

\* Every step leaves the blocks as they should be, until a crash hits a save.
LEMMA StepSane == SInv /\ [Next]_vars => SInv'
<1> SUFFICES ASSUME SInv, [Next]_vars PROVE SInv' OBVIOUS
<1>1. TInv /\ TypeOK /\ SaveInv /\ TInv' BY StepType DEF SInv, TInv
<1> SUFFICES ASSUME sound' PROVE Sane' BY <1>1 DEF SInv
<1>2. sound
  <2>1. CASE Crash BY <2>1 DEF Crash, TypeOK
  <2>2. CASE UNCHANGED sound BY <2>2
  <2> QED BY <2>1, <2>2 DEF Next, Create, BeginSave, AddNewBlock, Fill, SaveChunk,
                            UpdateSize, Delete, vars
<1>3. Sane BY <1>2 DEF SInv
<1>4. ASSUME NEW f \in Files, Create(f) PROVE Sane' BY <1>1, <1>3, <1>4, CreateSane
<1>5. ASSUME NEW f \in Files, NEW d \in Data, BeginSave(f, d) PROVE Sane'
  BY <1>1, <1>3, <1>5, BeginSaveSane
<1>6. ASSUME NEW f \in Files, AddNewBlock(f) PROVE Sane' BY <1>1, <1>3, <1>6, AddNewBlockSane
<1>7. ASSUME NEW f \in Files, Fill(f) PROVE Sane' BY <1>1, <1>3, <1>7, FillSane
<1>8. ASSUME NEW f \in Files, SaveChunk(f) PROVE Sane' BY <1>1, <1>3, <1>8, SaveChunkSane
<1>9. ASSUME NEW f \in Files, UpdateSize(f) PROVE Sane' BY <1>1, <1>3, <1>9, UpdateSizeSane
<1>10. ASSUME NEW f \in Files, Delete(f) PROVE Sane' BY <1>1, <1>3, <1>10, DeleteSane
<1>11. CASE Crash BY <1>1, <1>3, <1>11, CrashSane
<1>12. CASE UNCHANGED vars
  <2>1. UNCHANGED <<disk, bitmap, header, pc, data, need, at>> BY <1>12 DEF vars
  <2>2. Apart' BY <1>3, <2>1 DEF Sane, Apart, Listing
  <2>3. Assigned' BY <1>3, <2>1 DEF Sane, Assigned, Listing
  <2>4. ClearIsEmpty' /\ BlocksNeverOverflow'
    BY <1>3, <2>1 DEF Sane, ClearIsEmpty, BlocksNeverOverflow
  <2>5. ASSUME NEW f \in Files, Usable(f)' PROVE FileInv(f)'
    <3>1. FileInv(f) BY <1>3, <2>1, <2>5 DEF Sane, Usable
    <3>2. Listing(f)' = Listing(f) BY <2>1 DEF Listing
    <3> QED BY <1>1, <2>1, <3>1, <3>2, FileFrame
  <2>6. ASSUME NEW f \in Files, pc'[f] \in {"chunk", "size"} PROVE Usable(f)'
    BY <1>3, <2>1, <2>6 DEF Sane, Usable
  <2> QED BY <2>2, <2>3, <2>4, <2>5, <2>6 DEF Sane
<1> QED BY <1>4, <1>5, <1>6, <1>7, <1>8, <1>9, <1>10, <1>11, <1>12 DEF Next

\* Until a crash hits a save or finds a listed block empty, b_saveData gives
\* no block more than BLOCK_SIZE bytes (BlocksFit): the blocks it adds are
\* exactly enough, and the first that is not full is always the next to fill.
THEOREM Fits == Spec => []BlocksFit
<1>1. Init => SInv BY InitType, InitSane DEF SInv
<1>2. SInv => BlocksFit BY DEF SInv, Sane, BlocksFit
<1> QED BY <1>1, <1>2, StepSane, PTL DEF Spec

-----------------------------------------------------------------------------
(* Pieces put one after the other.  Induction over a list is by the least  *)
(* number it would fail at.                                                *)

\* A set of numbers that is not empty has a least one.
LEMMA Least == ASSUME NEW T \in SUBSET Nat, T # {} PROVE \E n \in T : \A m \in T : n <= m
<1> DEFINE R == OpToRel(<, Nat)
<1>1. IsWellFoundedOn(R, Nat) BY NatLessThanWellFounded
<1>2. PICK n \in T : \A m \in T : ~(<<m, n>> \in R) BY <1>1, WFMin
<1>3. \A m \in T : ~(m < n) BY <1>2 DEF OpToRel
<1> QED BY <1>3

\* Induction from l up to m, over a set of numbers.
LEMMA Induct ==
  ASSUME NEW l \in Nat, NEW m \in Nat, NEW Good, l \in Good,
         \A n \in l .. m : n < m /\ n \in Good => n + 1 \in Good
  PROVE  \A n \in l .. m : n \in Good
<1> DEFINE Bad == {n \in l .. m : n \notin Good}
<1> SUFFICES ASSUME Bad # {} PROVE FALSE OBVIOUS
<1>1. Bad \in SUBSET Nat OBVIOUS
<1>2. PICK n \in Bad : \A o \in Bad : n <= o
  <2> HIDE DEF Bad
  <2> QED BY <1>1, Least
<1>3. n # l BY <1>2
<1>4. n - 1 \in l .. m /\ n - 1 < m /\ n - 1 \notin Bad BY <1>2, <1>3
<1>5. n - 1 + 1 \in Good BY <1>4
<1> QED BY <1>2, <1>3, <1>5

\* The first pieces of a list, put one after the other: what FlattenSeq is built from.
Joined(s) ==
  LET flatten[i \in 1 .. Len(s)] == IF i = 1 THEN s[i] ELSE flatten[i - 1] \o s[i]
  IN  flatten

\* Joined is what its recursive definition says: there is such a function.
LEMMA JoinedDefined ==
  ASSUME NEW s, Len(s) \in Nat
  PROVE  Joined(s) = [i \in 1 .. Len(s) |-> IF i = 1 THEN s[i] ELSE Joined(s)[i - 1] \o s[i]]
<1> DEFINE Is(g, m) == g = [i \in 1 .. m |-> IF i = 1 THEN s[i] ELSE g[i - 1] \o s[i]]
           Good == {m \in 0 .. Len(s) : \E g : Is(g, m)}
<1>1. 0 \in Good
  <2>1. Is([i \in 1 .. 0 |-> <<>>], 0) OBVIOUS
  <2>2. 0 \in 0 .. Len(s) OBVIOUS
  <2> HIDE DEF Is
  <2> QED BY <2>1, <2>2
<1>2. ASSUME NEW m \in 0 .. Len(s), m < Len(s), m \in Good PROVE m + 1 \in Good
  <2>1. PICK g : Is(g, m) BY <1>2
  <2> DEFINE k == m + 1
             h == [i \in 1 .. k |->
                     IF i = k THEN IF k = 1 THEN s[k] ELSE g[m] \o s[k] ELSE g[i]]
  <2>2. ASSUME NEW i \in 1 .. k PROVE h[i] = IF i = 1 THEN s[i] ELSE h[i - 1] \o s[i]
    <3>1. CASE i = k
      <4>1. i # 1 => i - 1 \in 1 .. k /\ i - 1 # k /\ i - 1 = m BY <3>1
      <4>2. i # 1 => h[i - 1] = g[m] BY <4>1
      <4>3. h[i] = IF i = 1 THEN s[i] ELSE g[m] \o s[i] BY <3>1
      <4> QED BY <4>2, <4>3
    <3>2. CASE i # k
      <4>1. i \in 1 .. m /\ (i # 1 => i - 1 \in 1 .. m /\ i - 1 \in 1 .. k /\ i - 1 # k)
        BY <3>2
      <4>2. g[i] = IF i = 1 THEN s[i] ELSE g[i - 1] \o s[i] BY <2>1, <4>1
      <4>3. h[i] = g[i] BY <3>2
      <4>4. i # 1 => h[i - 1] = g[i - 1] BY <4>1
      <4> QED BY <4>2, <4>3, <4>4
    <3> QED BY <3>1, <3>2
  <2>3. Is(h, k)
    <3> DEFINE again == [i \in 1 .. k |-> IF i = 1 THEN s[i] ELSE h[i - 1] \o s[i]]
    <3>1. \A i \in 1 .. k : h[i] = again[i]
      <4> HIDE DEF h
      <4> QED BY <2>2
    <3> QED BY <3>1
  <2>4. k \in 0 .. Len(s) BY <1>2
  <2> HIDE DEF h
  <2> QED BY <2>3, <2>4
<1>3. Len(s) \in Good
  <2>1. Len(s) \in 0 .. Len(s) /\ 0 \in Nat OBVIOUS
  <2> HIDE DEF Good
  <2> QED BY <1>1, <1>2, <2>1, Induct
<1>4. PICK known : Is(known, Len(s)) BY <1>3
<1>5. Joined(s) = CHOOSE j : Is(j, Len(s)) BY DEF Joined
<1> HIDE DEF Is
<1>6. Is(CHOOSE j : Is(j, Len(s)), Len(s)) BY <1>4
<1> QED BY <1>5, <1>6 DEF Is

\* Lists of pieces, each a sequence over T.
Lists(T) == Seq(Seq(T))

\* A list of pieces.
LEMMA ListsType ==
  ASSUME NEW T, NEW s \in Lists(T)
  PROVE  /\ Len(s) \in Nat /\ (Len(s) = 0 => s = <<>>)
         /\ \A i \in 1 .. Len(s) : s[i] \in Seq(T)
BY DEF Lists

\* The first k pieces.
Leading(s, k) == IF k = 0 THEN <<>> ELSE Joined(s)[k]

\* One piece more; and FlattenSeq is all of them.
LEMMA LeadingSteps ==
  ASSUME NEW T, NEW s \in Lists(T)
  PROVE  /\ Leading(s, 0) = <<>>
         /\ \A k \in 0 .. Len(s) - 1 : Leading(s, k + 1) = Leading(s, k) \o s[k + 1]
         /\ FlattenSeq(s) = Leading(s, Len(s))
<1>l. Len(s) \in Nat /\ \A i \in 1 .. Len(s) : s[i] \in Seq(T) BY ListsType
<1>1. Leading(s, 0) = <<>> BY DEF Leading
<1>2. ASSUME NEW p \in 0 .. Len(s) - 1 PROVE Leading(s, p + 1) = Leading(s, p) \o s[p + 1]
  <2>0. PICK k \in 1 .. Len(s) : k = p + 1 /\ k - 1 = p OBVIOUS
  <2>1. Joined(s)[k] = IF k = 1 THEN s[k] ELSE Joined(s)[k - 1] \o s[k]
    <3>1. Len(s) \in Nat OBVIOUS
    <3> DEFINE J == Joined(s)
    <3>2. J = [i \in 1 .. Len(s) |-> IF i = 1 THEN s[i] ELSE J[i - 1] \o s[i]]
      BY <3>1, JoinedDefined
    <3> HIDE DEF J
    <3>3. J[k] = IF k = 1 THEN s[k] ELSE J[k - 1] \o s[k] BY <3>2
    <3> QED BY <3>3 DEF J
  <2>2. CASE k = 1
    <3>1. s[1] \in Seq(T) BY <1>l, <2>2
    <3>2. <<>> \o s[1] = s[1] BY <3>1, ConcatEmptySeq
    <3>3. p = 0 /\ k # 0 BY <2>0, <2>2
    <3>4. Leading(s, k) = Joined(s)[k] /\ Leading(s, p) = <<>> BY <3>3 DEF Leading
    <3> QED BY <2>0, <2>1, <2>2, <3>2, <3>4
  <2>3. CASE k # 1
    <3>1. p # 0 /\ p + 1 # 0 BY <2>0, <2>3
    <3>2. Leading(s, k) = Joined(s)[k] /\ Leading(s, p) = Joined(s)[p] BY <2>0, <3>1 DEF Leading
    <3> QED BY <2>0, <2>1, <2>3, <3>2
  <2> QED BY <2>2, <2>3
<1>3. FlattenSeq(s) = Leading(s, Len(s))
  <2>1. CASE Len(s) = 0
    <3>1. s = <<>> BY <2>1
    <3> QED BY <2>1, <3>1 DEF FlattenSeq, Leading
  <2>2. CASE Len(s) # 0 BY <2>2 DEF FlattenSeq, Leading, Joined
  <2> QED BY <2>1, <2>2
<1> QED BY <1>1, <1>2, <1>3

\* The first pieces make a sequence.
LEMMA LeadingType ==
  ASSUME NEW T, NEW s \in Lists(T), NEW k \in 0 .. Len(s)
  PROVE  Leading(s, k) \in Seq(T)
<1>l. Len(s) \in Nat /\ \A i \in 1 .. Len(s) : s[i] \in Seq(T) BY ListsType
<1>s. /\ Leading(s, 0) = <<>>
      /\ \A n \in 0 .. Len(s) - 1 : Leading(s, n + 1) = Leading(s, n) \o s[n + 1]
  BY LeadingSteps
<1> DEFINE Good == {n \in 0 .. Len(s) : Leading(s, n) \in Seq(T)}
<1>1. 0 \in Good
  <2>1. Leading(s, 0) = <<>> /\ <<>> \in Seq(T) /\ 0 \in 0 .. Len(s) BY <1>s
  <2> QED BY <2>1
<1>2. ASSUME NEW n \in 0 .. Len(s), n < Len(s), n \in Good PROVE n + 1 \in Good
  <2>0. n \in 0 .. Len(s) - 1 BY <1>2
  <2>1. n + 1 \in 1 .. Len(s) /\ n + 1 - 1 = n BY <1>2
  <2>2. Leading(s, n + 1) = Leading(s, n) \o s[n + 1] BY <1>s, <2>0
  <2>3. Leading(s, n) \in Seq(T) /\ s[n + 1] \in Seq(T) BY <1>l, <1>2, <2>1
  <2>4. Leading(s, n) \o s[n + 1] \in Seq(T) BY <2>3, ConcatProperties
  <2>5. Leading(s, n + 1) \in Seq(T) BY <2>2, <2>4
  <2> QED BY <2>1, <2>5
<1> HIDE DEF Good
<1>3. Len(s) \in Nat OBVIOUS
<1>4. k \in Good BY <1>1, <1>2, <1>3, Induct
<1> QED BY <1>4 DEF Good

\* Lists that agree as far as m have the same first m pieces.
LEMMA LeadingSame ==
  ASSUME NEW T, NEW s \in Lists(T), NEW t \in Lists(T),
         NEW m \in Nat, m <= Len(s), m <= Len(t), \A i \in 1 .. m : s[i] = t[i]
  PROVE  Leading(s, m) = Leading(t, m)
<1>l. Len(s) \in Nat /\ \A i \in 1 .. Len(s) : s[i] \in Seq(T) BY ListsType
<1>k. Len(t) \in Nat /\ \A i \in 1 .. Len(t) : t[i] \in Seq(T) BY ListsType
<1>s. /\ Leading(s, 0) = <<>>
      /\ \A n \in 0 .. Len(s) - 1 : Leading(s, n + 1) = Leading(s, n) \o s[n + 1]
  BY LeadingSteps
<1>t. /\ Leading(t, 0) = <<>>
      /\ \A n \in 0 .. Len(t) - 1 : Leading(t, n + 1) = Leading(t, n) \o t[n + 1]
  BY LeadingSteps
<1> DEFINE Good == {n \in 0 .. m : Leading(s, n) = Leading(t, n)}
<1>1. 0 \in Good
  <2>1. Leading(s, 0) = Leading(t, 0) /\ 0 \in 0 .. m BY <1>s, <1>t
  <2> QED BY <2>1
<1>2. ASSUME NEW n \in 0 .. m, n < m, n \in Good PROVE n + 1 \in Good
  <2>0. n \in 0 .. Len(s) - 1 /\ n \in 0 .. Len(t) - 1 BY <1>2
  <2>1. n + 1 \in 1 .. m /\ n + 1 \in 1 .. Len(s) /\ n + 1 \in 1 .. Len(t) /\ n + 1 - 1 = n
    BY <1>2
  <2>2. Leading(s, n + 1) = Leading(s, n) \o s[n + 1] BY <1>s, <2>0
  <2>3. Leading(t, n + 1) = Leading(t, n) \o t[n + 1] BY <1>t, <2>0
  <2>4. Leading(s, n) = Leading(t, n) /\ s[n + 1] = t[n + 1] BY <1>2, <2>1
  <2>5. Leading(s, n + 1) = Leading(t, n + 1) BY <2>2, <2>3, <2>4
  <2> QED BY <2>1, <2>5
<1> HIDE DEF Good
<1>3. 0 \in Nat /\ m \in 0 .. m OBVIOUS
<1>4. m \in Good BY <1>1, <1>2, <1>3, Induct
<1> QED BY <1>4 DEF Good

\* Vacant pieces add nothing.
LEMMA LeadingVacant ==
  ASSUME NEW T, NEW s \in Lists(T), NEW k \in 0 .. Len(s),
         \A i \in k + 1 .. Len(s) : s[i] = <<>>
  PROVE  FlattenSeq(s) = Leading(s, k)
<1>l. Len(s) \in Nat /\ \A i \in 1 .. Len(s) : s[i] \in Seq(T) BY ListsType
<1>s. /\ Leading(s, 0) = <<>>
      /\ \A n \in 0 .. Len(s) - 1 : Leading(s, n + 1) = Leading(s, n) \o s[n + 1]
  BY LeadingSteps
<1> DEFINE Good == {n \in k .. Len(s) : Leading(s, n) = Leading(s, k)}
<1>1. k \in Good OBVIOUS
<1>2. ASSUME NEW n \in k .. Len(s), n < Len(s), n \in Good PROVE n + 1 \in Good
  <2>0. n \in 0 .. Len(s) - 1 BY <1>2
  <2>1. n + 1 \in 1 .. Len(s) /\ n + 1 \in k + 1 .. Len(s) /\ n + 1 - 1 = n BY <1>2
  <2>2. Leading(s, n + 1) = Leading(s, n) \o s[n + 1] BY <1>s, <2>0
  <2>3. Leading(s, k) \in Seq(T) BY LeadingType
  <2>4. Leading(s, k) \o <<>> = Leading(s, k) BY <2>3, ConcatEmptySeq
  <2>5. Leading(s, n) = Leading(s, k) /\ s[n + 1] = <<>> BY <1>2, <2>1
  <2>6. Leading(s, n + 1) = Leading(s, k) BY <2>2, <2>4, <2>5
  <2> QED BY <2>1, <2>6
<1>3. Len(s) \in Nat /\ Len(s) \in k .. Len(s) /\ k \in Nat OBVIOUS
<1> HIDE DEF Good
<1>4. Len(s) \in Good BY <1>1, <1>2, <1>3, Induct
<1> QED BY <1>4, LeadingSteps DEF Good

\* Pieces of the same length.
LEMMA LeadingLength ==
  ASSUME NEW T, NEW s \in Lists(T), NEW B \in Nat, NEW k \in 0 .. Len(s),
         \A i \in 1 .. k : Len(s[i]) = B
  PROVE  Len(Leading(s, k)) = k * B
<1>l. Len(s) \in Nat /\ \A i \in 1 .. Len(s) : s[i] \in Seq(T) BY ListsType
<1>s. /\ Leading(s, 0) = <<>>
      /\ \A n \in 0 .. Len(s) - 1 : Leading(s, n + 1) = Leading(s, n) \o s[n + 1]
  BY LeadingSteps
<1> DEFINE Good == {n \in 0 .. k : Len(Leading(s, n)) = n * B}
<1>1. 0 \in Good
  <2>1. Len(Leading(s, 0)) = 0 /\ 0 * B = 0 /\ 0 \in 0 .. k BY <1>s
  <2> QED BY <2>1
<1>2. ASSUME NEW n \in 0 .. k, n < k, n \in Good PROVE n + 1 \in Good
  <2>0. n \in 0 .. Len(s) - 1 BY <1>2
  <2>1. n + 1 \in 1 .. Len(s) /\ n + 1 \in 1 .. k /\ n + 1 - 1 = n /\ n \in 0 .. Len(s) BY <1>2
  <2>2. Leading(s, n + 1) = Leading(s, n) \o s[n + 1] BY <1>s, <2>0
  <2>3. Leading(s, n) \in Seq(T) /\ s[n + 1] \in Seq(T) BY <1>l, <2>1, LeadingType
  <2>4. Len(Leading(s, n + 1)) = n * B + B BY <1>2, <2>1, <2>2, <2>3
  <2>5. (n + 1) * B = n * B + B OBVIOUS
  <2> QED BY <2>1, <2>4, <2>5
<1> HIDE DEF Good
<1>3. 0 \in Nat /\ k \in Nat /\ k \in 0 .. k OBVIOUS
<1>4. k \in Good BY <1>1, <1>2, <1>3, Induct
<1> QED BY <1>4 DEF Good

\* What a sequence begins with.
Begins(u, v, T) == \E e \in Seq(T) : v = u \o e

\* The first pieces are where the whole begins.
LEMMA LeadingBegins ==
  ASSUME NEW T, NEW s \in Lists(T), NEW k \in 0 .. Len(s)
  PROVE  Begins(Leading(s, k), FlattenSeq(s), T)
<1>l. Len(s) \in Nat /\ \A i \in 1 .. Len(s) : s[i] \in Seq(T) BY ListsType
<1>s. /\ Leading(s, 0) = <<>>
      /\ \A n \in 0 .. Len(s) - 1 : Leading(s, n + 1) = Leading(s, n) \o s[n + 1]
  BY LeadingSteps
<1> DEFINE Good == {n \in k .. Len(s) : Begins(Leading(s, k), Leading(s, n), T)}
<1>0. Leading(s, k) \in Seq(T) BY LeadingType
<1>1. k \in Good
  <2>1. Leading(s, k) \o <<>> = Leading(s, k) /\ <<>> \in Seq(T)
    BY <1>0, ConcatEmptySeq
  <2>2. k \in k .. Len(s) OBVIOUS
  <2>3. Leading(s, k) = Leading(s, k) \o <<>> BY <2>1
  <2>4. Begins(Leading(s, k), Leading(s, k), T) BY <2>1, <2>3 DEF Begins
  <2> QED BY <2>2, <2>4
<1>2. ASSUME NEW n \in k .. Len(s), n < Len(s), n \in Good PROVE n + 1 \in Good
  <2>0. n \in 0 .. Len(s) - 1 BY <1>2
  <2>1. n + 1 \in 1 .. Len(s) /\ n + 1 \in k .. Len(s) /\ n + 1 - 1 = n BY <1>2
  <2>2. Leading(s, n + 1) = Leading(s, n) \o s[n + 1] BY <1>s, <2>0
  <2>3. PICK e \in Seq(T) : Leading(s, n) = Leading(s, k) \o e BY <1>2 DEF Begins
  <2>4. s[n + 1] \in Seq(T) BY <1>l, <2>1
  <2> DEFINE more == s[n + 1]
  <2>5. (Leading(s, k) \o e) \o more = Leading(s, k) \o (e \o more) /\ e \o more \in Seq(T)
    <3> HIDE DEF more
    <3>1. more \in Seq(T) BY <2>4 DEF more
    <3> QED BY SMTT(30), <1>0, <3>1, ConcatAssociative, ConcatProperties
  <2>6. Leading(s, n + 1) = Leading(s, k) \o (e \o more) BY <2>2, <2>3, <2>5
  <2> HIDE DEF more
  <2>7. Begins(Leading(s, k), Leading(s, n + 1), T) BY <2>5, <2>6 DEF Begins
  <2> QED BY <2>1, <2>7
<1>3. Len(s) \in Nat /\ Len(s) \in k .. Len(s) /\ k \in Nat OBVIOUS
<1> HIDE DEF Good
<1>4. Len(s) \in Good BY <1>1, <1>2, <1>3, Induct
<1> QED BY <1>4, LeadingSteps DEF Good

\* Three pieces, one after the other.
LEMMA InTurn ==
  ASSUME NEW T, NEW u, NEW v, NEW w, u \in Seq(T), v \in Seq(T), w \in Seq(T)
  PROVE  (u \o v) \o w = u \o (v \o w)
BY ConcatAssociative

\* A piece of s goes on in t, with nothing after it.
GoesOn(s, t, k, d) ==
  /\ Len(t) = Len(s)
  /\ t[k] = s[k] \o d
  /\ \A i \in (1 .. Len(s)) \ {k} : t[i] = s[i]
  /\ \A i \in k + 1 .. Len(s) : s[i] = <<>>

\* A list whose last piece that holds something goes on, goes on with it.
LEMMA FlattenMore ==
  ASSUME NEW T, NEW s \in Lists(T), NEW t \in Lists(T), NEW d \in Seq(T),
         NEW k \in 1 .. Len(s), GoesOn(s, t, k, d)
  PROVE  FlattenSeq(t) = FlattenSeq(s) \o d
<1>l. /\ Len(s) \in Nat /\ Len(t) = Len(s)
      /\ \A i \in 1 .. Len(s) : s[i] \in Seq(T) /\ t[i] \in Seq(T)
  <2>1. Len(s) \in Nat /\ \A i \in 1 .. Len(s) : s[i] \in Seq(T) BY ListsType
  <2>2. Len(t) = Len(s) /\ \A i \in 1 .. Len(t) : t[i] \in Seq(T) BY ListsType DEF GoesOn
  <2> QED BY <2>1, <2>2
<1>1. FlattenSeq(s) = Leading(s, k)
  <2>1. k \in 0 .. Len(s) /\ \A i \in k + 1 .. Len(s) : s[i] = <<>> BY <1>l DEF GoesOn
  <2> QED BY <2>1, LeadingVacant
<1>2. FlattenSeq(t) = Leading(t, k)
  <2>1. \A i \in k + 1 .. Len(t) : i \in (1 .. Len(s)) \ {k} /\ i \in k + 1 .. Len(s) BY <1>l
  <2>2. \A i \in k + 1 .. Len(t) : t[i] = <<>> BY <2>1 DEF GoesOn
  <2>3. k \in 0 .. Len(t) BY <1>l
  <2> QED BY <2>2, <2>3, LeadingVacant
<1>3. PICK p \in 0 .. Len(s) - 1 : p + 1 = k
  <2>1. k - 1 \in 0 .. Len(s) - 1 /\ k - 1 + 1 = k BY <1>l
  <2> QED BY <2>1
<1>4. Leading(s, p) = Leading(t, p)
  <2>1. p \in Nat /\ p <= Len(s) /\ p <= Len(t) BY <1>l, <1>3
  <2>2. \A i \in 1 .. p : s[i] = t[i] BY <1>l, <1>3 DEF GoesOn
  <2> QED BY <2>1, <2>2, LeadingSame
<1>5. Leading(s, k) = Leading(s, p) \o s[k]
  <2>1. Leading(s, p + 1) = Leading(s, p) \o s[p + 1] BY LeadingSteps
  <2> QED BY <1>3, <2>1
<1>6. Leading(t, k) = Leading(t, p) \o t[k]
  <2>1. p \in 0 .. Len(t) - 1 BY <1>l
  <2>2. Leading(t, p + 1) = Leading(t, p) \o t[p + 1] BY <2>1, LeadingSteps
  <2> QED BY <1>3, <2>2
<1>7. Leading(s, p) \in Seq(T) /\ s[k] \in Seq(T)
  <2>1. p \in 0 .. Len(s) BY <1>l
  <2>2. Leading(s, p) \in Seq(T) BY <2>1, LeadingType
  <2> QED BY <1>l, <2>2
<1>8. (Leading(s, p) \o s[k]) \o d = Leading(s, p) \o (s[k] \o d)
  <2>1. PICK u \in Seq(T) : u = Leading(s, p) BY <1>7
  <2>2. PICK v \in Seq(T) : v = s[k] BY <1>7
  <2>3. (u \o v) \o d = u \o (v \o d) BY InTurn
  <2> QED BY <2>1, <2>2, <2>3
<1>9. t[k] = s[k] \o d BY DEF GoesOn
<1> QED BY <1>1, <1>2, <1>4, <1>5, <1>6, <1>8, <1>9

-----------------------------------------------------------------------------
(* What the blocks of a file hold, with the disk as a parameter.           *)

Disks    == [Blocks \cup {NoBlock} -> Seq(Bytes)]
Listings == Seq(Blocks \cup {NoBlock})

HeldIn(dk, b)    == IF dk[b] = <<Mark>> THEN <<>> ELSE dk[b]
PiecesOf(bs, dk) == [i \in DOMAIN bs |-> HeldIn(dk, bs[i])]
BytesOf(bs, dk)  == FlattenSeq(PiecesOf(bs, dk))

\* Contents reads the pieces of the listed blocks, one after the other.
LEMMA ContentsIs ==
  \A f \in Files : /\ Contents(f) = BytesOf(Listing(f), disk)
                   /\ Contents(f)' = BytesOf(Listing(f)', disk')
BY DEF Contents, BytesOf, PiecesOf, HeldIn, Held, Listing

\* The pieces of a file.
LEMMA PiecesType ==
  ASSUME NEW bs \in Listings, NEW dk \in Disks
  PROVE  /\ PiecesOf(bs, dk) \in Lists(Bytes)
         /\ Len(PiecesOf(bs, dk)) = Len(bs) /\ Len(bs) \in Nat
         /\ \A i \in 1 .. Len(bs) : PiecesOf(bs, dk)[i] = HeldIn(dk, bs[i])
         /\ BytesOf(bs, dk) \in Seq(Bytes)
<1>1. Len(bs) \in Nat /\ DOMAIN bs = 1 .. Len(bs) BY DEF Listings
<1>2. ASSUME NEW i \in 1 .. Len(bs) PROVE HeldIn(dk, bs[i]) \in Seq(Bytes)
  <2>1. bs[i] \in Blocks \cup {NoBlock} BY DEF Listings
  <2>2. dk[bs[i]] \in Seq(Bytes) BY <2>1 DEF Disks
  <2> QED BY <2>2 DEF HeldIn
<1> DEFINE s == PiecesOf(bs, dk)
<1>3. s = [i \in 1 .. Len(bs) |-> HeldIn(dk, bs[i])] BY <1>1 DEF PiecesOf
<1>4. s \in Lists(Bytes) /\ Len(s) = Len(bs)
  <2> HIDE DEF s
  <2>1. s \in [1 .. Len(bs) -> Seq(Bytes)] BY <1>2, <1>3
  <2>2. s \in Seq(Seq(Bytes)) /\ Len(s) = Len(bs) BY <1>1, <2>1
  <2> QED BY <2>2 DEF Lists
<1>5. BytesOf(bs, dk) \in Seq(Bytes)
  <2>1. Len(s) \in 0 .. Len(s) BY <1>1, <1>4
  <2> HIDE DEF s
  <2>2. FlattenSeq(s) = Leading(s, Len(s)) BY <1>4, LeadingSteps
  <2>3. Leading(s, Len(s)) \in Seq(Bytes) BY <1>4, <2>1, LeadingType
  <2>4. FlattenSeq(s) \in Seq(Bytes) BY <2>2, <2>3
  <2> QED BY <2>4 DEF BytesOf, s
<1> QED BY <1>1, <1>3, <1>4, <1>5

\* Bytes that go on in a block, with nothing in the blocks after it.
LEMMA BytesMore ==
  ASSUME NEW bs \in Listings, NEW dk \in Disks, NEW dl \in Disks, NEW d \in Seq(Bytes),
         NEW k \in 1 .. Len(bs), HeldIn(dl, bs[k]) = HeldIn(dk, bs[k]) \o d,
         \A i \in (1 .. Len(bs)) \ {k} : dl[bs[i]] = dk[bs[i]],
         \A i \in k + 1 .. Len(bs) : HeldIn(dk, bs[i]) = <<>>
  PROVE  BytesOf(bs, dl) = BytesOf(bs, dk) \o d
<1> DEFINE s == PiecesOf(bs, dk)
           t == PiecesOf(bs, dl)
<1>1. /\ s \in Lists(Bytes) /\ t \in Lists(Bytes) /\ Len(s) = Len(bs) /\ Len(t) = Len(bs)
      /\ Len(bs) \in Nat
      /\ \A i \in 1 .. Len(bs) : s[i] = HeldIn(dk, bs[i]) /\ t[i] = HeldIn(dl, bs[i])
  BY PiecesType
<1> HIDE DEF s, t
<1>2. GoesOn(s, t, k, d)
  <2>1. t[k] = s[k] \o d BY <1>1
  <2>2. ASSUME NEW i \in (1 .. Len(s)) \ {k} PROVE t[i] = s[i]
    <3>1. i \in (1 .. Len(bs)) \ {k} BY <1>1, <2>2
    <3>2. dl[bs[i]] = dk[bs[i]] BY <3>1
    <3>3. HeldIn(dl, bs[i]) = HeldIn(dk, bs[i]) BY <3>2, Zenon DEF HeldIn
    <3> QED BY <1>1, <3>1, <3>3
  <2>3. \A i \in k + 1 .. Len(s) : s[i] = <<>> BY <1>1
  <2> QED BY <1>1, <2>1, <2>2, <2>3 DEF GoesOn
<1>3. k \in 1 .. Len(s) BY <1>1
<1>4. FlattenSeq(t) = FlattenSeq(s) \o d BY <1>1, <1>2, <1>3, FlattenMore
<1> QED BY <1>4 DEF BytesOf, s, t

\* The same pieces.
LEMMA BytesSame ==
  ASSUME NEW bs \in Listings, NEW dk, NEW dl,
         \A i \in 1 .. Len(bs) : HeldIn(dl, bs[i]) = HeldIn(dk, bs[i])
  PROVE  BytesOf(bs, dl) = BytesOf(bs, dk)
<1>1. DOMAIN bs = 1 .. Len(bs) BY DEF Listings
<1>2. PiecesOf(bs, dl) = PiecesOf(bs, dk) BY <1>1 DEF PiecesOf
<1> QED BY <1>2 DEF BytesOf

\* A block more, that holds nothing.
LEMMA BytesNewBlock ==
  ASSUME NEW bs \in Listings, NEW dk \in Disks, NEW dl \in Disks, NEW b,
         b \in Blocks \cup {NoBlock}, HeldIn(dl, b) = <<>>,
         \A i \in 1 .. Len(bs) : dl[bs[i]] = dk[bs[i]]
  PROVE  BytesOf(Append(bs, b), dl) = BytesOf(bs, dk)
<1> DEFINE cs == Append(bs, b)
           s  == PiecesOf(bs, dk)
           t  == PiecesOf(cs, dl)
           n  == Len(bs)
<1>1. /\ n \in Nat /\ cs \in Listings /\ Len(cs) = n + 1 /\ cs[n + 1] = b
      /\ \A i \in 1 .. n : cs[i] = bs[i]
  BY DEF Listings
<1>2. /\ s \in Lists(Bytes) /\ Len(s) = n /\ \A i \in 1 .. n : s[i] = HeldIn(dk, bs[i])
  BY PiecesType
<1> HIDE DEF cs
<1>3. /\ t \in Lists(Bytes) /\ Len(t) = Len(cs)
      /\ \A i \in 1 .. Len(cs) : t[i] = HeldIn(dl, cs[i])
  BY <1>1, PiecesType
<1> HIDE DEF s, t
<1>4. \A i \in 1 .. n : s[i] = t[i]
  <2> SUFFICES ASSUME NEW i \in 1 .. n PROVE s[i] = t[i] OBVIOUS
  <2>1. i \in 1 .. Len(cs) /\ cs[i] = bs[i] BY <1>1
  <2>2. t[i] = HeldIn(dl, bs[i]) BY <1>3, <2>1
  <2>3. s[i] = HeldIn(dk, bs[i]) BY <1>2
  <2>4. dl[bs[i]] = dk[bs[i]] BY DEF n
  <2> QED BY <2>2, <2>3, <2>4 DEF HeldIn
<1>5. n \in Nat /\ n <= Len(s) /\ n <= Len(t) /\ n \in 0 .. Len(t) BY <1>1, <1>2, <1>3
<1> HIDE DEF n
<1>6. Leading(s, n) = Leading(t, n) BY <1>2, <1>3, <1>4, <1>5, LeadingSame
<1>7. \A i \in n + 1 .. Len(t) : t[i] = <<>>
  <2>1. \A i \in n + 1 .. Len(t) : i = n + 1 BY <1>1, <1>3
  <2>2. t[n + 1] = <<>>
    <3>1. n + 1 \in 1 .. Len(cs) BY <1>1
    <3> QED BY <1>1, <1>3, <3>1
  <2> QED BY <2>1, <2>2
<1>8. FlattenSeq(t) = Leading(t, n) BY <1>3, <1>5, <1>7, LeadingVacant
<1>9. FlattenSeq(s) = Leading(s, n) BY <1>2, LeadingSteps
<1> QED BY <1>6, <1>8, <1>9 DEF BytesOf, s, t, cs

\* The length of what is in the blocks, when all of them but the last are full.
LEMMA BytesLength ==
  ASSUME NEW bs \in Listings, NEW dk \in Disks, Len(bs) >= 1,
         \A i \in 1 .. Len(bs) - 1 : Len(HeldIn(dk, bs[i])) = BlockSize
  PROVE  Len(BytesOf(bs, dk)) = (Len(bs) - 1) * BlockSize + Len(HeldIn(dk, bs[Len(bs)]))
<1> DEFINE s == PiecesOf(bs, dk)
<1>1. /\ s \in Lists(Bytes) /\ Len(s) = Len(bs) /\ Len(bs) \in Nat
      /\ \A i \in 1 .. Len(bs) : s[i] = HeldIn(dk, bs[i])
  BY PiecesType
<1> HIDE DEF s
<1>2. PICK p \in 0 .. Len(s) - 1 : p + 1 = Len(s) /\ p = Len(bs) - 1 /\ p \in 0 .. Len(s)
  <2>1. PICK m \in Nat : m = Len(bs) /\ m = Len(s) BY <1>1
  <2>2. m - 1 \in 0 .. m - 1 /\ m - 1 + 1 = m /\ m - 1 \in 0 .. m BY <2>1
  <2> QED BY <2>1, <2>2
<1>3. Len(Leading(s, p)) = p * BlockSize
  <2>1. \A i \in 1 .. p : Len(s[i]) = BlockSize BY <1>1, <1>2
  <2>2. BlockSize \in Nat BY BlockSizeAssumption
  <2> QED BY <1>1, <1>2, <2>1, <2>2, LeadingLength
<1>4. FlattenSeq(s) = Leading(s, p) \o s[p + 1]
  <2>1. FlattenSeq(s) = Leading(s, Len(s)) BY <1>1, LeadingSteps
  <2>2. Leading(s, p + 1) = Leading(s, p) \o s[p + 1] BY <1>1, LeadingSteps
  <2> QED BY <1>2, <2>1, <2>2
<1>5. Leading(s, p) \in Seq(Bytes) BY <1>1, <1>2, LeadingType
<1>6. s[p + 1] \in Seq(Bytes) BY <1>1, <1>2, ListsType
<1>7. Len(FlattenSeq(s)) = Len(Leading(s, p)) + Len(s[p + 1]) BY <1>4, <1>5, <1>6
<1>8. s[p + 1] = HeldIn(dk, bs[Len(bs)]) BY <1>1, <1>2
<1> QED BY <1>2, <1>3, <1>7, <1>8 DEF BytesOf, s

-----------------------------------------------------------------------------
(* What a save has still to put into the blocks of its file.               *)

Left(f) ==
  IF pc[f] \in {"idle", "size"} THEN <<>>
  ELSE IF pc[f] = "chunk" THEN SubSeq(data[f], at[f] + 1, Len(data[f]))
  ELSE data[f]

\* What the saves into f have been given is in its blocks, in order, or still to be put there.
Reads(f) == /\ saved[f] = Contents(f) \o Left(f)
            /\ pc[f] = "idle" => header[f].size = Len(Contents(f))

NoneInv  == \A f \in Files : header[f].st = "none" => saved[f] = <<>>
SoundInv == \A f \in Files : Usable(f) => Reads(f)

\* The types the proofs below need of a file.
LEMMA TypesOf ==
  ASSUME TypeOK, NEW f \in Files
  PROVE  disk \in Disks /\ Listing(f) \in Listings /\ Len(Listing(f)) \in Nat
         /\ DOMAIN Listing(f) = 1 .. Len(Listing(f)) /\ Contents(f) \in Seq(Bytes)
<1>1. disk \in Disks /\ Listing(f) \in Listings BY DEF TypeOK, Disks, Listings, Listing
<1>2. Len(Listing(f)) \in Nat /\ DOMAIN Listing(f) = 1 .. Len(Listing(f)) BY <1>1 DEF Listings
<1>3. Contents(f) \in Seq(Bytes) BY <1>1, PiecesType, ContentsIs
<1> QED BY <1>1, <1>2, <1>3

\* A step that touches neither a file, nor its save, nor its blocks.
LEMMA ReadsFrame ==
  ASSUME TypeOK, NEW f \in Files, Reads(f), header'[f] = header[f], Contents(f)' = Contents(f),
         pc'[f] = pc[f], data'[f] = data[f], at'[f] = at[f], saved'[f] = saved[f]
  PROVE  Reads(f)'
BY DEF Reads, Left

\* A file whose blocks are not written to reads the same.
LEMMA ContentsFrame ==
  ASSUME TypeOK, NEW f \in Files, Listing(f)' = Listing(f),
         \A i \in 1 .. Len(Listing(f)) : disk'[Listing(f)[i]] = disk[Listing(f)[i]]
  PROVE  Contents(f)' = Contents(f)
<1>1. Listing(f) \in Listings BY TypesOf
<1>2. \A i \in 1 .. Len(Listing(f)) : HeldIn(disk', Listing(f)[i]) = HeldIn(disk, Listing(f)[i])
  BY DEF HeldIn
<1>3. BytesOf(Listing(f), disk') = BytesOf(Listing(f), disk) BY <1>1, <1>2, BytesSame
<1> QED BY <1>3, ContentsIs

\* The blocks of other files are not touched by what is saved into a block of f.
LEMMA OthersKeep ==
  ASSUME TypeOK, Sane, NEW f \in Files, Usable(f), NEW k \in 1 .. Len(Listing(f)),
         NEW d, disk' = SavedInto(Listing(f)[k], d), header' = header,
         NEW g \in Files, Usable(g), NEW i \in 1 .. Len(Listing(g)), g # f \/ i # k
  PROVE  disk'[Listing(g)[i]] = disk[Listing(g)[i]]
<1>1. Listing(f)[k] \in Blocks /\ Listing(g)[i] \in Blocks BY UsableBlocks
<1>2. Listing(g)[i] # Listing(f)[k] BY <1>1, BlocksAssumption DEF Sane, Apart
<1> QED BY <1>1, <1>2 DEF SavedInto, TypeOK

\* Data saved into a block of a file, with nothing after it, goes on where its bytes ended.
LEMMA WriteContents ==
  ASSUME TypeOK, Sane, NEW f \in Files, Usable(f), NEW k \in 1 .. Len(Listing(f)),
         NEW d \in Seq(Bytes), disk' = SavedInto(Listing(f)[k], d), header' = header,
         Held(Listing(f)[k]) \o d # <<Mark>>,
         d = <<>> \/ \A i \in k + 1 .. Len(Listing(f)) : Held(Listing(f)[i]) = <<>>
  PROVE  /\ Contents(f)' = Contents(f) \o d
         /\ \A g \in Files \ {f} : Usable(g) => Contents(g)' = Contents(g)
<1>1. \A g \in Files : Listing(g)' = Listing(g) BY DEF Listing
<1>2. ASSUME NEW g \in Files \ {f}, Usable(g) PROVE Contents(g)' = Contents(g)
  <2>1. \A i \in 1 .. Len(Listing(g)) : disk'[Listing(g)[i]] = disk[Listing(g)[i]]
    BY <1>2, OthersKeep
  <2> QED BY <1>1, <2>1, ContentsFrame
<1>3. Listing(f) \in Listings /\ disk \in Disks /\ Len(Listing(f)) \in Nat
      /\ Contents(f) \in Seq(Bytes)
  BY TypesOf
<1>4. disk' \in Disks BY SavedType DEF Disks
<1>5. Listing(f)[k] \in Blocks BY UsableBlocks
<1>6. disk'[Listing(f)[k]] = Held(Listing(f)[k]) \o d BY <1>5 DEF SavedInto, TypeOK
<1>7. HeldIn(disk', Listing(f)[k]) = HeldIn(disk, Listing(f)[k]) \o d
  BY <1>6 DEF HeldIn, Held
<1>8. \A i \in (1 .. Len(Listing(f))) \ {k} : disk'[Listing(f)[i]] = disk[Listing(f)[i]]
  BY OthersKeep
<1>9. BytesOf(Listing(f), disk') = BytesOf(Listing(f), disk) \o d
  <2>1. CASE \A i \in k + 1 .. Len(Listing(f)) : Held(Listing(f)[i]) = <<>>
    <3>1. \A i \in k + 1 .. Len(Listing(f)) : HeldIn(disk, Listing(f)[i]) = <<>>
      BY <2>1 DEF Held, HeldIn
    <3> QED BY <1>3, <1>4, <1>7, <1>8, <3>1, BytesMore
  <2>2. CASE d = <<>>
    <3>1. HeldIn(disk, Listing(f)[k]) \in Seq(Bytes) BY <1>5, HeldType DEF Held, HeldIn
    <3>2. HeldIn(disk, Listing(f)[k]) \o d = HeldIn(disk, Listing(f)[k])
      BY <2>2, <3>1, ConcatEmptySeq
    <3>3. \A i \in 1 .. Len(Listing(f)) :
            HeldIn(disk', Listing(f)[i]) = HeldIn(disk, Listing(f)[i])
      BY <1>7, <1>8, <3>2 DEF HeldIn
    <3>4. BytesOf(Listing(f), disk') = BytesOf(Listing(f), disk) BY <1>3, <3>3, BytesSame
    <3>5. BytesOf(Listing(f), disk) \o d = BytesOf(Listing(f), disk)
      BY <1>3, <2>2, ContentsIs, ConcatEmptySeq
    <3> QED BY <3>4, <3>5
  <2> QED BY <2>1, <2>2
<1> QED BY <1>1, <1>2, <1>9, ContentsIs

\* A block with all its room free holds nothing.
LEMMA VacantIsEmpty ==
  ASSUME TypeOK, NEW b \in Blocks \cup {NoBlock}, FreeSize(b) = BlockSize
  PROVE  Held(b) = <<>>
<1>1. Held(b) \in Seq(Bytes) /\ Len(Held(b)) \in Nat /\ FreeSize(b) = BlockSize - Len(Held(b))
  BY HeldType
<1>2. Len(Held(b)) = 0 BY <1>1, BlockSizeAssumption
<1> QED BY <1>1, <1>2

\* Vacant blocks hold nothing.
LEMMA VacantHeld ==
  ASSUME TypeOK, NEW f \in Files, Usable(f), NEW k \in 1 .. Len(Listing(f)), VacantFrom(f, k)
  PROVE  \A i \in k .. Len(Listing(f)) : Held(Listing(f)[i]) = <<>>
<1> SUFFICES ASSUME NEW i \in k .. Len(Listing(f)) PROVE Held(Listing(f)[i]) = <<>> OBVIOUS
<1>1. i \in 1 .. Len(Listing(f)) BY TypesOf
<1>2. Listing(f)[i] \in Blocks BY <1>1, UsableBlocks
<1>3. FreeSize(Listing(f)[i]) = BlockSize BY DEF VacantFrom, Free
<1> QED BY <1>2, <1>3, VacantIsEmpty

\* What is in a block and what is added to it are not just a mark: there are
\* two bytes of it or more, or it ends with the end of a record.
LEMMA NotJustMark ==
  ASSUME NEW h \in Seq(Bytes), NEW d \in Seq(Bytes),
         \/ d = <<>> /\ h # <<Mark>>
         \/ Len(h) + Len(d) >= 2
         \/ Len(d) >= 1 /\ d[Len(d)] # Mark
  PROVE  h \o d # <<Mark>>
<1>1. Len(h \o d) = Len(h) + Len(d) /\ Len(h) \in Nat /\ Len(d) \in Nat OBVIOUS
<1>2. CASE d = <<>> /\ h # <<Mark>>
  <2>1. h \o d = h BY <1>2, ConcatEmptySeq
  <2> QED BY <1>2, <2>1
<1>3. CASE Len(h) + Len(d) >= 2
  <2>1. Len(<<Mark>>) = 1 OBVIOUS
  <2> QED BY <1>1, <1>3, <2>1
<1>4. CASE Len(d) >= 1 /\ d[Len(d)] # Mark
  <2> SUFFICES ASSUME h \o d = <<Mark>> PROVE FALSE OBVIOUS
  <2>1. Len(h) = 0 /\ Len(d) = 1
    <3>1. Len(<<Mark>>) = 1 OBVIOUS
    <3> QED BY <1>1, <1>4, <3>1
  <2>2. h = <<>> BY <2>1
  <2>3. d = <<Mark>> BY <2>2, ConcatEmptySeq
  <2> QED BY <1>4, <2>1, <2>3
<1> QED BY <1>2, <1>3, <1>4

\* Where Fill puts the bytes the last block had room for.
LEMMA FillPlace ==
  ASSUME TypeOK, SaveInv, Sane, NEW f \in Files, Fill(f)
  PROVE  \E w \in 1 .. Len(Listing(f)) :
           /\ disk' = SavedInto(Listing(f)[w], SubSeq(data[f], 1, at[f]))
           /\ at[f] # 0 => Free(f, w) = at[f] /\ VacantFrom(f, w + 1)
<1>1. /\ Usable(f) /\ pc[f] = "fill" /\ need[f] = 0
      /\ at[f] \in Int /\ 0 <= at[f] /\ at[f] < Len(data[f])
      /\ Len(data[f]) \in Nat
  BY DEF Fill, TypeOK, SaveInv, Sane, FileInv
<1>2. PICK n \in Nat : n = Len(Listing(f)) BY TypesOf
<1>3. PICK k \in 1 .. n :
        /\ FullTo(f, k - 1) /\ Free(f, k) = at[f] /\ VacantFrom(f, k + 1)
        /\ Room(n - k, Len(data[f]) - at[f])
  <2>1. PICK k \in 1 .. n :
          /\ FullTo(f, k - 1) /\ Free(f, k) = at[f] /\ VacantFrom(f, k + 1)
          /\ Room(n - k + need[f], Len(data[f]) - at[f])
    BY <1>1, <1>2 DEF Sane, FileInv
  <2>2. n - k + need[f] = n - k BY <1>1
  <2> QED BY <2>1, <2>2
<1>4. disk' = SavedInto(FirstFreeBlock(f), SubSeq(data[f], 1, at[f])) BY DEF Fill
<1>5. CASE at[f] # 0
  <2>1. FirstFreeBlock(f) = Listing(f)[k] BY <1>2, <1>3, <1>5, FirstFree
  <2> QED BY <1>2, <1>3, <1>4, <2>1
<1>6. CASE at[f] = 0
  <2>1. k + 1 \in 1 .. n
    <3>1. PICK m \in Nat : m = n - k OBVIOUS
    <3>2. Len(data[f]) > 0 /\ Len(data[f]) - at[f] = Len(data[f]) BY <1>1, <1>6
    <3>3. Len(data[f]) <= m * BlockSize BY <1>3, <3>1, <3>2 DEF Room
    <3>4. m = 0 => m * BlockSize = 0 BY BlockSizeAssumption
    <3>5. m # 0 BY <1>1, <3>2, <3>3, <3>4
    <3> QED BY <3>1, <3>5
  <2>2. PICK p \in 1 .. n : p = k + 1 /\ p - 1 = k BY <2>1
  <2>3. FullTo(f, p - 1)
    <3> SUFFICES ASSUME NEW i \in 1 .. p - 1 PROVE Free(f, i) = 0 BY DEF FullTo
    <3>1. CASE i = k BY <1>3, <1>6, <3>1
    <3>2. CASE i # k
      <4>1. i \in 1 .. k - 1 BY <2>2, <3>2
      <4> QED BY <1>3, <4>1 DEF FullTo
    <3> QED BY <3>1, <3>2
  <2>4. Free(f, p) = BlockSize
    <3>1. p \in k + 1 .. n BY <2>2
    <3> QED BY <1>2, <1>3, <3>1 DEF VacantFrom
  <2>5. FirstFreeBlock(f) = Listing(f)[p]
    BY <1>2, <2>3, <2>4, FirstFree, BlockSizeAssumption
  <2> QED BY <1>2, <1>4, <1>6, <2>2, <2>5
<1> QED BY <1>5, <1>6

\* Where SaveChunk puts a piece.
LEMMA ChunkPlace ==
  ASSUME TypeOK, SaveInv, Sane, NEW f \in Files, SaveChunk(f)
  PROVE  \E w \in 1 .. Len(Listing(f)) : FirstFreeBlock(f) = Listing(f)[w] /\ VacantFrom(f, w)
<1>1. Usable(f) /\ pc[f] = "chunk" BY DEF SaveChunk, Sane
<1>2. PICK n \in Nat : n = Len(Listing(f)) BY TypesOf
<1>3. PICK k \in 1 .. n : FullTo(f, k - 1) /\ VacantFrom(f, k)
  BY <1>1, <1>2 DEF Sane, FileInv
<1>4. Free(f, k) = BlockSize BY <1>2, <1>3 DEF VacantFrom
<1>5. FirstFreeBlock(f) = Listing(f)[k] BY <1>2, <1>3, <1>4, FirstFree, BlockSizeAssumption
<1> QED BY <1>2, <1>3, <1>5

\* Every file but f is as it was, once the contents of the usable ones are.
LEMMA OthersRead ==
  ASSUME TypeOK, SoundInv, NEW f \in Files,
         \A g \in Files \ {f} : Usable(g) => Contents(g)' = Contents(g),
         \A g \in Files \ {f} : /\ header'[g] = header[g] /\ pc'[g] = pc[g] /\ at'[g] = at[g]
                                /\ data'[g] = data[g] /\ saved'[g] = saved[g],
         Usable(f)' => Reads(f)'
  PROVE  SoundInv'
<1> SUFFICES ASSUME NEW g \in Files, Usable(g)' PROVE Reads(g)' BY DEF SoundInv
<1>1. CASE g = f BY <1>1
<1>2. CASE g # f
  <2>1. header'[g] = header[g] BY <1>2
  <2>2. Usable(g) /\ Reads(g) BY <2>1 DEF Usable, SoundInv
  <2>3. Contents(g)' = Contents(g) BY <1>2, <2>2
  <2> QED BY <1>2, <2>1, <2>2, <2>3, ReadsFrame
<1> QED BY <1>1, <1>2

\* A new file reads empty, and nothing was saved into it.
LEMMA CreateReads ==
  ASSUME TypeOK, SaveInv, Sane, NoneInv, SoundInv, NEW f \in Files, Create(f)
  PROVE  SoundInv'
<1>1. PICK b \in Blocks \cup {NoBlock} :
        NewBlock(b) /\ header' = [header EXCEPT ![f] = File(0, <<b>>)]
  BY DEF Create
<1>2. /\ Listing(f)' = <<b>> /\ header'[f].size = 0
      /\ \A g \in Files \ {f} : header'[g] = header[g] /\ Listing(g)' = Listing(g)
      /\ pc' = pc /\ data' = data /\ at' = at /\ saved' = saved
      /\ pc[f] = "idle" /\ saved[f] = <<>>
  BY <1>1 DEF TypeOK, Listing, File, Create, SaveInv, NoneInv, saving
<1>3. ASSUME NEW g \in Files \ {f} PROVE Contents(g)' = Contents(g)
  <2>1. \A i \in 1 .. Len(Listing(g)) : disk'[Listing(g)[i]] = disk[Listing(g)[i]]
    BY <1>1, NewBlockSane
  <2> QED BY <1>2, <2>1, ContentsFrame
<1>4. ASSUME Usable(f)' PROVE Reads(f)'
  <2>1. b # NoBlock
    <3>1. b \in Range(<<b>>) BY DEF Range
    <3> QED BY <1>2, <1>4, <3>1 DEF Usable, Listing
  <2>2. disk' \in Disks BY <1>1, NewBlockType DEF Disks
  <2>3. HeldIn(disk', b) = <<>>
    <3>1. FreeSize(b)' = BlockSize BY <1>1, <2>1, NewBlockSane
    <3>2. disk'[b] \in Seq(Bytes) BY <2>2 DEF Disks
    <3>3. HeldIn(disk', b) \in Seq(Bytes) BY <3>2 DEF HeldIn
    <3>4. BlockSize - Len(HeldIn(disk', b)) = BlockSize BY <3>1 DEF FreeSize, Held, HeldIn
    <3>5. Len(HeldIn(disk', b)) = 0 BY <3>3, <3>4, BlockSizeAssumption
    <3> QED BY <3>3, <3>5
  <2>4. BytesOf(<<b>>, disk') = <<>>
    <3>1. <<>> \in Listings /\ Append(<<>>, b) = <<b>> /\ Len(<<>>) = 0 BY DEF Listings
    <3>2. disk \in Disks BY TypesOf
    <3>3. BytesOf(Append(<<>>, b), disk') = BytesOf(<<>>, disk)
      <4>1. PICK e \in Listings : e = <<>> BY <3>1
      <4>2. \A i \in 1 .. Len(e) : disk'[e[i]] = disk[e[i]] BY <3>1, <4>1
      <4>3. BytesOf(Append(e, b), disk') = BytesOf(e, disk)
        BY <2>2, <2>3, <3>2, <4>2, BytesNewBlock
      <4> QED BY <4>1, <4>3
    <3>4. BytesOf(<<>>, disk) = <<>>
      <4>1. PiecesOf(<<>>, disk) = <<>> BY DEF PiecesOf
      <4> QED BY <4>1, <3>1 DEF BytesOf, FlattenSeq
    <3> QED BY <3>1, <3>3, <3>4
  <2>5. Contents(f)' = <<>> BY <1>2, <2>4, ContentsIs
  <2>6. Left(f)' = <<>> BY <1>2 DEF Left
  <2>7. <<>> \o <<>> = <<>> /\ Len(<<>>) = 0 OBVIOUS
  <2> QED BY <1>2, <2>5, <2>6, <2>7 DEF Reads
<1> QED BY <1>2, <1>3, <1>4, OthersRead

\* The block added is read as nothing.
LEMMA AddNewBlockReads ==
  ASSUME TypeOK, SaveInv, Sane, SoundInv, NEW f \in Files, AddNewBlock(f)
  PROVE  SoundInv'
<1>1. PICK b \in Blocks \cup {NoBlock} :
        NewBlock(b) /\ header' = [header EXCEPT ![f].blocks = Append(@, b)]
  BY DEF AddNewBlock
<1>2. /\ Listing(f)' = Append(Listing(f), b) /\ header'[f].st = header[f].st
      /\ \A g \in Files \ {f} : header'[g] = header[g] /\ Listing(g)' = Listing(g)
      /\ pc[f] = "grow" /\ pc'[f] \in {"grow", "fill"}
      /\ \A g \in Files \ {f} : pc'[g] = pc[g]
      /\ data' = data /\ at' = at /\ saved' = saved
  BY <1>1 DEF TypeOK, Listing, AddNewBlock
<1>3. \A g \in Files : \A i \in 1 .. Len(Listing(g)) :
        disk'[Listing(g)[i]] = disk[Listing(g)[i]]
  BY <1>1, NewBlockSane
<1>4. ASSUME NEW g \in Files \ {f} PROVE Contents(g)' = Contents(g)
  BY <1>2, <1>3, ContentsFrame
<1>5. ASSUME Usable(f)' PROVE Reads(f)'
  <2>n. PICK n \in Nat : n = Len(Listing(f)) BY TypesOf
  <2>l. Listing(f) \in Listings /\ disk \in Disks BY TypesOf
  <2>0. /\ Len(Listing(f)') = n + 1 /\ Listing(f)'[n + 1] = b
        /\ \A i \in 1 .. n : Listing(f)'[i] = Listing(f)[i]
        /\ DOMAIN Listing(f)' = 1 .. n + 1 /\ DOMAIN Listing(f) = 1 .. n
    BY <1>2, <2>n, <2>l DEF Listings
  <2>1. b # NoBlock
    <3>1. b \in Range(Listing(f)') BY <2>0 DEF Range
    <3> QED BY <1>5, <3>1 DEF Usable, Listing
  <2>2. Usable(f)
    <3>1. Range(Listing(f)) \subseteq Range(Listing(f)') BY <2>0 DEF Range
    <3> QED BY <1>2, <1>5, <3>1 DEF Usable, Listing
  <2>3. disk' \in Disks BY <1>1, NewBlockType DEF Disks
  <2>4. HeldIn(disk', b) = <<>>
    <3>1. FreeSize(b)' = BlockSize BY <1>1, <2>1, NewBlockSane
    <3>2. disk'[b] \in Seq(Bytes) BY <2>3 DEF Disks
    <3>3. HeldIn(disk', b) \in Seq(Bytes) BY <3>2 DEF HeldIn
    <3>4. BlockSize - Len(HeldIn(disk', b)) = BlockSize BY <3>1 DEF FreeSize, Held, HeldIn
    <3>5. Len(HeldIn(disk', b)) = 0 BY <3>3, <3>4, BlockSizeAssumption
    <3> QED BY <3>3, <3>5
  <2>5. BytesOf(Append(Listing(f), b), disk') = BytesOf(Listing(f), disk)
    BY <1>3, <2>3, <2>4, <2>l, BytesNewBlock
  <2>6. Contents(f)' = Contents(f) BY <1>2, <2>5, ContentsIs
  <2>7. Left(f)' = Left(f) BY <1>2 DEF Left
  <2>8. Reads(f) BY <2>2 DEF SoundInv
  <2> QED BY <1>2, <2>6, <2>7, <2>8 DEF Reads
<1> QED BY <1>2, <1>4, <1>5, OthersRead

\* The data goes on in the last block, or is still to be put in whole.
LEMMA BeginSaveReads ==
  ASSUME TypeOK, SaveInv, Sane, SoundInv, sound, NEW f \in Files, NEW d \in Data, BeginSave(f, d)
  PROVE  SoundInv'
<1>1. /\ Usable(f) /\ pc[f] = "idle" /\ header' = header /\ data'[f] = d
      /\ saved'[f] = saved[f] \o d
      /\ \A g \in Files \ {f} : /\ pc'[g] = pc[g] /\ at'[g] = at[g]
                                /\ data'[g] = data[g] /\ saved'[g] = saved[g]
  BY DEF BeginSave, TypeOK
<1>2. PICK n \in Nat \ {0} : n = Len(Listing(f)) /\ n \in 1 .. Len(Listing(f))
  <2>1. Len(Listing(f)) \in Nat /\ Len(Listing(f)) >= 1 BY <1>1 DEF Usable, SaveInv, TypeOK, Listing
  <2> QED BY <2>1
<1>3. LastBlock(f) = Listing(f)[n] BY <1>2 DEF LastBlock, Last, Listing
<1>4. d \in Seq(Bytes) /\ Len(d) \in Nat \ {0} /\ d[Len(d)] # Mark BY DataType
<1>5. saved[f] = Contents(f)
  <2>1. Reads(f) /\ Left(f) = <<>> BY <1>1 DEF SoundInv, Left
  <2>2. Contents(f) \in Seq(Bytes) BY TypesOf
  <2>3. Contents(f) \o <<>> = Contents(f) BY <2>2, ConcatEmptySeq
  <2> QED BY <2>1, <2>3 DEF Reads
<1>6. CASE disk' = SavedInto(Listing(f)[n], d) /\ pc'[f] = "size"
  <2>1. Listing(f)[n] \in Blocks BY <1>1, <1>2, UsableBlocks
  <2>2. Held(Listing(f)[n]) \in Seq(Bytes) BY <2>1, HeldType
  <2>3. Held(Listing(f)[n]) \o d # <<Mark>>
    <3>1. Len(d) >= 1 BY <1>4
    <3> QED BY <1>4, <2>2, <3>1, NotJustMark
  <2>4. \A i \in n + 1 .. Len(Listing(f)) : Held(Listing(f)[i]) = <<>> BY <1>2
  <2>5. /\ Contents(f)' = Contents(f) \o d
        /\ \A g \in Files \ {f} : Usable(g) => Contents(g)' = Contents(g)
    BY <1>1, <1>2, <1>4, <1>6, <2>3, <2>4, WriteContents
  <2>6. saved'[f] = Contents(f)' \o <<>>
    <3>1. Contents(f) \o d \in Seq(Bytes) BY <1>4, TypesOf, ConcatProperties
    <3> QED BY <1>1, <1>5, <2>5, <3>1, ConcatEmptySeq
  <2>7. Reads(f)' BY <1>6, <2>6 DEF Reads, Left
  <2> QED BY <1>1, <2>5, <2>7, OthersRead
<1>7. CASE disk' = disk /\ pc'[f] = "grow"
  <2>1. ASSUME NEW g \in Files PROVE Contents(g)' = Contents(g)
    <3>1. Listing(g)' = Listing(g) BY <1>1 DEF Listing
    <3> QED BY <1>7, <3>1, ContentsFrame
  <2>2. Left(f)' = d BY <1>1, <1>7 DEF Left
  <2>3. Reads(f)' BY <1>1, <1>5, <1>7, <2>1, <2>2 DEF Reads
  <2> QED BY <1>1, <2>1, <2>3, OthersRead
<1> QED BY <1>3, <1>6, <1>7 DEF BeginSave, TypeOK

\* A piece of what is saved.
LEMMA PieceOf ==
  ASSUME NEW s \in Seq(Bytes), NEW a \in Nat \ {0}, NEW b \in Nat, a <= b + 1, b <= Len(s)
  PROVE  /\ SubSeq(s, a, b) \in Seq(Bytes) /\ Len(SubSeq(s, a, b)) = b - a + 1
         /\ \A i \in 1 .. b - a + 1 : SubSeq(s, a, b)[i] = s[a + i - 1]
<1>1. \A i \in a .. b : s[i] \in Bytes OBVIOUS
<1>2. /\ SubSeq(s, a, b) \in Seq(Bytes)
      /\ Len(SubSeq(s, a, b)) = IF a <= b THEN b - a + 1 ELSE 0
      /\ \A i \in 1 .. b - a + 1 : SubSeq(s, a, b)[i] = s[a + i - 1]
  BY <1>1, SubSeqProperties
<1> QED BY <1>2

\* The first piece goes where there was room, and the rest is still to be put.
LEMMA FillReads ==
  ASSUME TypeOK, SaveInv, Sane, SoundInv, NEW f \in Files, Fill(f)
  PROVE  SoundInv'
<1>1. /\ Usable(f) /\ pc[f] = "fill" /\ pc'[f] = "chunk" /\ header' = header
      /\ data' = data /\ at' = at /\ saved' = saved
      /\ \A g \in Files \ {f} : pc'[g] = pc[g]
      /\ at[f] \in Nat /\ at[f] < Len(data[f])
      /\ data[f] \in Seq(Bytes) /\ Len(data[f]) \in Nat
  BY DEF Fill, TypeOK, SaveInv
<1> DEFINE d == SubSeq(data[f], 1, at[f])
           r == SubSeq(data[f], at[f] + 1, Len(data[f]))
<1>2. /\ d \in Seq(Bytes) /\ Len(d) = at[f] /\ r \in Seq(Bytes)
      /\ d \o r = data[f]
  <2>1. d \in Seq(Bytes) /\ Len(d) = at[f] /\ r \in Seq(Bytes) BY <1>1
  <2>2. d \o r = SubSeq(data[f], 1, Len(data[f]))
    <3>1. /\ 1 \in 1 .. Len(data[f]) + 1 /\ at[f] \in 1 - 1 .. Len(data[f])
          /\ Len(data[f]) \in at[f] .. Len(data[f])
      BY <1>1
    <3> QED BY <1>1, <3>1, ConcatAdjacentSubSeq
  <2> QED BY <1>1, <2>1, <2>2, SubSeqFull
<1>3. PICK w \in 1 .. Len(Listing(f)) :
        /\ disk' = SavedInto(Listing(f)[w], d)
        /\ at[f] # 0 => Free(f, w) = at[f] /\ VacantFrom(f, w + 1)
  BY FillPlace
<1>4. d = <<>> <=> at[f] = 0
  <2> HIDE DEF d
  <2> QED BY <1>1, <1>2
<1> HIDE DEF d, r
<1>5. Listing(f)[w] \in Blocks BY <1>1, UsableBlocks
<1>6. /\ Held(Listing(f)[w]) \in Seq(Bytes) /\ Held(Listing(f)[w]) # <<Mark>>
      /\ Len(Held(Listing(f)[w])) \in Nat
      /\ Free(f, w) = BlockSize - Len(Held(Listing(f)[w]))
  BY <1>5, HeldType DEF Free
<1>7. Held(Listing(f)[w]) \o d # <<Mark>>
  <2>1. CASE at[f] = 0 BY <1>2, <1>4, <1>6, <2>1, NotJustMark
  <2>2. CASE at[f] # 0
    <3>1. Len(Held(Listing(f)[w])) + Len(d) = BlockSize
      BY <1>2, <1>3, <1>6, <2>2, BlockSizeAssumption
    <3>2. BlockSize >= 2 BY BlockSizeAssumption
    <3> QED BY <1>2, <1>6, <3>1, <3>2, NotJustMark
  <2> QED BY <2>1, <2>2
<1>8. d = <<>> \/ \A i \in w + 1 .. Len(Listing(f)) : Held(Listing(f)[i]) = <<>>
  <2> SUFFICES ASSUME at[f] # 0, NEW i \in w + 1 .. Len(Listing(f))
               PROVE Held(Listing(f)[i]) = <<>>
    BY <1>4
  <2>1. i \in 1 .. Len(Listing(f)) BY TypesOf
  <2>2. Listing(f)[i] \in Blocks BY <1>1, <2>1, UsableBlocks
  <2>3. FreeSize(Listing(f)[i]) = BlockSize BY <1>3 DEF VacantFrom, Free
  <2> QED BY <2>2, <2>3, VacantIsEmpty
<1>9. /\ Contents(f)' = Contents(f) \o d
      /\ \A g \in Files \ {f} : Usable(g) => Contents(g)' = Contents(g)
  BY <1>1, <1>2, <1>3, <1>7, <1>8, WriteContents
<1>10. Reads(f)'
  <2>1. saved[f] = Contents(f) \o (d \o r) BY <1>1, <1>2 DEF SoundInv, Reads, Left
  <2>2. Contents(f) \o (d \o r) = (Contents(f) \o d) \o r
    <3>1. PICK c \in Seq(Bytes) : c = Contents(f) BY TypesOf
    <3>2. (c \o d) \o r = c \o (d \o r)
      <4>1. d \in Seq(Bytes) /\ r \in Seq(Bytes) BY <1>2
      <4> QED BY SMTT(30), <4>1, InTurn
    <3> QED BY <3>1, <3>2
  <2>3. Left(f)' = r BY <1>1 DEF Left, r
  <2> QED BY <1>1, <1>9, <2>1, <2>2, <2>3 DEF Reads
<1> QED BY <1>1, <1>9, <1>10, OthersRead

\* The next piece goes on where the last one ended.
LEMMA SaveChunkReads ==
  ASSUME TypeOK, SaveInv, Sane, SoundInv, NEW f \in Files, SaveChunk(f)
  PROVE  SoundInv'
<1> DEFINE left == Len(data[f]) - at[f]
           upto == IF left > BlockSize THEN at[f] + BlockSize ELSE Len(data[f])
           d    == SubSeq(data[f], at[f] + 1, upto)
           r    == SubSeq(data[f], upto + 1, Len(data[f]))
           was  == SubSeq(data[f], at[f] + 1, Len(data[f]))
<1>1. /\ Usable(f) /\ pc[f] = "chunk" /\ header' = header /\ data' = data /\ saved' = saved
      /\ data[f] \in Data /\ data[f] \in Seq(Bytes) /\ Len(data[f]) \in Nat
      /\ data[f][Len(data[f])] # Mark
      /\ at[f] \in Nat /\ at[f] < Len(data[f])
  BY DataType DEF SaveChunk, TypeOK, SaveInv, Sane
<1>2. /\ upto \in Nat /\ upto <= Len(data[f]) /\ at[f] < upto
      /\ left > BlockSize => upto = at[f] + BlockSize
      /\ ~(left > BlockSize) => upto = Len(data[f])
  BY <1>1, BlockSizeAssumption
<1>3. /\ disk' = SavedInto(FirstFreeBlock(f), d) /\ at'[f] = upto
      /\ pc'[f] = (IF left > BlockSize THEN "chunk" ELSE "size")
      /\ \A g \in Files \ {f} : pc'[g] = pc[g] /\ at'[g] = at[g]
  BY DEF SaveChunk, TypeOK
<1>h. HIDE DEF left, upto
<1>4. /\ d \in Seq(Bytes) /\ Len(d) = upto - at[f] /\ r \in Seq(Bytes) /\ was \in Seq(Bytes)
      /\ d[Len(d)] = data[f][upto]
  <2>1. at[f] + 1 \in Nat \ {0} /\ at[f] + 1 <= upto + 1 /\ upto - (at[f] + 1) + 1 = upto - at[f]
    BY <1>1, <1>2
  <2>2. d \in Seq(Bytes) /\ Len(d) = upto - at[f]
    BY <1>1, <1>2, <2>1, PieceOf
  <2>3. upto + 1 \in Nat \ {0} /\ upto + 1 <= Len(data[f]) + 1 BY <1>1, <1>2
  <2>4. r \in Seq(Bytes) BY <1>1, <2>3, PieceOf
  <2>5. at[f] + 1 <= Len(data[f]) + 1 BY <1>1
  <2>6. was \in Seq(Bytes) BY <1>1, <2>1, <2>5, PieceOf
  <2>7. d[upto - at[f]] = data[f][upto]
    <3>1. PICK a \in Nat \ {0} : a = at[f] + 1 BY <1>1
    <3>2. upto - a + 1 = upto - at[f] /\ upto - a + 1 \in 1 .. upto - a + 1
          /\ a + (upto - a + 1) - 1 = upto /\ a <= upto + 1
      <4>1. PICK u \in Nat : u = upto BY <1>2
      <4>2. PICK t \in Nat : t = at[f] BY <1>1
      <4>3. a = t + 1 /\ t < u BY <1>2, <3>1, <4>1, <4>2
      <4>4. u - a + 1 = u - t /\ u - a + 1 >= 1 /\ a + (u - a + 1) - 1 = u /\ a <= u + 1
        BY <4>3
      <4> QED BY <4>1, <4>2, <4>3, <4>4
    <3>3. \A i \in 1 .. upto - a + 1 : SubSeq(data[f], a, upto)[i] = data[f][a + i - 1]
      BY <1>1, <1>2, <3>2, PieceOf
    <3> QED BY <3>1, <3>2, <3>3
  <2> QED BY <2>2, <2>4, <2>6, <2>7
<1>5. d \o r = was
  <2>1. PICK a \in 1 .. Len(data[f]) + 1 : a = at[f] + 1 BY <1>1
  <2>2. upto \in a - 1 .. Len(data[f]) /\ Len(data[f]) \in upto .. Len(data[f])
    BY <1>1, <1>2, <2>1
  <2>3. SubSeq(data[f], a, upto) \o SubSeq(data[f], upto + 1, Len(data[f]))
          = SubSeq(data[f], a, Len(data[f]))
    BY <1>1, <2>2, ConcatAdjacentSubSeq
  <2> QED BY <2>1, <2>3
<1>6. PICK w \in 1 .. Len(Listing(f)) : FirstFreeBlock(f) = Listing(f)[w] /\ VacantFrom(f, w)
  BY ChunkPlace
<1>7. \A i \in w .. Len(Listing(f)) : Held(Listing(f)[i]) = <<>> BY <1>1, <1>6, VacantHeld
<1>8. \A i \in w + 1 .. Len(Listing(f)) : Held(Listing(f)[i]) = <<>> BY <1>7, TypesOf
<1>9. Held(Listing(f)[w]) = <<>>
  <2>1. w \in w .. Len(Listing(f)) BY TypesOf
  <2> QED BY <1>7, <2>1
<1> HIDE DEF d, r, was
<1>10. Held(Listing(f)[w]) \o d # <<Mark>>
  <2>1. <<>> \in Seq(Bytes) /\ Len(<<>>) = 0 OBVIOUS
  <2>2. CASE left > BlockSize
    <3>1. Len(d) >= 2 BY <1>1, <1>2, <1>4, <2>2, BlockSizeAssumption
    <3>2. Len(<<>>) + Len(d) >= 2 BY <1>4, <2>1, <3>1
    <3> QED BY <1>4, <1>9, <2>1, <3>2, NotJustMark
  <2>3. CASE ~(left > BlockSize)
    <3>1. Len(d) >= 1 /\ d[Len(d)] # Mark BY <1>1, <1>2, <1>4, <2>3
    <3> QED BY <1>4, <1>9, <2>1, <3>1, NotJustMark
  <2> QED BY <2>2, <2>3
<1>11. /\ Contents(f)' = Contents(f) \o d
       /\ \A g \in Files \ {f} : Usable(g) => Contents(g)' = Contents(g)
  BY <1>1, <1>3, <1>4, <1>6, <1>8, <1>10, WriteContents
<1>12. Reads(f)'
  <2>1. saved[f] = Contents(f) \o (d \o r) BY <1>1, <1>5 DEF SoundInv, Reads, Left, was
  <2>2. Contents(f) \o (d \o r) = (Contents(f) \o d) \o r
    <3>1. PICK c \in Seq(Bytes) : c = Contents(f) BY TypesOf
    <3>2. (c \o d) \o r = c \o (d \o r)
      <4>1. d \in Seq(Bytes) /\ r \in Seq(Bytes) BY <1>4
      <4> QED BY SMTT(30), <4>1, InTurn
    <3> QED BY <3>1, <3>2
  <2>3. Left(f)' = r
    <3>1. CASE left > BlockSize BY <1>1, <1>3, <3>1 DEF Left, r
    <3>2. CASE ~(left > BlockSize)
      <4>1. pc'[f] = "size" /\ upto = Len(data[f]) BY <1>2, <1>3, <3>2
      <4>2. r = <<>>
        <5>1. upto + 1 \in Int /\ Len(data[f]) \in Int /\ Len(data[f]) < upto + 1 BY <1>1, <4>1
        <5> QED BY <5>1, SubSeqEmpty DEF r
      <4> QED BY <4>1, <4>2 DEF Left
    <3> QED BY <3>1, <3>2
  <2>4. pc'[f] # "idle" BY <1>3
  <2>5. saved'[f] = Contents(f)' \o Left(f)' BY <1>1, <1>11, <2>1, <2>2, <2>3
  <2> QED BY <2>4, <2>5 DEF Reads
<1> QED BY <1>1, <1>3, <1>11, <1>12, OthersRead

\* All of the data is in place, and SIZE= is the length of what is read.
LEMMA UpdateSizeReads ==
  ASSUME TypeOK, SaveInv, Sane, SoundInv, NEW f \in Files, UpdateSize(f)
  PROVE  SoundInv'
<1>1. /\ pc[f] = "size" /\ pc'[f] = "idle" /\ disk' = disk /\ saved' = saved
      /\ \A g \in Files : /\ header'[g].st = header[g].st
                          /\ header'[g].blocks = header[g].blocks
      /\ header'[f].size =
           (Len(header[f].blocks) - 1) * BlockSize + (BlockSize - FreeSize(LastBlock(f)))
      /\ \A g \in Files \ {f} : /\ header'[g] = header[g] /\ pc'[g] = pc[g]
                                /\ data'[g] = data[g] /\ at'[g] = at[g]
  BY DEF UpdateSize, TypeOK
<1>2. ASSUME NEW g \in Files PROVE Contents(g)' = Contents(g)
  <2>1. Listing(g)' = Listing(g) BY <1>1 DEF Listing
  <2> QED BY <1>1, <2>1, ContentsFrame
<1>3. Usable(f) BY <1>1 DEF Sane
<1>4. Listing(f) \in Listings /\ disk \in Disks /\ Len(Listing(f)) >= 1 /\ Len(Listing(f)) \in Nat
  BY <1>3, TypesOf DEF SaveInv, Usable
<1>5. FullTo(f, Len(Listing(f)) - 1) BY <1>1, <1>3 DEF Sane, FileInv
<1>6. ASSUME NEW i \in 1 .. Len(Listing(f)) - 1
      PROVE  Len(HeldIn(disk, Listing(f)[i])) = BlockSize
  <2>1. i \in 1 .. Len(Listing(f)) BY <1>4
  <2>2. Listing(f)[i] \in Blocks BY <1>3, <2>1, UsableBlocks
  <2>3. FreeSize(Listing(f)[i]) = 0 BY <1>5 DEF FullTo, Free
  <2>4. Len(Held(Listing(f)[i])) = BlockSize BY <2>2, <2>3, HeldType, BlockSizeAssumption
  <2> QED BY <2>4 DEF Held, HeldIn
<1>7. Len(Contents(f)) =
        (Len(Listing(f)) - 1) * BlockSize + Len(HeldIn(disk, Listing(f)[Len(Listing(f))]))
  BY <1>4, <1>6, BytesLength, ContentsIs
<1>8. BlockSize - FreeSize(LastBlock(f)) = Len(HeldIn(disk, Listing(f)[Len(Listing(f))]))
  <2>1. LastBlock(f) = Listing(f)[Len(Listing(f))] BY DEF LastBlock, Last, Listing
  <2>2. LastBlock(f) \in Blocks BY <1>3, <1>4, <2>1, UsableBlocks
  <2>3. BlockSize - FreeSize(LastBlock(f)) = Len(Held(LastBlock(f)))
    BY <2>2, HeldType, BlockSizeAssumption
  <2>4. Held(LastBlock(f)) = HeldIn(disk, LastBlock(f)) BY DEF Held, HeldIn
  <2> QED BY <2>1, <2>3, <2>4
<1>9. header'[f].size = Len(Contents(f)) BY <1>1, <1>7, <1>8 DEF Listing
<1>10. Reads(f)'
  <2>1. Left(f)' = <<>> /\ Left(f) = <<>> BY <1>1 DEF Left
  <2>2. Reads(f) BY <1>3 DEF SoundInv
  <2> QED BY <1>1, <1>2, <1>9, <2>1, <2>2 DEF Reads
<1> QED BY <1>1, <1>2, <1>10, OthersRead

\* The other files keep their blocks.
LEMMA DeleteReads ==
  ASSUME TypeOK, SaveInv, Sane, SoundInv, NEW f \in Files, Delete(f)
  PROVE  SoundInv'
<1>1. /\ disk' = [b \in DOMAIN disk |->
                    IF b \in Range(header[f].blocks) THEN <<>> ELSE disk[b]]
      /\ header'[f] = NoFile /\ \A g \in Files \ {f} : header'[g] = header[g]
      /\ pc' = pc /\ data' = data /\ at' = at
      /\ \A g \in Files \ {f} : saved'[g] = saved[g]
  BY DEF Delete, saving, TypeOK
<1>2. ~Usable(f)' BY <1>1 DEF Usable, NoFile
<1>3. ASSUME NEW g \in Files \ {f}, Usable(g) PROVE Contents(g)' = Contents(g)
  <2>1. ASSUME NEW i \in 1 .. Len(Listing(g)) PROVE disk'[Listing(g)[i]] = disk[Listing(g)[i]]
    <3>1. Listing(g)[i] \in Blocks BY <1>3, UsableBlocks
    <3>2. Listing(g)[i] \notin Range(header[f].blocks)
      <4> SUFFICES ASSUME Listing(g)[i] \in Range(header[f].blocks) PROVE FALSE OBVIOUS
      <4>1. PICK j \in DOMAIN Listing(f) : Listing(f)[j] = Listing(g)[i] BY DEF Range, Listing
      <4>2. j \in 1 .. Len(Listing(f)) BY TypesOf
      <4> QED BY <3>1, <4>1, <4>2, BlocksAssumption DEF Sane, Apart
    <3> QED BY <1>1, <3>1, <3>2 DEF TypeOK
  <2>2. Listing(g)' = Listing(g) BY <1>1 DEF Listing
  <2> QED BY <2>1, <2>2, ContentsFrame
<1> QED BY <1>1, <1>2, <1>3, OthersRead

\* A crash that hits no save and finds no listed block empty changes nothing of this.
LEMMA CrashReads ==
  ASSUME TypeOK, SaveInv, Sane, SoundInv, Crash, sound'
  PROVE  SoundInv'
<1>1. \A f \in Files : pc[f] = "idle" BY DEF Crash
<1>2. header' = header
  <2>1. PICK ls \in SUBSET {f \in Files : pc[f] \in {"grow", "size"}} :
          header' = [f \in Files |-> IF f \in ls THEN LostFile ELSE header[f]]
    BY DEF Crash
  <2>2. ls = {} BY <1>1
  <2> QED BY <2>1, <2>2 DEF TypeOK
<1>3. disk' = disk /\ \A f \in Files : saved'[f] = saved[f] /\ pc'[f] = "idle" BY <1>1 DEF Crash
<1> SUFFICES ASSUME NEW f \in Files, Usable(f)' PROVE Reads(f)' BY DEF SoundInv
<1>4. Usable(f) /\ Reads(f) BY <1>2 DEF Usable, SoundInv
<1>5. Contents(f)' = Contents(f)
  <2>1. Listing(f)' = Listing(f) BY <1>2 DEF Listing
  <2> QED BY <1>3, <2>1, ContentsFrame
<1>6. Left(f) = <<>> /\ Left(f)' = <<>> BY <1>1, <1>3 DEF Left
<1> QED BY <1>1, <1>2, <1>3, <1>4, <1>5, <1>6 DEF Reads

-----------------------------------------------------------------------------
(* After a crash in the middle of a save.                                  *)

\* A beginning of a beginning is one.
LEMMA BeginsTrans ==
  ASSUME NEW T, NEW u, NEW v, NEW w, u \in Seq(T), Begins(u, v, T), Begins(v, w, T)
  PROVE  Begins(u, w, T)
<1>1. PICK d \in Seq(T) : v = u \o d BY DEF Begins
<1>2. PICK e \in Seq(T) : w = v \o e BY DEF Begins
<1>3. w = u \o (d \o e) BY <1>1, <1>2, InTurn
<1>4. d \o e \in Seq(T) OBVIOUS
<1> QED BY <1>3, <1>4 DEF Begins

\* A sequence begins with itself.
LEMMA BeginsSelf == ASSUME NEW T, NEW u, u \in Seq(T) PROVE Begins(u, u, T)
<1>1. u = u \o <<>> /\ <<>> \in Seq(T) BY ConcatEmptySeq
<1> QED BY <1>1 DEF Begins

\* What Begins says is what IsPrefix of the library does.
LEMMA BeginsPrefix ==
  ASSUME NEW T, NEW u, NEW v, u \in Seq(T), Begins(u, v, T)
  PROVE  IsPrefix(u, v)
<1>1. PICK d \in Seq(T) : v = u \o d BY DEF Begins
<1>2. /\ v \in Seq(T) /\ Len(v) = Len(u) + Len(d) /\ Len(u) \in Nat /\ Len(d) \in Nat
      /\ \A i \in 1 .. Len(u) : v[i] = u[i]
  BY <1>1
<1>3. Len(u) <= Len(v) BY <1>2
<1>4. SubSeq(u, 1, Len(u)) = u BY SubSeqFull
<1>5. SubSeq(v, 1, Len(u)) = u
  <2>1. \A i \in 1 .. Len(u) : v[i] \in T BY <1>2
  <2>2. /\ SubSeq(v, 1, Len(u)) \in Seq(T)
        /\ Len(SubSeq(v, 1, Len(u))) = Len(u)
        /\ \A i \in 1 .. Len(u) : SubSeq(v, 1, Len(u))[i] = v[i]
    BY <1>2, <1>3
  <2> DEFINE x == SubSeq(v, 1, Len(u))
  <2> HIDE DEF x
  <2>3. x \in Seq(T) /\ Len(x) = Len(u) /\ \A i \in 1 .. Len(u) : x[i] = u[i]
    BY <1>2, <2>2 DEF x
  <2>4. x = u BY <2>3
  <2> QED BY <2>4 DEF x
<1> QED BY <1>3, <1>4, <1>5 DEF IsPrefix

\* The first pieces go on when the last of them does.
LEMMA LeadingGrows ==
  ASSUME NEW T, NEW s \in Lists(T), NEW t \in Lists(T), NEW k \in 0 .. Len(s), k <= Len(t),
         \A i \in 1 .. k - 1 : t[i] = s[i], k > 0 => Begins(s[k], t[k], T)
  PROVE  Begins(Leading(s, k), Leading(t, k), T)
<1>l. /\ Len(s) \in Nat /\ Len(t) \in Nat /\ \A i \in 1 .. Len(s) : s[i] \in Seq(T) BY ListsType
<1>1. CASE k = 0
  <2>1. Leading(s, k) = <<>> /\ Leading(t, k) = <<>> BY <1>1 DEF Leading
  <2>2. <<>> \in Seq(T) OBVIOUS
  <2> QED BY <2>1, <2>2, BeginsSelf
<1>2. CASE k # 0
  <2>1. PICK p \in 0 .. Len(s) - 1 : p + 1 = k /\ p = k - 1
    <3>1. k - 1 \in 0 .. Len(s) - 1 /\ k - 1 + 1 = k BY <1>l, <1>2
    <3> QED BY <3>1
  <2>2. Leading(s, p) = Leading(t, p)
    <3>1. p \in Nat /\ p <= Len(s) /\ p <= Len(t) BY <1>l, <2>1
    <3>2. \A i \in 1 .. p : s[i] = t[i] BY <2>1
    <3> QED BY <3>1, <3>2, LeadingSame
  <2>3. Leading(s, k) = Leading(s, p) \o s[k]
    <3>1. Leading(s, p + 1) = Leading(s, p) \o s[p + 1] BY LeadingSteps
    <3> QED BY <2>1, <3>1
  <2>4. Leading(t, k) = Leading(t, p) \o t[k]
    <3>1. p \in 0 .. Len(t) - 1 BY <1>l, <2>1
    <3>2. Leading(t, p + 1) = Leading(t, p) \o t[p + 1] BY <3>1, LeadingSteps
    <3> QED BY <2>1, <3>2
  <2>5. PICK u \in Seq(T) : u = Leading(s, p)
    <3>1. p \in 0 .. Len(s) BY <1>l
    <3>2. Leading(s, p) \in Seq(T) BY <3>1, LeadingType
    <3> QED BY <3>2
  <2>6. PICK v \in Seq(T) : v = s[k]
    <3>1. s[k] \in Seq(T) BY <1>l, <1>2
    <3> QED BY <3>1
  <2>7. PICK e \in Seq(T) : t[k] = v \o e
    <3>1. Begins(s[k], t[k], T) BY <1>2
    <3> QED BY <2>6, <3>1 DEF Begins
  <2>8. (u \o v) \o e = u \o (v \o e) BY SMTT(30), InTurn
  <2>9. Leading(t, k) = Leading(s, k) \o e BY <2>2, <2>3, <2>4, <2>5, <2>6, <2>7, <2>8
  <2> QED BY <2>9 DEF Begins
<1> QED BY <1>1, <1>2

\* The first k blocks of f keep what its complete saves were given: they have
\* their bits and are no other file's, and saves write to none of them but the last.
Safe(f, k) ==
  /\ \A i \in 1 .. k :
       /\ Listing(f)[i] \in bitmap
       /\ Held(Listing(f)[i]) # <<>>
       /\ i < k => Free(f, i) = 0
       /\ \A g \in Files : \A j \in 1 .. Len(Listing(g)) :
            Listing(f)[i] = Listing(g)[j] => f = g /\ i = j
  /\ Begins(saved[f], Leading(PiecesOf(Listing(f), disk), k), Bytes)

UnsoundInv == \A f \in Files : Usable(f) => \E k \in 0 .. Len(Listing(f)) : Safe(f, k)

\* What a step may do for the first k blocks of f to stay safe.
LEMMA KeepSafe ==
  ASSUME TypeOK, TypeOK', NEW f \in Files, NEW k \in 0 .. Len(Listing(f)), Safe(f, k),
         saved'[f] = saved[f], k <= Len(Listing(f)'),
         \A i \in 1 .. k : /\ Listing(f)'[i] = Listing(f)[i]
                           /\ Listing(f)[i] \in bitmap'
                           /\ i < k => disk'[Listing(f)[i]] = disk[Listing(f)[i]],
         k > 0 => Begins(Held(Listing(f)[k]), HeldIn(disk', Listing(f)[k]), Bytes),
         \A i \in 1 .. k : \A g \in Files : \A j \in 1 .. Len(Listing(g)') :
           Listing(f)[i] = Listing(g)'[j] => f = g /\ i = j
  PROVE  Safe(f, k)'
<1> DEFINE s == PiecesOf(Listing(f), disk)
           t == PiecesOf(Listing(f)', disk')
<1>1. Listing(f) \in Listings /\ disk \in Disks /\ Len(Listing(f)) \in Nat BY TypesOf
<1>2. Listing(f)' \in Listings /\ disk' \in Disks BY DEF TypeOK, Listings, Disks, Listing
<1>3. /\ s \in Lists(Bytes) /\ Len(s) = Len(Listing(f))
      /\ \A i \in 1 .. Len(Listing(f)) : s[i] = HeldIn(disk, Listing(f)[i])
  BY <1>1, PiecesType
<1>4. /\ t \in Lists(Bytes) /\ Len(t) = Len(Listing(f)') /\ Len(Listing(f)') \in Nat
      /\ \A i \in 1 .. Len(Listing(f)') : t[i] = HeldIn(disk', Listing(f)'[i])
  BY <1>2, PiecesType
<1> HIDE DEF s, t
<1>5. \A i \in 1 .. k - 1 : t[i] = s[i]
  <2> SUFFICES ASSUME NEW i \in 1 .. k - 1 PROVE t[i] = s[i] OBVIOUS
  <2>1. i \in 1 .. k /\ i < k /\ i \in 1 .. Len(Listing(f)) /\ i \in 1 .. Len(Listing(f)')
    BY <1>1, <1>4
  <2>2. s[i] = HeldIn(disk, Listing(f)[i]) BY <1>3, <2>1
  <2>3. t[i] = HeldIn(disk', Listing(f)[i]) BY <1>4, <2>1
  <2>4. disk'[Listing(f)[i]] = disk[Listing(f)[i]] BY <2>1
  <2> QED BY <2>2, <2>3, <2>4 DEF HeldIn
<1>6. k > 0 => Begins(s[k], t[k], Bytes)
  <2> SUFFICES ASSUME k > 0 PROVE Begins(s[k], t[k], Bytes) OBVIOUS
  <2>1. k \in 1 .. k /\ k \in 1 .. Len(Listing(f)) /\ k \in 1 .. Len(Listing(f)') BY <1>1, <1>4
  <2>2. s[k] = Held(Listing(f)[k]) BY <1>3, <2>1 DEF Held, HeldIn
  <2>3. t[k] = HeldIn(disk', Listing(f)[k]) BY <1>4, <2>1
  <2> QED BY <2>2, <2>3
<1>7. Begins(saved'[f], Leading(t, k), Bytes)
  <2>1. k \in 0 .. Len(s) /\ k <= Len(t) BY <1>3, <1>4
  <2>2. Begins(Leading(s, k), Leading(t, k), Bytes) BY <1>3, <1>4, <1>5, <1>6, <2>1, LeadingGrows
  <2>3. Begins(saved[f], Leading(s, k), Bytes) BY DEF Safe, s
  <2>4. saved[f] \in Seq(Bytes) BY DEF TypeOK
  <2>5. Begins(saved[f], Leading(t, k), Bytes) BY <2>2, <2>3, <2>4, BeginsTrans
  <2> QED BY <2>5
<1>8. ASSUME NEW i \in 1 .. k
      PROVE  /\ Listing(f)'[i] \in bitmap'
             /\ Held(Listing(f)[i])' # <<>>
             /\ i < k => Free(f, i)' = 0
             /\ \A g \in Files : \A j \in 1 .. Len(Listing(g)') :
                  Listing(f)'[i] = Listing(g)'[j] => f = g /\ i = j
  <2>1. Listing(f)'[i] = Listing(f)[i] /\ Listing(f)[i] \in bitmap' OBVIOUS
  <2>2. CASE i < k
    <3>1. disk'[Listing(f)'[i]] = disk[Listing(f)[i]] BY <2>1, <2>2
    <3>2. Held(Listing(f)[i])' = Held(Listing(f)[i]) BY <3>1 DEF Held
    <3>3. Free(f, i)' = Free(f, i) BY <3>2 DEF Free, FreeSize
    <3> QED BY <2>1, <2>2, <3>2, <3>3 DEF Safe
  <2>3. CASE i = k
    <3>1. Begins(Held(Listing(f)[k]), HeldIn(disk', Listing(f)[k]), Bytes) BY <2>3
    <3>2. PICK e \in Seq(Bytes) : HeldIn(disk', Listing(f)[k]) = Held(Listing(f)[k]) \o e
      BY <3>1 DEF Begins
    <3>3. Held(Listing(f)[k]) # <<>> /\ Held(Listing(f)[k]) \in Seq(Bytes)
      <4>1. Listing(f)[k] \in Blocks BY <2>3 DEF Safe, TypeOK
      <4> QED BY <2>3, <4>1, HeldType DEF Safe
    <3>4. HeldIn(disk', Listing(f)[k]) # <<>> BY <3>2, <3>3, ConcatEqualIffEmpty
    <3>5. Held(Listing(f)[i])' = HeldIn(disk', Listing(f)[k]) BY <2>1, <2>3 DEF Held, HeldIn
    <3> QED BY <2>1, <2>3, <3>4, <3>5
  <2> QED BY <2>2, <2>3
<1> QED BY <1>7, <1>8 DEF Safe, t

\* Files in which a step changes neither listing nor saved data, the safe
\* blocks keep their bits, and what they hold stays or goes on.
LEMMA StaySafe ==
  ASSUME TypeOK, TypeOK', NEW f \in Files, NEW k \in 0 .. Len(Listing(f)), Safe(f, k),
         saved'[f] = saved[f], header' = header,
         \A i \in 1 .. k : /\ Listing(f)[i] \in bitmap'
                           /\ i < k => disk'[Listing(f)[i]] = disk[Listing(f)[i]],
         k > 0 => Begins(Held(Listing(f)[k]), HeldIn(disk', Listing(f)[k]), Bytes)
  PROVE  Safe(f, k)'
<1>1. \A g \in Files : Listing(g)' = Listing(g) BY DEF Listing
<1>2. k <= Len(Listing(f)') BY <1>1, TypesOf
<1>3. \A i \in 1 .. k : Listing(f)'[i] = Listing(f)[i] BY <1>1
<1>4. \A i \in 1 .. k : \A g \in Files : \A j \in 1 .. Len(Listing(g)') :
        Listing(f)[i] = Listing(g)'[j] => f = g /\ i = j
  BY <1>1 DEF Safe
<1> QED BY <1>2, <1>3, <1>4, KeepSafe

\* A block that is not written to goes on with nothing.
LEMMA HeldSame ==
  ASSUME TypeOK, NEW b \in Blocks \cup {NoBlock}, disk'[b] = disk[b]
  PROVE  Begins(Held(b), HeldIn(disk', b), Bytes)
<1>1. Held(b) \in Seq(Bytes) BY HeldType
<1>2. HeldIn(disk', b) = Held(b) BY DEF Held, HeldIn
<1> QED BY <1>1, <1>2, BeginsSelf

\* What is saved into a block that holds something goes on where it ended.
LEMMA HeldMore ==
  ASSUME TypeOK, NEW b \in Blocks \cup {NoBlock}, NEW d \in Seq(Bytes), disk' = SavedInto(b, d),
         Held(b) # <<>>
  PROVE  Begins(Held(b), HeldIn(disk', b), Bytes)
<1>1. /\ Held(b) \in Seq(Bytes) /\ Held(b) # <<Mark>> /\ Len(Held(b)) \in Nat BY HeldType
<1>2. disk'[b] = Held(b) \o d BY DEF SavedInto, TypeOK
<1>3. Held(b) \o d # <<Mark>>
  <2>1. CASE d = <<>> BY <1>1, <2>1, NotJustMark
  <2>2. CASE d # <<>>
    <3>1. Len(d) \in Nat /\ Len(d) # 0 BY <2>2
    <3>2. Len(Held(b)) # 0 BY <1>1
    <3>3. Len(Held(b)) + Len(d) >= 2 BY <1>1, <3>1, <3>2
    <3> QED BY <1>1, <3>3, NotJustMark
  <2> QED BY <2>1, <2>2
<1>4. HeldIn(disk', b) = Held(b) \o d BY <1>2, <1>3 DEF HeldIn
<1> QED BY <1>4 DEF Begins

\* Saving into the last block of a file, or into one that is not full.
LEMMA WriteSafe ==
  ASSUME TypeOK, TypeOK', UnsoundInv, NEW g \in Files, NEW b, NEW d \in Seq(Bytes),
         \/ b = NoBlock
         \/ \E w \in 1 .. Len(Listing(g)) :
              b = Listing(g)[w] /\ (w = Len(Listing(g)) \/ Free(g, w) # 0),
         disk' = SavedInto(b, d), header' = header, bitmap' = bitmap, saved' = saved
  PROVE  UnsoundInv'
<1> SUFFICES ASSUME NEW f \in Files, Usable(f)' PROVE \E k \in 0 .. Len(Listing(f)') : Safe(f, k)'
  BY DEF UnsoundInv
<1>1. Usable(f) BY DEF Usable
<1>2. PICK k \in 0 .. Len(Listing(f)) : Safe(f, k) BY <1>1 DEF UnsoundInv
<1>3. Len(Listing(f)) \in Nat BY TypesOf
<1>4. \A i \in 1 .. k : Listing(f)[i] \in Blocks /\ Listing(f)[i] \in bitmap
  BY <1>2 DEF Safe, TypeOK
<1>5. ASSUME NEW i \in 1 .. k, Listing(f)[i] = b PROVE i = k
  <2>1. b # NoBlock BY <1>4, <1>5, BlocksAssumption
  <2>2. PICK w \in 1 .. Len(Listing(g)) :
          b = Listing(g)[w] /\ (w = Len(Listing(g)) \/ Free(g, w) # 0)
    BY <2>1
  <2>3. f = g /\ i = w BY <1>2, <1>5, <2>2 DEF Safe
  <2>4. i < k => Free(f, i) = 0 BY <1>2 DEF Safe
  <2> QED BY <1>3, <2>2, <2>3, <2>4
<1>6. ASSUME NEW i \in 1 .. k, Listing(f)[i] # b PROVE disk'[Listing(f)[i]] = disk[Listing(f)[i]]
  BY <1>4, <1>6 DEF SavedInto, TypeOK
<1>7. \A i \in 1 .. k : i < k => disk'[Listing(f)[i]] = disk[Listing(f)[i]]
  <2> SUFFICES ASSUME NEW i \in 1 .. k, i < k PROVE disk'[Listing(f)[i]] = disk[Listing(f)[i]]
    OBVIOUS
  <2>1. Listing(f)[i] # b BY <1>5
  <2> QED BY <1>6, <2>1
<1>8. k > 0 => Begins(Held(Listing(f)[k]), HeldIn(disk', Listing(f)[k]), Bytes)
  <2> SUFFICES ASSUME k > 0
               PROVE  Begins(Held(Listing(f)[k]), HeldIn(disk', Listing(f)[k]), Bytes)
    OBVIOUS
  <2>1. k \in 1 .. k BY <1>3
  <2>2. Listing(f)[k] \in Blocks /\ Held(Listing(f)[k]) # <<>> BY <1>2, <1>4, <2>1 DEF Safe
  <2>3. CASE Listing(f)[k] = b BY <2>2, <2>3, HeldMore
  <2>4. CASE Listing(f)[k] # b
    <3>1. disk'[Listing(f)[k]] = disk[Listing(f)[k]] BY <1>6, <2>1, <2>4
    <3> QED BY <2>2, <3>1, HeldSame
  <2> QED BY <2>3, <2>4
<1>9. Safe(f, k)' BY <1>2, <1>4, <1>7, <1>8, StaySafe
<1>10. Listing(f)' = Listing(f) BY DEF Listing
<1> QED BY <1>9, <1>10

\* The first free block is a block of the file that is not full, or none.
LEMMA FirstFreeIs ==
  ASSUME TypeOK, NEW f \in Files
  PROVE  \/ FirstFreeBlock(f) = NoBlock
         \/ \E w \in 1 .. Len(Listing(f)) : FirstFreeBlock(f) = Listing(f)[w] /\ Free(f, w) # 0
<1> DEFINE bs   == header[f].blocks
           open == {i \in DOMAIN bs : FreeSize(bs[i]) # 0}
<1>1. DOMAIN bs = 1 .. Len(Listing(f)) /\ Len(Listing(f)) \in Nat BY TypesOf DEF Listing
<1>2. CASE open = {} BY <1>2 DEF FirstFreeBlock
<1>3. CASE open # {}
  <2>1. open \in SUBSET Nat BY <1>1
  <2>2. \E i \in open : \A j \in open : i <= j
    <3> HIDE DEF open
    <3> QED BY <1>3, <2>1, Least
  <2>3. PICK w \in open : w = CHOOSE i \in open : \A j \in open : i <= j BY <2>2
  <2>4. FirstFreeBlock(f) = bs[w] BY <1>3, <2>3 DEF FirstFreeBlock
  <2>5. w \in 1 .. Len(Listing(f)) /\ FreeSize(bs[w]) # 0 BY <1>1
  <2> QED BY <2>4, <2>5 DEF Listing, Free
<1> QED BY <1>2, <1>3

\* A block handed out is nobody's, and the others keep theirs: CREATE or one more block.
LEMMA NewBlockSafe ==
  ASSUME TypeOK, TypeOK', SaveInv, UnsoundInv, NoneInv, NEW g \in Files,
         NEW b \in Blocks \cup {NoBlock}, NewBlock(b),
         \/ header[g].st = "none" /\ Listing(g)' = <<b>>
         \/ header'[g].st = header[g].st /\ Listing(g)' = Append(Listing(g), b),
         \A f \in Files \ {g} : header'[f] = header[f], saved' = saved
  PROVE  UnsoundInv'
<1> SUFFICES ASSUME NEW f \in Files, Usable(f)' PROVE \E k \in 0 .. Len(Listing(f)') : Safe(f, k)'
  BY DEF UnsoundInv
<1>1. CASE f = g /\ header[g].st = "none" /\ Listing(g)' = <<b>>
  <2>1. saved'[f] = <<>> BY <1>1 DEF NoneInv
  <2>2. Leading(PiecesOf(Listing(f)', disk'), 0) = <<>> BY DEF Leading
  <2>3. <<>> \in Seq(Bytes) /\ <<>> = <<>> \o <<>> OBVIOUS
  <2>4. Begins(saved'[f], Leading(PiecesOf(Listing(f)', disk'), 0), Bytes)
    BY <2>1, <2>2, <2>3 DEF Begins
  <2>5. Safe(f, 0)' BY <2>4 DEF Safe
  <2>6. 0 \in 0 .. Len(Listing(f)')
    <3>1. Len(Listing(f)') = 1 BY <1>1
    <3> QED BY <3>1
  <2> QED BY <2>5, <2>6
<1>2. CASE ~(f = g /\ header[g].st = "none" /\ Listing(g)' = <<b>>)
  <2>n. PICK n \in Nat : n = Len(Listing(f)) BY TypesOf
  <2>1. /\ header'[f].st = header[f].st
        /\ \A i \in 1 .. n : Listing(f)'[i] = Listing(f)[i]
        /\ Len(Listing(f)') \in {n, n + 1}
        /\ DOMAIN Listing(f)' = 1 .. Len(Listing(f)')
    <3>1. CASE f = g
      <4>1. header'[f].st = header[f].st /\ Listing(f)' = Append(Listing(f), b) BY <1>2, <3>1
      <4>2. Listing(f) \in Seq(Blocks \cup {NoBlock}) BY DEF TypeOK, Listing
      <4> QED BY <2>n, <4>1, <4>2
    <3>2. CASE f # g
      <4>1. Listing(f)' = Listing(f) /\ header'[f].st = header[f].st BY <3>2 DEF Listing
      <4>2. Listing(f) \in Seq(Blocks \cup {NoBlock}) BY DEF TypeOK, Listing
      <4> QED BY <2>n, <4>1, <4>2
    <3> QED BY <3>1, <3>2
  <2>m. PICK m \in Nat : m = Len(Listing(f)') /\ n <= m
    <3>1. Len(Listing(f)') = n \/ Len(Listing(f)') = n + 1 BY <2>1
    <3>2. n \in Nat /\ n + 1 \in Nat /\ n <= n /\ n <= n + 1 BY <2>n
    <3>3. \E m \in {n, n + 1} : m = Len(Listing(f)') BY <3>1
    <3>4. PICK m \in {n, n + 1} : m = Len(Listing(f)') BY <3>3
    <3>5. m \in Nat /\ n <= m BY <3>2, <3>4
    <3> QED BY <3>4, <3>5
  <2>2. Usable(f)
    <3>1. DOMAIN Listing(f) = 1 .. n BY <2>n, TypesOf
    <3>2. ASSUME NEW x \in Range(Listing(f)) PROVE x \in Range(Listing(f)')
      <4>1. PICK i \in 1 .. n : x = Listing(f)[i] BY <3>1 DEF Range
      <4>2. i \in 1 .. m BY <2>m
      <4>3. i \in DOMAIN Listing(f)' /\ Listing(f)'[i] = x BY <2>1, <2>m, <4>1, <4>2
      <4> QED BY <4>3 DEF Range
    <3> QED BY <2>1, <3>2 DEF Usable, Listing
  <2>3. PICK k \in 0 .. n : Safe(f, k) BY <2>2, <2>n DEF UnsoundInv
  <2>4. \A i \in 1 .. k : Listing(f)[i] \in Blocks /\ Listing(f)[i] \in bitmap
    BY <2>3 DEF Safe, TypeOK
  <2>5. bitmap \subseteq bitmap' /\ \A c \in bitmap : c # b /\ disk'[c] = disk[c]
    <3>1. CASE b \in Blocks \ bitmap
      <4>1. b # NoBlock BY <3>1, BlocksAssumption
      <4>2. PICK mark \in {<<Mark>>, <<>>} : disk' = [disk EXCEPT ![b] = @ \o mark]
        BY <4>1 DEF NewBlock
      <4>3. bitmap' = bitmap \cup {b} BY <4>1 DEF NewBlock
      <4> QED BY <3>1, <4>2, <4>3 DEF TypeOK
    <3>2. CASE b = NoBlock /\ disk' = disk /\ bitmap' = bitmap
      BY <3>2, BlocksAssumption DEF TypeOK
    <3> QED BY <3>1, <3>2 DEF NewBlock
  <2>6. \A i \in 1 .. k : /\ Listing(f)[i] # b /\ Listing(f)[i] \in bitmap'
                          /\ disk'[Listing(f)[i]] = disk[Listing(f)[i]]
    BY <2>4, <2>5
  <2>7. k > 0 => Begins(Held(Listing(f)[k]), HeldIn(disk', Listing(f)[k]), Bytes)
    <3> SUFFICES ASSUME k > 0
                 PROVE  Begins(Held(Listing(f)[k]), HeldIn(disk', Listing(f)[k]), Bytes)
      OBVIOUS
    <3>1. k \in 1 .. k OBVIOUS
    <3> QED BY <2>4, <2>6, <3>1, HeldSame
  <2>8. ASSUME NEW i \in 1 .. k, NEW h \in Files, NEW j \in 1 .. Len(Listing(h)'),
               Listing(f)[i] = Listing(h)'[j]
        PROVE  f = h /\ i = j
    <3>1. j \in 1 .. Len(Listing(h)) /\ Listing(h)'[j] = Listing(h)[j]
      <4>1. CASE h # g
        <5>1. Listing(h)' = Listing(h) BY <4>1 DEF Listing
        <5> QED BY <5>1
      <4>2. CASE h = g /\ Listing(g)' = <<b>>
        <5>1. j \in 1 .. 1 BY <4>2
        <5>2. Listing(h)'[j] = b BY <4>2, <5>1
        <5> QED BY <2>6, <2>8, <5>2
      <4>3. CASE h = g /\ Listing(g)' = Append(Listing(g), b)
        <5>1. Listing(h) \in Seq(Blocks \cup {NoBlock}) BY DEF TypeOK, Listing
        <5>2. PICK l \in Nat : l = Len(Listing(h)) BY TypesOf
        <5>3. Len(Listing(h)') = l + 1 /\ Listing(h)'[l + 1] = b
              /\ \A x \in 1 .. l : Listing(h)'[x] = Listing(h)[x]
          BY <4>3, <5>1, <5>2
        <5>4. j # l + 1 BY <2>6, <2>8, <5>3
        <5>5. j \in 1 .. l BY <5>3, <5>4
        <5> QED BY <5>2, <5>3, <5>5
      <4> QED BY <4>1, <4>2, <4>3
    <3>2. Listing(f)[i] = Listing(h)[j] BY <2>8, <3>1
    <3> QED BY <2>3, <3>1, <3>2 DEF Safe
  <2>9. k \in 0 .. Len(Listing(f)) /\ k <= Len(Listing(f)') /\ k \in 0 .. Len(Listing(f)')
    BY <2>n, <2>m
  <2>10. \A i \in 1 .. k : Listing(f)'[i] = Listing(f)[i]
    <3>1. \A i \in 1 .. k : i \in 1 .. n OBVIOUS
    <3> QED BY <2>1, <3>1
  <2>11. saved'[f] = saved[f] OBVIOUS
  <2>12. Safe(f, k)' BY <2>3, <2>6, <2>7, <2>8, <2>9, <2>10, <2>11, KeepSafe
  <2> QED BY <2>9, <2>12
<1> QED BY <1>1, <1>2

\* A file that is removed frees none of another's safe blocks.
LEMMA DeleteSafe ==
  ASSUME TypeOK, TypeOK', UnsoundInv, NEW g \in Files, Delete(g)
  PROVE  UnsoundInv'
<1>1. /\ disk' = [b \in DOMAIN disk |->
                    IF b \in Range(header[g].blocks) THEN <<>> ELSE disk[b]]
      /\ bitmap' = bitmap \ Range(header[g].blocks)
      /\ header'[g] = NoFile /\ \A f \in Files \ {g} : header'[f] = header[f]
      /\ \A f \in Files \ {g} : saved'[f] = saved[f]
  BY DEF Delete, saving, TypeOK
<1> SUFFICES ASSUME NEW f \in Files, Usable(f)' PROVE \E k \in 0 .. Len(Listing(f)') : Safe(f, k)'
  BY DEF UnsoundInv
<1>2. f # g BY <1>1 DEF Usable, NoFile
<1>3. Listing(f)' = Listing(f) /\ Usable(f) BY <1>1, <1>2 DEF Listing, Usable
<1>4. PICK k \in 0 .. Len(Listing(f)) : Safe(f, k) BY <1>3 DEF UnsoundInv
<1>5. ASSUME NEW i \in 1 .. k
      PROVE  /\ Listing(f)[i] \in Blocks /\ Listing(f)[i] \in bitmap'
             /\ disk'[Listing(f)[i]] = disk[Listing(f)[i]]
  <2>1. Listing(f)[i] \in bitmap /\ Listing(f)[i] \in Blocks BY <1>4 DEF Safe, TypeOK
  <2>2. Listing(f)[i] \notin Range(header[g].blocks)
    <3> SUFFICES ASSUME Listing(f)[i] \in Range(header[g].blocks) PROVE FALSE OBVIOUS
    <3>1. PICK j \in DOMAIN Listing(g) : Listing(g)[j] = Listing(f)[i] BY DEF Range, Listing
    <3>2. j \in 1 .. Len(Listing(g)) BY TypesOf
    <3> QED BY <1>2, <1>4, <3>1, <3>2 DEF Safe
  <2> QED BY <1>1, <2>1, <2>2 DEF TypeOK
<1>6. k > 0 => Begins(Held(Listing(f)[k]), HeldIn(disk', Listing(f)[k]), Bytes)
  <2> SUFFICES ASSUME k > 0
               PROVE  Begins(Held(Listing(f)[k]), HeldIn(disk', Listing(f)[k]), Bytes)
    OBVIOUS
  <2>1. k \in 1 .. k BY <1>3, TypesOf
  <2> QED BY <1>5, <2>1, HeldSame
<1>7. ASSUME NEW i \in 1 .. k, NEW h \in Files, NEW j \in 1 .. Len(Listing(h)'),
             Listing(f)[i] = Listing(h)'[j]
      PROVE  f = h /\ i = j
  <2>1. h # g
    <3>1. Len(Listing(g)') = 0 BY <1>1 DEF NoFile, Listing
    <3> QED BY <1>7, <3>1
  <2>2. Listing(h)' = Listing(h) BY <1>1, <2>1 DEF Listing
  <2> QED BY <1>4, <1>7, <2>2 DEF Safe
<1>8. k \in 0 .. Len(Listing(f)) /\ k <= Len(Listing(f)') /\ k \in 0 .. Len(Listing(f)')
  BY <1>3, TypesOf
<1>9. \A i \in 1 .. k : Listing(f)'[i] = Listing(f)[i] BY <1>3
<1>10. saved'[f] = saved[f] BY <1>1, <1>2
<1>11. Safe(f, k)' BY <1>4, <1>5, <1>6, <1>7, <1>8, <1>9, <1>10, KeepSafe
<1> QED BY <1>8, <1>11

\* Steps that leave the disk, the bits and what is listed alone.
LEMMA QuietSafe ==
  ASSUME TypeOK, TypeOK', UnsoundInv, disk' = disk, bitmap' = bitmap, saved' = saved,
         \A f \in Files : header'[f].st = header[f].st /\ header'[f].blocks = header[f].blocks
  PROVE  UnsoundInv'
<1> SUFFICES ASSUME NEW f \in Files, Usable(f)' PROVE \E k \in 0 .. Len(Listing(f)') : Safe(f, k)'
  BY DEF UnsoundInv
<1>1. Usable(f) /\ \A g \in Files : Listing(g)' = Listing(g) BY DEF Usable, Listing
<1>2. PICK k \in 0 .. Len(Listing(f)) : Safe(f, k) BY <1>1 DEF UnsoundInv
<1>3. \A i \in 1 .. k : /\ Listing(f)'[i] = Listing(f)[i]
                        /\ Listing(f)[i] \in Blocks /\ Listing(f)[i] \in bitmap'
                        /\ disk'[Listing(f)[i]] = disk[Listing(f)[i]]
  BY <1>1, <1>2 DEF Safe, TypeOK
<1>4. k > 0 => Begins(Held(Listing(f)[k]), HeldIn(disk', Listing(f)[k]), Bytes)
  <2> SUFFICES ASSUME k > 0
               PROVE  Begins(Held(Listing(f)[k]), HeldIn(disk', Listing(f)[k]), Bytes)
    OBVIOUS
  <2>1. k \in 1 .. k BY TypesOf
  <2> QED BY <1>3, <2>1, HeldSame
<1>5. \A i \in 1 .. k : \A g \in Files : \A j \in 1 .. Len(Listing(g)') :
        Listing(f)[i] = Listing(g)'[j] => f = g /\ i = j
  BY <1>1, <1>2 DEF Safe
<1>6. k \in 0 .. Len(Listing(f)) /\ k <= Len(Listing(f)') /\ k \in 0 .. Len(Listing(f)')
  BY <1>1, TypesOf
<1>7. Safe(f, k)' BY <1>2, <1>3, <1>4, <1>5, <1>6, KeepSafe
<1> QED BY <1>6, <1>7

\* One more crash, whatever it finds.
LEMMA CrashSafe ==
  ASSUME TypeOK, TypeOK', UnsoundInv, ~sound, Crash
  PROVE  UnsoundInv'
<1>1. PICK ls \in SUBSET {f \in Files : pc[f] \in {"grow", "size"}} :
        header' = [f \in Files |-> IF f \in ls THEN LostFile ELSE header[f]]
  BY DEF Crash
<1>2. disk' = disk /\ bitmap' = BlocksInUse /\ \A f \in Files : saved'[f] = saved[f]
  BY DEF Crash
<1>3. ASSUME NEW f \in Files PROVE header'[f] = LostFile \/ header'[f] = header[f] BY <1>1
<1> SUFFICES ASSUME NEW f \in Files, Usable(f)' PROVE \E k \in 0 .. Len(Listing(f)') : Safe(f, k)'
  BY DEF UnsoundInv
<1>4. header'[f] = header[f] BY <1>3 DEF Usable, LostFile
<1>5. Usable(f) /\ Listing(f)' = Listing(f) BY <1>4 DEF Usable, Listing
<1>6. PICK k \in 0 .. Len(Listing(f)) : Safe(f, k) BY <1>5 DEF UnsoundInv
<1>7. ASSUME NEW i \in 1 .. k PROVE Listing(f)[i] \in Blocks /\ Listing(f)[i] \in bitmap'
  <2>1. Listing(f)[i] \in Blocks /\ Held(Listing(f)[i]) # <<>> BY <1>6 DEF Safe, TypeOK
  <2>2. disk[Listing(f)[i]] # <<>> BY <2>1 DEF Held
  <2> QED BY <1>2, <2>1, <2>2 DEF BlocksInUse
<1>8. k > 0 => Begins(Held(Listing(f)[k]), HeldIn(disk', Listing(f)[k]), Bytes)
  <2> SUFFICES ASSUME k > 0
               PROVE  Begins(Held(Listing(f)[k]), HeldIn(disk', Listing(f)[k]), Bytes)
    OBVIOUS
  <2>1. k \in 1 .. k BY TypesOf
  <2> QED BY <1>2, <1>7, <2>1, HeldSame
<1>9. ASSUME NEW i \in 1 .. k, NEW h \in Files, NEW j \in 1 .. Len(Listing(h)'),
             Listing(f)[i] = Listing(h)'[j]
      PROVE  f = h /\ i = j
  <2>1. CASE header'[h] = LostFile
    <3>1. Len(Listing(h)') = 0 BY <2>1 DEF LostFile, Listing
    <3> QED BY <3>1
  <2>2. CASE header'[h] = header[h]
    <3>1. Listing(h)' = Listing(h) BY <2>2 DEF Listing
    <3> QED BY <1>6, <1>9, <3>1 DEF Safe
  <2> QED BY <1>3, <2>1, <2>2
<1>10. k \in 0 .. Len(Listing(f)) /\ k <= Len(Listing(f)') /\ k \in 0 .. Len(Listing(f)')
  BY <1>5, TypesOf
<1>11. \A i \in 1 .. k : Listing(f)'[i] = Listing(f)[i] BY <1>5
<1>12. Safe(f, k)' BY <1>2, <1>6, <1>7, <1>8, <1>9, <1>10, <1>11, KeepSafe
<1> QED BY <1>10, <1>12

\* What a save cut short leaves of what it was given.
LEMMA CutBegins ==
  ASSUME NEW c \in Seq(Bytes), NEW l \in Seq(Bytes), NEW m \in Int, m <= Len(c)
  PROVE  /\ SubSeq(c \o l, 1, m) \in Seq(Bytes)
         /\ Begins(SubSeq(c \o l, 1, m), c, Bytes)
<1> DEFINE v == c \o l
<1>1. /\ v \in Seq(Bytes) /\ Len(v) = Len(c) + Len(l) /\ Len(c) \in Nat /\ Len(l) \in Nat
      /\ \A i \in 1 .. Len(c) : v[i] = c[i]
  BY ConcatProperties
<1>h. HIDE DEF v
<1>2. CASE m < 1
  <2>1. SubSeq(v, 1, m) = <<>> BY <1>2, SubSeqEmpty
  <2>2. c = <<>> \o c /\ <<>> \in Seq(Bytes) BY ConcatEmptySeq
  <2> QED BY <2>1, <2>2 DEF Begins, v
<1>3. CASE m >= 1
  <2> DEFINE u == SubSeq(v, 1, m)
             x == SubSeq(c, 1, m)
             e == SubSeq(c, m + 1, Len(c))
  <2>0. m \in Nat \ {0} /\ m <= Len(v) BY <1>1, <1>3
  <2>1. u \in Seq(Bytes) /\ Len(u) = m /\ \A i \in 1 .. m : u[i] = v[i]
    <3>1. m - 1 + 1 = m OBVIOUS
    <3>2. /\ SubSeq(v, 1, m) \in Seq(Bytes) /\ Len(SubSeq(v, 1, m)) = m - 1 + 1
          /\ \A i \in 1 .. m - 1 + 1 : SubSeq(v, 1, m)[i] = v[1 + i - 1]
      BY <1>1, <2>0, PieceOf
    <3>3. \A i \in 1 .. m : 1 + i - 1 = i OBVIOUS
    <3> QED BY <3>1, <3>2, <3>3
  <2>2. x \in Seq(Bytes) /\ Len(x) = m /\ \A i \in 1 .. m : x[i] = c[i]
    <3>1. m - 1 + 1 = m OBVIOUS
    <3>2. /\ SubSeq(c, 1, m) \in Seq(Bytes) /\ Len(SubSeq(c, 1, m)) = m - 1 + 1
          /\ \A i \in 1 .. m - 1 + 1 : SubSeq(c, 1, m)[i] = c[1 + i - 1]
      BY <2>0, PieceOf
    <3>3. \A i \in 1 .. m : 1 + i - 1 = i OBVIOUS
    <3> QED BY <3>1, <3>2, <3>3
  <2>3. e \in Seq(Bytes)
    <3>1. m + 1 \in Nat \ {0} /\ m + 1 <= Len(c) + 1 BY <1>1, <2>0
    <3> QED BY <1>1, <3>1, PieceOf
  <2>4. x \o e = c
    <3>1. 1 \in 1 .. Len(c) + 1 /\ m \in 1 - 1 .. Len(c) /\ Len(c) \in m .. Len(c) BY <1>1, <2>0
    <3>2. x \o e = SubSeq(c, 1, Len(c)) BY <3>1, ConcatAdjacentSubSeq
    <3> QED BY <3>2, SubSeqFull
  <2>h. HIDE DEF u, x, e
  <2>5. u = x
    <3>1. \A i \in 1 .. m : u[i] = x[i]
      <4>1. \A i \in 1 .. m : i \in 1 .. Len(c) BY <1>1, <2>0
      <4> QED BY <1>1, <2>1, <2>2, <4>1
    <3> QED BY <2>1, <2>2, <3>1
  <2>6. Begins(u, c, Bytes) BY <2>3, <2>4, <2>5 DEF Begins
  <2> QED BY <2>1, <2>6 DEF u, v
<1> QED BY <1>2, <1>3

\* What a save has still to put is no more than its data.
LEMMA LeftType ==
  ASSUME TypeOK, SaveInv, NEW f \in Files
  PROVE  /\ Left(f) \in Seq(Bytes) /\ Len(Left(f)) \in Nat /\ Len(data[f]) \in Nat
         /\ Len(Left(f)) <= Len(data[f])
         /\ pc[f] \in {"idle", "size"} => Left(f) = <<>>
<1>1. data[f] \in Seq(Bytes) /\ Len(data[f]) \in Nat BY DEF TypeOK
<1>2. CASE pc[f] \in {"idle", "size"}
  <2>1. Left(f) = <<>> /\ <<>> \in Seq(Bytes) /\ Len(<<>>) = 0 BY <1>2 DEF Left
  <2> QED BY <1>1, <2>1
<1>3. CASE pc[f] = "chunk"
  <2>1. at[f] \in Int /\ 0 <= at[f] /\ at[f] < Len(data[f]) BY <1>3 DEF TypeOK, SaveInv
  <2>2. PICK n \in Nat : n = Len(data[f]) BY <1>1
  <2>3. PICK a \in Nat \ {0} : a = at[f] + 1 /\ a <= n + 1 BY <2>1, <2>2
  <2>4. Left(f) = SubSeq(data[f], a, n) BY <1>3, <2>2, <2>3 DEF Left
  <2>5. SubSeq(data[f], a, n) \in Seq(Bytes) /\ Len(SubSeq(data[f], a, n)) = n - a + 1
    BY <1>1, <2>2, <2>3, PieceOf
  <2>6. n - a + 1 <= n /\ n - a + 1 \in Nat BY <2>3
  <2> QED BY <1>3, <2>2, <2>4, <2>5, <2>6
<1>4. CASE pc[f] \notin {"idle", "size", "chunk"}
  <2>1. Left(f) = data[f] BY <1>4 DEF Left
  <2> QED BY <1>1, <1>4, <2>1
<1> QED BY <1>2, <1>3, <1>4

\* While no crash has hit a save, what a file holds is in its first blocks,
\* all of them full but the last.
LEMMA HoldsFirst ==
  ASSUME TypeOK, SaveInv, Sane, NEW f \in Files, Usable(f)
  PROVE  \E k \in 0 .. Len(Listing(f)) :
           /\ \A i \in 1 .. k : Held(Listing(f)[i]) # <<>> /\ (i < k => Free(f, i) = 0)
           /\ Contents(f) = Leading(PiecesOf(Listing(f), disk), k)
<1>1. PICK n \in Nat \ {0} : n = Len(Listing(f))
  <2>1. Len(Listing(f)) \in Nat /\ Len(Listing(f)) >= 1 BY TypesOf DEF Usable, SaveInv
  <2> QED BY <2>1
<1>2. PICK p \in 1 .. n : FullTo(f, p - 1) /\ VacantFrom(f, p + 1)
  <2>0. FileInv(f) BY DEF Sane
  <2>1. CASE pc[f] \in {"idle", "size"}
    <3>1. FullTo(f, n - 1) BY <1>1, <2>0, <2>1 DEF FileInv
    <3>2. VacantFrom(f, n + 1) BY <1>1 DEF VacantFrom
    <3> QED BY <3>1, <3>2
  <2>2. CASE pc[f] \in {"grow", "fill"} BY <1>1, <2>0, <2>2 DEF FileInv
  <2>3. CASE pc[f] = "chunk"
    <3>1. PICK k \in 1 .. n : FullTo(f, k - 1) /\ VacantFrom(f, k)
      BY <1>1, <2>0, <2>3 DEF FileInv
    <3>2. VacantFrom(f, k + 1) BY <1>1, <3>1 DEF VacantFrom
    <3> QED BY <3>1, <3>2
  <2> QED BY <2>1, <2>2, <2>3 DEF TypeOK
<1>3. ASSUME NEW i \in 1 .. p, i < p PROVE Held(Listing(f)[i]) # <<>> /\ Free(f, i) = 0
  <2>1. i \in 1 .. p - 1 /\ i \in 1 .. Len(Listing(f)) BY <1>1, <1>3
  <2>2. Free(f, i) = 0 BY <1>2, <2>1 DEF FullTo
  <2>3. Listing(f)[i] \in Blocks BY <2>1, UsableBlocks
  <2>4. Len(Held(Listing(f)[i])) = BlockSize /\ BlockSize # 0
    <3>1. /\ Len(Held(Listing(f)[i])) \in Nat
          /\ FreeSize(Listing(f)[i]) = BlockSize - Len(Held(Listing(f)[i]))
      BY <2>3, HeldType
    <3> QED BY <2>2, <3>1, BlockSizeAssumption DEF Free
  <2>5. Len(<<>>) = 0 OBVIOUS
  <2> QED BY <2>2, <2>4, <2>5
<1> DEFINE s == PiecesOf(Listing(f), disk)
<1>4. /\ s \in Lists(Bytes) /\ Len(s) = n
      /\ \A i \in 1 .. n : s[i] = Held(Listing(f)[i])
  <2>1. Listing(f) \in Listings /\ disk \in Disks BY TypesOf
  <2>2. /\ s \in Lists(Bytes) /\ Len(s) = Len(Listing(f))
        /\ \A i \in 1 .. Len(Listing(f)) : s[i] = HeldIn(disk, Listing(f)[i])
    BY <2>1, PiecesType
  <2> HIDE DEF s
  <2> QED BY <1>1, <2>2 DEF Held, HeldIn
<1>5. Contents(f) = FlattenSeq(s) BY ContentsIs DEF BytesOf
<1> HIDE DEF s
<1>6. \A i \in p + 1 .. n : s[i] = <<>>
  <2> SUFFICES ASSUME NEW i \in p + 1 .. n PROVE s[i] = <<>> OBVIOUS
  <2>1. i \in 1 .. n /\ i \in 1 .. Len(Listing(f)) BY <1>1
  <2>2. Free(f, i) = BlockSize BY <1>1, <1>2 DEF VacantFrom
  <2>3. Listing(f)[i] \in Blocks BY <2>1, UsableBlocks
  <2>4. Held(Listing(f)[i]) = <<>> BY <2>2, <2>3, VacantIsEmpty DEF Free
  <2> QED BY <1>4, <2>1, <2>4
<1>7. CASE Held(Listing(f)[p]) # <<>>
  <2>1. p \in 0 .. Len(s) /\ p \in 0 .. Len(Listing(f)) BY <1>1, <1>4
  <2>2. FlattenSeq(s) = Leading(s, p) BY <1>4, <1>6, <2>1, LeadingVacant
  <2>3. \A i \in 1 .. p : i = p \/ i < p OBVIOUS
  <2>4. \A i \in 1 .. p : Held(Listing(f)[i]) # <<>> /\ (i < p => Free(f, i) = 0)
    BY <1>3, <1>7, <2>3
  <2> QED BY <1>5, <2>1, <2>2, <2>4 DEF s
<1>8. CASE Held(Listing(f)[p]) = <<>>
  <2>1. PICK q \in 0 .. Len(s) : q = p - 1 /\ q \in 0 .. Len(Listing(f)) /\ q + 1 = p
    <3>1. p - 1 \in 0 .. n /\ p - 1 + 1 = p BY <1>1
    <3> QED BY <1>1, <1>4, <3>1
  <2>2. \A i \in q + 1 .. Len(s) : s[i] = <<>>
    <3>1. s[p] = <<>> BY <1>4, <1>8
    <3>2. \A i \in q + 1 .. Len(s) : i = p \/ i \in p + 1 .. n BY <1>4, <2>1
    <3> QED BY <1>6, <3>1, <3>2
  <2>3. FlattenSeq(s) = Leading(s, q) BY <1>4, <2>1, <2>2, LeadingVacant
  <2>4. \A i \in 1 .. q : i \in 1 .. p /\ i < p BY <2>1
  <2>5. \A i \in 1 .. q : Held(Listing(f)[i]) # <<>> /\ (i < q => Free(f, i) = 0)
    BY <1>3, <2>4
  <2> QED BY <1>5, <2>1, <2>3, <2>5 DEF s
<1> QED BY <1>7, <1>8

\* What a crash leaves of what the saves into f have been given is where f begins.
LEMMA CrashKeepsBeginning ==
  ASSUME TypeOK, SaveInv, SoundInv, sound, Crash, NEW f \in Files, Usable(f)
  PROVE  Begins(saved'[f], Contents(f), Bytes)
<1>1. Reads(f) /\ Contents(f) \in Seq(Bytes) /\ Len(Contents(f)) \in Nat
  BY TypesOf DEF SoundInv
<1>2. CASE pc[f] = "idle"
  <2>1. Left(f) = <<>> BY <1>2, LeftType
  <2>2. saved'[f] = saved[f] BY <1>2 DEF Crash
  <2>3. Contents(f) \o <<>> = Contents(f) BY <1>1, ConcatEmptySeq
  <2>4. saved'[f] = Contents(f) BY <1>1, <2>1, <2>2, <2>3 DEF Reads
  <2> QED BY <1>1, <2>4, BeginsSelf
<1>3. CASE pc[f] # "idle"
  <2>1. saved'[f] = SubSeq(saved[f], 1, Len(saved[f]) - Len(data[f])) BY <1>3 DEF Crash
  <2>2. PICK c \in Seq(Bytes) : c = Contents(f) BY <1>1
  <2>3. PICK l \in Seq(Bytes) : l = Left(f) BY LeftType
  <2>4. saved[f] = c \o l BY <1>1, <2>2, <2>3 DEF Reads
  <2>5. PICK x \in Nat : x = Len(data[f]) /\ Len(l) <= x BY <2>3, LeftType
  <2>6. Len(saved[f]) = Len(c) + Len(l) /\ Len(c) \in Nat /\ Len(l) \in Nat BY <2>4
  <2>7. PICK m \in Int : m = Len(saved[f]) - Len(data[f]) /\ m <= Len(c)
    <3>1. PICK a \in Nat : a = Len(c) BY <2>6
    <3>2. PICK b \in Nat : b = Len(l) BY <2>6
    <3>3. b <= x /\ Len(saved[f]) = a + b BY <2>5, <2>6, <3>1, <3>2
    <3>4. a + b - x \in Int /\ a + b - x <= a BY <3>3
    <3>5. Len(saved[f]) - Len(data[f]) = a + b - x BY <2>5, <3>3
    <3>6. \E m \in Int : m = a + b - x /\ m <= a BY <3>4
    <3> QED BY <3>1, <3>5, <3>6
  <2>8. Begins(SubSeq(c \o l, 1, m), c, Bytes) BY <2>7, CutBegins
  <2> QED BY <2>1, <2>2, <2>4, <2>7, <2>8
<1> QED BY <1>2, <1>3

\* The first crash that hits a save, or finds a listed block empty.
LEMMA CrashStarts ==
  ASSUME TypeOK, SaveInv, Sane, SoundInv, sound, Crash
  PROVE  UnsoundInv'
<1>1. PICK ls \in SUBSET {f \in Files : pc[f] \in {"grow", "size"}} :
        header' = [f \in Files |-> IF f \in ls THEN LostFile ELSE header[f]]
  BY DEF Crash
<1>2. disk' = disk /\ bitmap' = BlocksInUse BY DEF Crash
<1>3. ASSUME NEW f \in Files PROVE header'[f] = LostFile \/ header'[f] = header[f] BY <1>1
<1> SUFFICES ASSUME NEW f \in Files, Usable(f)' PROVE \E k \in 0 .. Len(Listing(f)') : Safe(f, k)'
  BY DEF UnsoundInv
<1>4. header'[f] = header[f] BY <1>3 DEF Usable, LostFile
<1>5. Usable(f) /\ Listing(f)' = Listing(f) BY <1>4 DEF Usable, Listing
<1>6. PICK k \in 0 .. Len(Listing(f)) :
        /\ \A i \in 1 .. k : Held(Listing(f)[i]) # <<>> /\ (i < k => Free(f, i) = 0)
        /\ Contents(f) = Leading(PiecesOf(Listing(f), disk), k)
  BY <1>5, HoldsFirst
<1>7. ASSUME NEW i \in 1 .. k
      PROVE  /\ Listing(f)[i] \in Blocks /\ Listing(f)[i] # NoBlock /\ i \in 1 .. Len(Listing(f))
             /\ Listing(f)[i] \in bitmap'
  <2>1. i \in 1 .. Len(Listing(f)) BY TypesOf
  <2>2. Listing(f)[i] \in Blocks BY <1>5, <2>1, UsableBlocks
  <2>3. disk[Listing(f)[i]] # <<>> BY <1>6 DEF Held
  <2> QED BY <1>2, <2>1, <2>2, <2>3, BlocksAssumption DEF BlocksInUse
<1>8. ASSUME NEW i \in 1 .. k, NEW h \in Files, NEW j \in 1 .. Len(Listing(h)'),
             Listing(f)[i] = Listing(h)'[j]
      PROVE  f = h /\ i = j
  <2>1. CASE header'[h] = LostFile
    <3>1. Len(Listing(h)') = 0 BY <2>1 DEF LostFile, Listing
    <3> QED BY <3>1
  <2>2. CASE header'[h] = header[h]
    <3>1. Listing(h)' = Listing(h) BY <2>2 DEF Listing
    <3> QED BY <1>7, <1>8, <3>1 DEF Sane, Apart
  <2> QED BY <1>3, <2>1, <2>2
<1>9. Begins(saved'[f], Contents(f), Bytes) BY <1>5, CrashKeepsBeginning
<1>10. Begins(saved'[f], Leading(PiecesOf(Listing(f)', disk'), k), Bytes)
  BY <1>2, <1>5, <1>6, <1>9
<1>11. ASSUME NEW i \in 1 .. k
       PROVE  /\ Listing(f)'[i] \in bitmap'
              /\ Held(Listing(f)[i])' # <<>>
              /\ i < k => Free(f, i)' = 0
  <2>1. Listing(f)'[i] = Listing(f)[i] BY <1>5
  <2>2. Held(Listing(f)[i])' = Held(Listing(f)[i]) BY <1>2, <2>1 DEF Held
  <2>3. Free(f, i)' = Free(f, i) BY <2>2 DEF Free, FreeSize
  <2> QED BY <1>6, <1>7, <2>1, <2>2, <2>3
<1>12. Safe(f, k)'
  <2>1. \A i \in 1 .. k : \A g \in Files : \A j \in 1 .. Len(Listing(g)') :
          Listing(f)'[i] = Listing(g)'[j] => f = g /\ i = j
    BY <1>5, <1>8
  <2> QED BY <1>10, <1>11, <2>1 DEF Safe
<1>13. k \in 0 .. Len(Listing(f)') BY <1>5
<1> QED BY <1>12, <1>13

\* Once a crash has hit a save, every step leaves what the saves complete by
\* then were given where their file begins.
LEMMA StepUnsound ==
  ASSUME TypeOK, TypeOK', SaveInv, NoneInv, UnsoundInv, ~sound, [Next]_vars
  PROVE  UnsoundInv'
<1>b. BlockSize \in Nat /\ BlockSize >= 2 BY BlockSizeAssumption
<1>1. ASSUME NEW f \in Files, Create(f) PROVE UnsoundInv'
  <2>1. PICK b \in Blocks \cup {NoBlock} :
          NewBlock(b) /\ header' = [header EXCEPT ![f] = File(0, <<b>>)]
    BY <1>1 DEF Create
  <2>2. /\ header[f].st = "none" /\ Listing(f)' = <<b>> /\ saved' = saved
        /\ \A g \in Files \ {f} : header'[g] = header[g]
    BY <1>1, <2>1 DEF Create, TypeOK, File, Listing
  <2> QED BY <2>1, <2>2, NewBlockSafe
<1>2. ASSUME NEW f \in Files, NEW d \in Data, BeginSave(f, d) PROVE UnsoundInv'
  <2>1. /\ header[f].st = "ok" /\ header' = header /\ bitmap' = bitmap /\ saved' = saved
        /\ disk' = SavedInto(LastBlock(f), d) \/ disk' = disk
    BY <1>2 DEF BeginSave, Usable
  <2>2. PICK n \in Nat \ {0} : n = Len(Listing(f)) /\ n \in 1 .. Len(Listing(f))
    <3>1. Len(Listing(f)) \in Nat /\ Len(Listing(f)) >= 1 BY <2>1, TypesOf DEF SaveInv
    <3> QED BY <3>1
  <2>3. LastBlock(f) = Listing(f)[n] BY <2>2 DEF LastBlock, Last, Listing
  <2>4. d \in Seq(Bytes) BY DataType
  <2>5. CASE disk' = SavedInto(LastBlock(f), d)
    <3> DEFINE b == LastBlock(f)
    <3>1. \E w \in 1 .. Len(Listing(f)) : b = Listing(f)[w] /\ w = Len(Listing(f))
      BY <2>2, <2>3
    <3> HIDE DEF b
    <3>2. disk' = SavedInto(b, d) BY <2>5 DEF b
    <3> QED BY <2>1, <2>4, <3>1, <3>2, WriteSafe
  <2>6. CASE disk' = disk BY <2>1, <2>6, QuietSafe
  <2> QED BY <2>1, <2>5, <2>6
<1>3. ASSUME NEW f \in Files, AddNewBlock(f) PROVE UnsoundInv'
  <2>1. PICK b \in Blocks \cup {NoBlock} :
          NewBlock(b) /\ header' = [header EXCEPT ![f].blocks = Append(@, b)]
    BY <1>3 DEF AddNewBlock
  <2>2. /\ header'[f].st = header[f].st /\ Listing(f)' = Append(Listing(f), b)
        /\ saved' = saved /\ \A g \in Files \ {f} : header'[g] = header[g]
    BY <1>3, <2>1 DEF AddNewBlock, TypeOK, Listing
  <2> QED BY <2>1, <2>2, NewBlockSafe
<1>4. ASSUME NEW f \in Files, NEW d \in Seq(Bytes), disk' = SavedInto(FirstFreeBlock(f), d),
             header' = header, bitmap' = bitmap, saved' = saved
      PROVE  UnsoundInv'
  <2> DEFINE b == FirstFreeBlock(f)
  <2>1. \/ b = NoBlock
        \/ \E w \in 1 .. Len(Listing(f)) :
             b = Listing(f)[w] /\ (w = Len(Listing(f)) \/ Free(f, w) # 0)
    BY FirstFreeIs
  <2> HIDE DEF b
  <2>2. disk' = SavedInto(b, d) BY <1>4 DEF b
  <2> QED BY <1>4, <2>1, <2>2, WriteSafe
<1>5. ASSUME NEW f \in Files, Fill(f) PROVE UnsoundInv'
  <2>1. 0 <= at[f] /\ at[f] < Len(data[f]) /\ data[f] \in Seq(Bytes) /\ at[f] \in Int
    BY <1>5 DEF TypeOK, SaveInv, Fill
  <2>2. SubSeq(data[f], 1, at[f]) \in Seq(Bytes) BY <2>1
  <2>3. /\ disk' = SavedInto(FirstFreeBlock(f), SubSeq(data[f], 1, at[f]))
        /\ header' = header /\ bitmap' = bitmap /\ saved' = saved
    BY <1>5 DEF Fill
  <2> QED BY <1>4, <2>2, <2>3
<1>6. ASSUME NEW f \in Files, SaveChunk(f) PROVE UnsoundInv'
  <2> DEFINE left == Len(data[f]) - at[f]
             upto == IF left > BlockSize THEN at[f] + BlockSize ELSE Len(data[f])
  <2>1. 0 <= at[f] /\ at[f] < Len(data[f]) /\ data[f] \in Seq(Bytes) /\ at[f] \in Int
    BY <1>6 DEF TypeOK, SaveInv, SaveChunk
  <2>2. upto \in Nat /\ upto <= Len(data[f]) /\ at[f] + 1 \in Nat \ {0} BY <1>b, <2>1
  <2>3. SubSeq(data[f], at[f] + 1, upto) \in Seq(Bytes) BY <2>1, <2>2
  <2>4. /\ disk' = SavedInto(FirstFreeBlock(f), SubSeq(data[f], at[f] + 1, upto))
        /\ header' = header /\ bitmap' = bitmap /\ saved' = saved
    BY <1>6 DEF SaveChunk
  <2> HIDE DEF upto
  <2> QED BY <1>4, <2>3, <2>4
<1>7. ASSUME NEW f \in Files, UpdateSize(f) PROVE UnsoundInv'
  <2>1. /\ disk' = disk /\ bitmap' = bitmap /\ saved' = saved
        /\ \A g \in Files : header'[g].st = header[g].st /\ header'[g].blocks = header[g].blocks
    BY SMTT(30), <1>7 DEF UpdateSize, TypeOK
  <2> QED BY <2>1, QuietSafe
<1>8. ASSUME NEW f \in Files, Delete(f) PROVE UnsoundInv' BY <1>8, DeleteSafe
<1>9. CASE Crash BY <1>9, CrashSafe
<1>10. CASE UNCHANGED vars
  <2>1. disk' = disk /\ bitmap' = bitmap /\ saved' = saved /\ header' = header BY <1>10 DEF vars
  <2> QED BY <2>1, QuietSafe
<1> QED BY <1>1, <1>2, <1>3, <1>5, <1>6, <1>7, <1>8, <1>9, <1>10 DEF Next

\* Until then, every step leaves in a file what its saves were given.
LEMMA StepSound ==
  ASSUME TypeOK, SaveInv, Sane, NoneInv, SoundInv, sound, sound', [Next]_vars
  PROVE  SoundInv'
<1>1. ASSUME NEW f \in Files, Create(f) PROVE SoundInv' BY <1>1, CreateReads
<1>2. ASSUME NEW f \in Files, NEW d \in Data, BeginSave(f, d) PROVE SoundInv'
  BY <1>2, BeginSaveReads
<1>3. ASSUME NEW f \in Files, AddNewBlock(f) PROVE SoundInv' BY <1>3, AddNewBlockReads
<1>4. ASSUME NEW f \in Files, Fill(f) PROVE SoundInv' BY <1>4, FillReads
<1>5. ASSUME NEW f \in Files, SaveChunk(f) PROVE SoundInv' BY <1>5, SaveChunkReads
<1>6. ASSUME NEW f \in Files, UpdateSize(f) PROVE SoundInv' BY <1>6, UpdateSizeReads
<1>7. ASSUME NEW f \in Files, Delete(f) PROVE SoundInv' BY <1>7, DeleteReads
<1>8. CASE Crash BY <1>8, CrashReads
<1>9. CASE UNCHANGED vars
  <2>1. disk' = disk /\ header' = header /\ pc' = pc /\ data' = data /\ at' = at /\ saved' = saved
    BY <1>9 DEF vars
  <2> SUFFICES ASSUME NEW f \in Files, Usable(f)' PROVE Reads(f)' BY DEF SoundInv
  <2>2. Reads(f) BY <2>1 DEF SoundInv, Usable
  <2>3. Contents(f)' = Contents(f)
    <3>1. Listing(f)' = Listing(f) BY <2>1 DEF Listing
    <3> QED BY <2>1, <3>1, ContentsFrame
  <2> QED BY <2>1, <2>2, <2>3, ReadsFrame
<1> QED BY <1>1, <1>2, <1>3, <1>4, <1>5, <1>6, <1>7, <1>8, <1>9 DEF Next

\* Nothing has been saved into a file that is not there.
LEMMA StepNone == ASSUME TypeOK, SaveInv, NoneInv, [Next]_vars PROVE NoneInv'
<1> SUFFICES ASSUME NEW f \in Files, header'[f].st = "none" PROVE saved'[f] = <<>> BY DEF NoneInv
<1>0. header[f].st = "none" => saved[f] = <<>> /\ pc[f] = "idle" BY DEF NoneInv, SaveInv
<1>1. ASSUME NEW g \in Files, Create(g) PROVE saved'[f] = <<>>
  <2>1. PICK b \in Blocks \cup {NoBlock} : header' = [header EXCEPT ![g] = File(0, <<b>>)]
    BY <1>1 DEF Create
  <2>2. f # g BY <2>1 DEF TypeOK, File
  <2>3. header'[f] = header[f] /\ saved' = saved BY <1>1, <2>1, <2>2 DEF Create, TypeOK
  <2> QED BY <1>0, <2>3
<1>2. ASSUME NEW g \in Files, NEW d \in Data, BeginSave(g, d) PROVE saved'[f] = <<>>
  <2>1. header' = header /\ header[g].st = "ok" BY <1>2 DEF BeginSave, Usable
  <2>2. f # g BY <2>1
  <2>3. saved'[f] = saved[f] BY <1>2, <2>2 DEF BeginSave, TypeOK
  <2> QED BY <1>0, <2>1, <2>3
<1>3. ASSUME NEW g \in Files, AddNewBlock(g) PROVE saved'[f] = <<>>
  <2>1. header'[f].st = header[f].st /\ saved' = saved BY <1>3 DEF AddNewBlock, TypeOK
  <2> QED BY <1>0, <2>1
<1>4. ASSUME NEW g \in Files, Fill(g) \/ SaveChunk(g) \/ UpdateSize(g) PROVE saved'[f] = <<>>
  <2>1. saved' = saved BY <1>4 DEF Fill, SaveChunk, UpdateSize
  <2>2. header'[f].st = header[f].st
    <3>1. CASE Fill(g) \/ SaveChunk(g) BY <3>1 DEF Fill, SaveChunk
    <3>2. CASE UpdateSize(g) BY <3>2 DEF UpdateSize, TypeOK
    <3> QED BY <1>4, <3>1, <3>2
  <2> QED BY <1>0, <2>1, <2>2
<1>5. ASSUME NEW g \in Files, Delete(g) PROVE saved'[f] = <<>>
  <2>1. CASE f = g BY <1>5, <2>1 DEF Delete, TypeOK
  <2>2. CASE f # g
    <3>1. header'[f] = header[f] /\ saved'[f] = saved[f] BY <1>5, <2>2 DEF Delete, TypeOK
    <3> QED BY <1>0, <3>1
  <2> QED BY <2>1, <2>2
<1>6. CASE Crash
  <2>1. header'[f] = header[f] \/ header'[f] = LostFile BY <1>6 DEF Crash
  <2>2. header'[f] = header[f] BY <2>1 DEF LostFile
  <2>3. saved'[f] = saved[f] BY <1>0, <1>6, <2>2 DEF Crash
  <2> QED BY <1>0, <2>2, <2>3
<1>7. CASE UNCHANGED vars BY <1>0, <1>7 DEF vars
<1> QED BY <1>1, <1>2, <1>3, <1>4, <1>5, <1>6, <1>7 DEF Next

-----------------------------------------------------------------------------
(* What a file holds, and what was saved into it.                          *)

DInv ==
  /\ SInv
  /\ NoneInv
  /\ sound => SoundInv
  /\ ~sound => UnsoundInv

\* No file is there, and nothing was saved.
LEMMA InitHolds == Init => DInv
<1> SUFFICES ASSUME Init PROVE DInv OBVIOUS
<1>1. SInv BY InitType, InitSane DEF SInv
<1>2. NoneInv /\ SoundInv /\ sound BY DEF Init, NoneInv, SoundInv, Usable, NoFile
<1> QED BY <1>1, <1>2 DEF DInv

\* Every step keeps it.
LEMMA StepHolds == DInv /\ [Next]_vars => DInv'
<1> SUFFICES ASSUME DInv, [Next]_vars PROVE DInv' OBVIOUS
<1>1. /\ SInv /\ NoneInv /\ TypeOK /\ SaveInv /\ sound \in BOOLEAN
      /\ sound => Sane /\ SoundInv
      /\ ~sound => UnsoundInv
  BY DEF DInv, SInv, TInv, TypeOK
<1>2. SInv' /\ TypeOK' /\ sound' \in BOOLEAN
  <2>1. SInv' BY <1>1, StepSane
  <2> QED BY <2>1 DEF SInv, TInv, TypeOK
<1>3. NoneInv' BY <1>1, StepNone
<1>4. sound' => sound
  <2>1. CASE Crash BY <2>1 DEF Crash
  <2>2. CASE UNCHANGED sound BY <2>2
  <2> QED BY <2>1, <2>2 DEF Next, Create, BeginSave, AddNewBlock, Fill, SaveChunk,
                            UpdateSize, Delete, vars
<1>5. sound' => SoundInv' BY <1>1, <1>4, StepSound
<1>6. ASSUME ~sound' PROVE UnsoundInv'
  <2>1. CASE ~sound BY <1>1, <1>2, <2>1, StepUnsound
  <2>2. CASE sound
    <3>1. Crash
      BY <1>6, <2>2 DEF Next, Create, BeginSave, AddNewBlock, Fill, SaveChunk,
                        UpdateSize, Delete, vars
    <3> QED BY <1>1, <2>2, <3>1, CrashStarts
  <2> QED BY <2>1, <2>2
<1> QED BY <1>2, <1>3, <1>5, <1>6 DEF DInv

\* Until a crash hits a save, what b_getListOfInserts reads of a file is
\* what the saves into it were given, in order (SavedDataReadsBack): the
\* whole of it when none is under way, and all of the earlier ones' and the
\* beginning of the last one's while it is.
THEOREM ReadsBack == Spec => []SavedDataReadsBack
<1>1. DInv => SavedDataReadsBack
  <2> SUFFICES ASSUME DInv, NEW f \in Files, sound, Usable(f)
               PROVE IF pc[f] \in {"idle", "size"}
                       THEN Contents(f) = saved[f]
                       ELSE /\ IsPrefix(Contents(f), saved[f])
                            /\ Len(Contents(f)) >= Len(saved[f]) - Len(data[f])
    BY DEF SavedDataReadsBack
  <2>1. TypeOK /\ SaveInv /\ saved[f] = Contents(f) \o Left(f)
    BY DEF DInv, SInv, TInv, SoundInv, Reads
  <2>2. PICK c \in Seq(Bytes) : c = Contents(f) BY <2>1, TypesOf
  <2>3. PICK l \in Seq(Bytes) : l = Left(f) BY <2>1, LeftType
  <2>4. CASE pc[f] \in {"idle", "size"}
    <3>1. l = <<>> BY <2>1, <2>3, <2>4, LeftType
    <3>2. c \o <<>> = c BY ConcatEmptySeq
    <3> QED BY <2>1, <2>2, <2>3, <2>4, <3>1, <3>2
  <2>5. CASE pc[f] \notin {"idle", "size"}
    <3>1. Begins(c, saved[f], Bytes) BY <2>1, <2>2, <2>3 DEF Begins
    <3>2. IsPrefix(c, saved[f]) BY <3>1, BeginsPrefix
    <3>3. Len(saved[f]) = Len(c) + Len(l) /\ Len(c) \in Nat /\ Len(l) \in Nat
      BY <2>1, <2>2, <2>3
    <3>4. PICK x \in Nat : x = Len(data[f]) /\ Len(l) <= x BY <2>1, <2>3, LeftType
    <3>5. Len(c) >= Len(saved[f]) - x BY <3>3, <3>4
    <3> QED BY <2>2, <2>5, <3>2, <3>4, <3>5
  <2> QED BY <2>4, <2>5
<1> QED BY <1>1, InitHolds, StepHolds, PTL DEF Spec

\* Until a crash hits a save, SIZE= is the number of bytes of the file's
\* records whenever no save into it is under way (SizeIsLength): b_updateSize
\* counts every block but the last as full, and they are.
THEOREM SizeRight == Spec => []SizeIsLength
<1>1. DInv => SizeIsLength BY DEF DInv, SoundInv, Reads, SizeIsLength
<1> QED BY <1>1, InitHolds, StepHolds, PTL DEF Spec

\* After a crash in the middle of a save, the bytes of the saves complete by
\* then stay where the file begins, whatever comes after, as long as the
\* crash leaves the header (CompleteSavesSurvive): their blocks are not
\* empty, so ba_create sets their bits again, and no other file gets them.
THEOREM Survive == Spec => []CompleteSavesSurvive
<1>1. DInv => CompleteSavesSurvive
  <2> SUFFICES ASSUME DInv, NEW f \in Files, Usable(f), ~sound
               PROVE IsPrefix(saved[f], Contents(f))
    BY DEF CompleteSavesSurvive
  <2>1. TypeOK BY DEF DInv, SInv, TInv
  <2>2. PICK k \in 0 .. Len(Listing(f)) : Safe(f, k) BY DEF DInv, UnsoundInv
  <2> DEFINE s == PiecesOf(Listing(f), disk)
  <2>3. s \in Lists(Bytes) /\ Len(s) = Len(Listing(f))
    <3>1. Listing(f) \in Listings /\ disk \in Disks BY <2>1, TypesOf
    <3> QED BY <3>1, PiecesType
  <2>4. Begins(saved[f], Leading(s, k), Bytes) BY <2>2 DEF Safe
  <2>5. Contents(f) = FlattenSeq(s) BY ContentsIs DEF BytesOf
  <2> HIDE DEF s
  <2>6. k \in 0 .. Len(s) BY <2>3
  <2>7. Begins(Leading(s, k), FlattenSeq(s), Bytes) BY <2>3, <2>6, LeadingBegins
  <2>8. saved[f] \in Seq(Bytes) BY <2>1 DEF TypeOK
  <2>9. Begins(saved[f], Contents(f), Bytes) BY <2>4, <2>5, <2>7, <2>8, BeginsTrans
  <2> QED BY <2>8, <2>9, BeginsPrefix
<1> QED BY <1>1, InitHolds, StepHolds, PTL DEF Spec
=============================================================================
