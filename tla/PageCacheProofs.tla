--------------------------- MODULE PageCacheProofs ---------------------------
(***************************************************************************)
(* Proofs about the cache of a memory, for every number of tables, keys,   *)
(* values, frames and clients: types, the frames and their marks, one page *)
(* per key; and then what a memory answers: a client reads its own writes, *)
(* and a SELECT that hit answers a value of its key.                       *)
(***************************************************************************)
EXTENDS PageCache, SequenceTheorems, FiniteSetTheorems, TLAPS

\* The frame of a page has a key and a value, never what an unused frame holds.
FilledInv ==
  \A i \in DOMAIN pages : /\ frames[pages[i].frame_num].key \in Keys
                          /\ frames[pages[i].frame_num].value \in Known

\* FramesAccounted of a list of pages and a bitmap.
FramesOK(pgs, bits) ==
  /\ \A i, j \in DOMAIN pgs : pgs[i].frame_num = pgs[j].frame_num => i = j
  /\ \A i \in DOMAIN pgs : pgs[i].frame_num \in bits
  /\ \A f \in bits : f \in StartMarks \/ \E i \in DOMAIN pgs : pgs[i].frame_num = f

\* No two of the pages have the same table and key.
KeysOK(pgs, main_memory) ==
  \A i, j \in DOMAIN pgs :
    /\ pgs[i].table = pgs[j].table
    /\ main_memory[pgs[i].frame_num].key = main_memory[pgs[j].frame_num].key
    => i = j

\* No table has two segments, and every page is in a segment of the list.
SegmentsOK(segs, pgs) ==
  /\ \A m, n \in DOMAIN segs : segs[m] = segs[n] => m = n
  /\ \A i \in DOMAIN pgs : Contains(segs, pgs[i].table)

Types    == TypeOK /\ FilledInv
PagesOK  == FramesOK(pages, bitmap) /\ KeysOK(pages, frames)
IInv     == Types /\ SegmentsOK(segments, pages) /\ (~confused => PagesOK)

-----------------------------------------------------------------------------
(* Sequences.                                                              *)

\* list_remove: what was behind moves up.
LEMMA RemoveAtFacts ==
  ASSUME NEW S, NEW s \in Seq(S), NEW i \in DOMAIN s
  PROVE  /\ RemoveAt(s, i) \in Seq(S)
         /\ DOMAIN RemoveAt(s, i) = 1 .. Len(s) - 1
         /\ \A n \in 1 .. Len(s) - 1 : RemoveAt(s, i)[n] = IF n < i THEN s[n] ELSE s[n + 1]
<1>1. i \in 1 .. Len(s) /\ Len(s) \in Nat OBVIOUS
<1>2. /\ SubSeq(s, 1, i - 1) \in Seq(S)
      /\ Len(SubSeq(s, 1, i - 1)) = i - 1
      /\ \A n \in 1 .. i - 1 : SubSeq(s, 1, i - 1)[n] = s[n]
  <2>1. /\ 1 \in Int /\ i - 1 \in Int /\ \A n \in 1 .. i - 1 : s[n] \in S BY <1>1
  <2>2. /\ SubSeq(s, 1, i - 1) \in Seq(S)
        /\ Len(SubSeq(s, 1, i - 1)) = IF 1 <= i - 1 THEN (i - 1) - 1 + 1 ELSE 0
        /\ \A n \in 1 .. (i - 1) - 1 + 1 : SubSeq(s, 1, i - 1)[n] = s[1 + n - 1]
    BY <2>1, SubSeqProperties
  <2> QED BY <2>2, <1>1
<1>3. /\ SubSeq(s, i + 1, Len(s)) \in Seq(S)
      /\ Len(SubSeq(s, i + 1, Len(s))) = Len(s) - i
      /\ \A n \in 1 .. Len(s) - i : SubSeq(s, i + 1, Len(s))[n] = s[i + n]
  <2>1. /\ i + 1 \in Int /\ Len(s) \in Int /\ \A n \in i + 1 .. Len(s) : s[n] \in S BY <1>1
  <2>2. /\ SubSeq(s, i + 1, Len(s)) \in Seq(S)
        /\ Len(SubSeq(s, i + 1, Len(s))) = IF i + 1 <= Len(s) THEN Len(s) - (i + 1) + 1 ELSE 0
        /\ \A n \in 1 .. Len(s) - (i + 1) + 1 :
             SubSeq(s, i + 1, Len(s))[n] = s[(i + 1) + n - 1]
    BY <2>1, SubSeqProperties
  <2> QED BY <2>2, <1>1
<1> DEFINE a == SubSeq(s, 1, i - 1)
           b == SubSeq(s, i + 1, Len(s))
<1>4. /\ a \o b \in Seq(S) /\ Len(a \o b) = Len(a) + Len(b)
      /\ \A n \in 1 .. Len(a) + Len(b) : (a \o b)[n] = IF n <= Len(a) THEN a[n] ELSE b[n - Len(a)]
  BY <1>2, <1>3, ConcatProperties
<1>5. RemoveAt(s, i) = a \o b BY DEF RemoveAt
<1> HIDE DEF a, b
<1>6. Len(a) = i - 1 /\ Len(b) = Len(s) - i BY <1>2, <1>3 DEF a, b
<1>7. /\ \A n \in 1 .. i - 1 : a[n] = s[n]
      /\ \A n \in 1 .. Len(s) - i : b[n] = s[i + n]
  BY <1>2, <1>3 DEF a, b
<1>8. DOMAIN RemoveAt(s, i) = 1 .. Len(s) - 1 BY SMTT(30), <1>1, <1>4, <1>5, <1>6
<1>9. ASSUME NEW n \in 1 .. Len(s) - 1
      PROVE  RemoveAt(s, i)[n] = IF n < i THEN s[n] ELSE s[n + 1]
  <2>1. CASE n < i BY SMTT(30), <2>1, <1>1, <1>4, <1>5, <1>6, <1>7
  <2>2. CASE ~(n < i)
    <3>1. n - (i - 1) \in 1 .. Len(s) - i /\ i + (n - (i - 1)) = n + 1 BY <2>2, <1>1
    <3>2. /\ n \in 1 .. Len(a) + Len(b) /\ ~(n <= Len(a)) /\ n - Len(a) = n - (i - 1)
      BY <2>2, <1>1, <1>6
    <3>3. RemoveAt(s, i)[n] = b[n - Len(a)] BY <3>2, <1>4, <1>5
    <3> QED BY <2>2, <3>1, <3>2, <3>3, <1>7
  <2> QED BY <2>1, <2>2
<1> QED BY <1>4, <1>5, <1>8, <1>9

\* Every element but the removed one is still there.
LEMMA RemoveAtKeeps ==
  ASSUME NEW S, NEW s \in Seq(S), NEW i \in DOMAIN s, NEW j \in DOMAIN s, j # i
  PROVE  \E n \in DOMAIN RemoveAt(s, i) : RemoveAt(s, i)[n] = s[j]
<1>1. CASE j < i
  <2>1. j \in 1 .. Len(s) - 1 BY <1>1
  <2> QED BY <1>1, <2>1, RemoveAtFacts
<1>2. CASE j > i
  <2>1. j - 1 \in 1 .. Len(s) - 1 /\ ~(j - 1 < i) /\ (j - 1) + 1 = j BY <1>2
  <2> QED BY <2>1, RemoveAtFacts
<1> QED BY <1>1, <1>2

\* The segment of a table is found or added.
LEMMA EnsuredFacts ==
  ASSUME segments \in Seq(Tables), NEW t \in Tables,
         \A m, n \in DOMAIN segments : segments[m] = segments[n] => m = n
  PROVE  /\ Ensured(t) \in Seq(Tables)
         /\ \A m, n \in DOMAIN Ensured(t) : Ensured(t)[m] = Ensured(t)[n] => m = n
         /\ Contains(Ensured(t), t)
         /\ \A u : Contains(segments, u) => Contains(Ensured(t), u)
<1>1. CASE Contains(segments, t) BY <1>1 DEF Ensured
<1>2. CASE ~Contains(segments, t)
  <2>1. Ensured(t) = Append(segments, t) BY <1>2 DEF Ensured
  <2>2. /\ Append(segments, t) \in Seq(Tables)
        /\ Len(Append(segments, t)) = Len(segments) + 1
        /\ \A n \in 1 .. Len(segments) : Append(segments, t)[n] = segments[n]
        /\ Append(segments, t)[Len(segments) + 1] = t
    OBVIOUS
  <2>3. \A n \in 1 .. Len(segments) : segments[n] # t BY <1>2 DEF Contains
  <2> QED BY <2>1, <2>2, <2>3 DEF Contains
<1> QED BY <1>1, <1>2

-----------------------------------------------------------------------------
(* A page is loaded.                                                       *)

\* What Load makes of any list of pages and bitmap it is given.
LEMMA LoadFacts ==
  ASSUME TypeOK, NEW t \in Tables, NEW k \in Keys, NEW v \in Known, NEW modified \in BOOLEAN,
         NEW pgs \in Seq(Page), NEW bits \in SUBSET Frames, Load(t, k, v, modified, pgs, bits)
  PROVE  \E f \in Frames \ bits, p \in Page :
           /\ p.table = t /\ p.frame_num = f /\ p.isModified = modified /\ p.heldBy = {}
           /\ pages' = Append(pgs, p)
           /\ bitmap' = bits \cup {f}
           /\ frames' = [frames EXCEPT ![f] = [key |-> k, ts |-> now, value |-> v]]
<1>1. PICK f \in Frames :
        /\ FirstFree(f, bits)
        /\ pages' = Append(pgs, [table |-> t, page_num |-> PageCount(t, pgs), frame_num |-> f,
                                 isModified |-> modified, last_time_used |-> now, heldBy |-> {}])
        /\ bitmap' = bits \cup {f}
        /\ frames' = [frames EXCEPT ![f] = [key |-> k, ts |-> now, value |-> v]]
  BY DEF Load
<1>2. PageCount(t, pgs) \in Nat
  <2>1. {i \in DOMAIN pgs : pgs[i].table = t} \subseteq 1 .. Len(pgs) OBVIOUS
  <2>2. Len(pgs) \in Nat OBVIOUS
  <2>3. IsFiniteSet(1 .. Len(pgs)) BY <2>2, FS_Interval
  <2>4. IsFiniteSet({i \in DOMAIN pgs : pgs[i].table = t}) BY <2>1, <2>3, FS_Subset
  <2> QED BY <2>4, FS_CardinalityType DEF PageCount
<1> DEFINE p == [table |-> t, page_num |-> PageCount(t, pgs), frame_num |-> f,
                 isModified |-> modified, last_time_used |-> now, heldBy |-> {}]
<1>3. p \in Page BY <1>2 DEF Page, TypeOK
<1>4. f \in Frames \ bits BY <1>1 DEF FirstFree
<1>5. p.table = t /\ p.frame_num = f /\ p.isModified = modified /\ p.heldBy = {} OBVIOUS
<1>6. pages' = Append(pgs, p) BY <1>1
<1> HIDE DEF p
<1> QED BY <1>1, <1>3, <1>4, <1>5, <1>6

\* The page added is the last one, the others are as they were.
LEMMA AppendFacts ==
  ASSUME NEW S, NEW s \in Seq(S), NEW e \in S
  PROVE  /\ Append(s, e) \in Seq(S)
         /\ DOMAIN Append(s, e) = DOMAIN s \cup {Len(s) + 1}
         /\ Len(s) + 1 \notin DOMAIN s
         /\ \A i \in DOMAIN s : Append(s, e)[i] = s[i]
         /\ Append(s, e)[Len(s) + 1] = e
OBVIOUS

\* Types after a load; every page of the list given was filled.
LEMMA LoadTypes ==
  ASSUME TypeOK, NEW t \in Tables, NEW k \in Keys, NEW v \in Known, NEW modified \in BOOLEAN,
         NEW pgs \in Seq(Page), NEW bits \in SUBSET Frames, Load(t, k, v, modified, pgs, bits),
         \A i \in DOMAIN pgs : /\ frames[pgs[i].frame_num].key \in Keys
                               /\ frames[pgs[i].frame_num].value \in Known
  PROVE  /\ pages' \in Seq(Page)
         /\ frames' \in [Frames -> Frame]
         /\ bitmap' \subseteq Frames
         /\ FilledInv'
<1>1. PICK f \in Frames \ bits, p \in Page :
           /\ p.table = t /\ p.frame_num = f
           /\ pages' = Append(pgs, p)
           /\ bitmap' = bits \cup {f}
           /\ frames' = [frames EXCEPT ![f] = [key |-> k, ts |-> now, value |-> v]]
  BY LoadFacts
<1>2. [key |-> k, ts |-> now, value |-> v] \in Frame BY DEF TypeOK, Frame
<1>3. frames' \in [Frames -> Frame] BY <1>1, <1>2 DEF TypeOK
<1>4. FilledInv'
  <2> SUFFICES ASSUME NEW i \in DOMAIN pages'
               PROVE  /\ frames'[pages'[i].frame_num].key \in Keys
                      /\ frames'[pages'[i].frame_num].value \in Known
    BY DEF FilledInv
  <2>1. CASE i \in DOMAIN pgs
    <3>0. pgs[i] \in Page BY <2>1
    <3>1. pages'[i] = pgs[i] /\ pgs[i].frame_num \in Frames
      BY <3>0, <2>1, <1>1, AppendFacts DEF Page
    <3>2. CASE pgs[i].frame_num = f BY <3>1, <3>2, <1>1 DEF TypeOK
    <3>3. CASE pgs[i].frame_num # f BY <3>1, <3>3, <1>1, <2>1 DEF TypeOK
    <3> QED BY <3>2, <3>3
  <2>2. CASE i = Len(pgs) + 1
    <3>1. pages'[i] = p BY <2>2, <1>1, AppendFacts
    <3> QED BY <3>1, <1>1 DEF TypeOK
  <2> QED BY <2>1, <2>2, <1>1, AppendFacts
<1> QED BY <1>1, <1>3, <1>4, AppendFacts

\* A load keeps frames and keys apart, if the key had no page.
LEMMA LoadKeepsPages ==
  ASSUME TypeOK, NEW t \in Tables, NEW k \in Keys, NEW v \in Known, NEW modified \in BOOLEAN,
         NEW pgs \in Seq(Page), NEW bits \in SUBSET Frames, Load(t, k, v, modified, pgs, bits),
         FramesOK(pgs, bits), KeysOK(pgs, frames),
         \A i \in DOMAIN pgs : pgs[i].table = t => frames[pgs[i].frame_num].key # k
  PROVE  PagesOK'
<1>1. PICK f \in Frames \ bits, p \in Page :
           /\ p.table = t /\ p.frame_num = f
           /\ pages' = Append(pgs, p)
           /\ bitmap' = bits \cup {f}
           /\ frames' = [frames EXCEPT ![f] = [key |-> k, ts |-> now, value |-> v]]
  BY LoadFacts
<1> DEFINE last == Len(pgs) + 1
<1>2. /\ DOMAIN pages' = DOMAIN pgs \cup {last} /\ last \notin DOMAIN pgs
      /\ pages'[last] = p
      /\ \A i \in DOMAIN pgs : pages'[i] = pgs[i]
  BY <1>1, AppendFacts
<1>3. \A i \in DOMAIN pgs : pgs[i].frame_num \in bits BY DEF FramesOK
<1>4. frames'[f].key = k BY <1>1 DEF TypeOK
<1>5. \A g \in bits : frames'[g] = frames[g] BY <1>1 DEF TypeOK
<1> HIDE DEF last
<1>6. FramesOK(pages', bitmap')
  <2>1. \A i, j \in DOMAIN pages' : pages'[i].frame_num = pages'[j].frame_num => i = j
    BY <1>1, <1>2, <1>3 DEF FramesOK
  <2>2. \A i \in DOMAIN pages' : pages'[i].frame_num \in bitmap'
    BY <1>1, <1>2, <1>3
  <2>3. \A g \in bitmap' : g \in StartMarks \/ \E i \in DOMAIN pages' : pages'[i].frame_num = g
    BY <1>1, <1>2 DEF FramesOK
  <2> QED BY <2>1, <2>2, <2>3 DEF FramesOK
<1>7. KeysOK(pages', frames')
  <2> SUFFICES ASSUME NEW i \in DOMAIN pages', NEW j \in DOMAIN pages',
                      pages'[i].table = pages'[j].table,
                      frames'[pages'[i].frame_num].key = frames'[pages'[j].frame_num].key
               PROVE  i = j
    BY DEF KeysOK
  <2>1. \A n \in DOMAIN pgs : frames'[pages'[n].frame_num].key = frames[pgs[n].frame_num].key
    BY <1>2, <1>3, <1>5
  <2>2. CASE i \in DOMAIN pgs /\ j \in DOMAIN pgs BY <2>1, <2>2, <1>2 DEF KeysOK
  <2>3. CASE i \in DOMAIN pgs /\ j = last BY <2>1, <2>3, <1>1, <1>2, <1>4
  <2>4. CASE j \in DOMAIN pgs /\ i = last BY <2>1, <2>4, <1>1, <1>2, <1>4
  <2> QED BY <2>2, <2>3, <2>4, <1>2
<1> QED BY <1>6, <1>7 DEF PagesOK

\* A load into a list without pages and a bitmap without marks.
LEMMA LoadIntoNone ==
  ASSUME TypeOK, NEW t \in Tables, NEW k \in Keys, NEW v \in Known, NEW modified \in BOOLEAN,
         Load(t, k, v, modified, <<>>, {})
  PROVE  /\ pages' \in Seq(Page) /\ frames' \in [Frames -> Frame] /\ bitmap' \subseteq Frames
         /\ FilledInv' /\ PagesOK' /\ \A i \in DOMAIN pages' : pages'[i].table = t
<1>0. \E none \in Seq(Page), unmarked \in SUBSET Frames : none = <<>> /\ unmarked = {}
  <2>1. <<>> \in Seq(Page) /\ {} \in SUBSET Frames OBVIOUS
  <2> WITNESS <<>> \in Seq(Page), {} \in SUBSET Frames
  <2> QED OBVIOUS
<1>1. PICK none \in Seq(Page), unmarked \in SUBSET Frames : none = <<>> /\ unmarked = {}
  BY <1>0
<1>2. Load(t, k, v, modified, none, unmarked) BY <1>1
<1>3. DOMAIN none = {} /\ Len(none) = 0 BY <1>1
<1>4. FramesOK(none, unmarked) /\ KeysOK(none, frames) BY <1>1, <1>3 DEF FramesOK, KeysOK
<1>5. /\ pages' \in Seq(Page) /\ frames' \in [Frames -> Frame] /\ bitmap' \subseteq Frames
      /\ FilledInv'
  BY <1>2, <1>3, LoadTypes
<1>6. PagesOK'
  <2>1. \A i \in DOMAIN none : none[i].table = t => frames[none[i].frame_num].key # k BY <1>3
  <2> QED BY <1>2, <1>4, <2>1, LoadKeepsPages
<1>7. PICK p \in Page : p.table = t /\ pages' = Append(none, p) BY <1>2, LoadFacts
<1>8. \A i \in DOMAIN pages' : pages'[i].table = t BY <1>3, <1>7, AppendFacts
<1> QED BY <1>5, <1>6, <1>8

-----------------------------------------------------------------------------
(* Pages are marked, used, held or removed.                                *)

\* What the invariant needs of a step in which every page keeps its table and frame.
SamePlaces ==
  /\ DOMAIN pages' = DOMAIN pages
  /\ \A i \in DOMAIN pages :
       pages'[i].table = pages[i].table /\ pages'[i].frame_num = pages[i].frame_num
  /\ bitmap' = bitmap

LEMMA SamePlacesKeep ==
  ASSUME Types, SamePlaces, \A f \in Frames : frames'[f].key = frames[f].key,
         \A f \in Frames : frames[f].value \in Known => frames'[f].value \in Known
  PROVE  FilledInv' /\ (PagesOK => PagesOK')
<1>1. \A i \in DOMAIN pages : pages[i].frame_num \in Frames
  <2>1. \A i \in DOMAIN pages : pages[i] \in Page BY DEF Types, TypeOK
  <2> QED BY <2>1 DEF Page
<1>2. FilledInv' BY <1>1 DEF SamePlaces, Types, FilledInv
<1>3. ASSUME PagesOK PROVE FramesOK(pages', bitmap')
  BY <1>3 DEF PagesOK, FramesOK, SamePlaces
<1>4. ASSUME PagesOK PROVE KeysOK(pages', frames')
  BY <1>1, <1>4 DEF PagesOK, KeysOK, SamePlaces
<1> QED BY <1>2, <1>3, <1>4 DEF PagesOK

\* No page and no segment comes or goes.
LEMMA SegmentsSame ==
  ASSUME SegmentsOK(segments, pages), SamePlaces, segments' = segments
  PROVE  SegmentsOK(segments', pages')
BY DEF SegmentsOK, SamePlaces

\* The segments after a step that kept the tables of pages, or loaded one.
LEMMA SegmentsKept ==
  ASSUME TypeOK, SegmentsOK(segments, pages), NEW pgs, NEW segs, NEW t \in Tables,
         segs = segments \/ segs = Ensured(t),
         \A i \in DOMAIN pgs : \/ \E j \in DOMAIN pages : pgs[i].table = pages[j].table
                               \/ pgs[i].table = t /\ segs = Ensured(t)
  PROVE  SegmentsOK(segs, pgs) /\ segs \in Seq(Tables)
<1>1. /\ segs \in Seq(Tables)
      /\ \A m, n \in DOMAIN segs : segs[m] = segs[n] => m = n
      /\ \A u : Contains(segments, u) => Contains(segs, u)
  BY EnsuredFacts DEF SegmentsOK, TypeOK
<1>2. segs = Ensured(t) => Contains(segs, t) BY EnsuredFacts DEF SegmentsOK, TypeOK
<1>3. \A j \in DOMAIN pages : Contains(segs, pages[j].table) BY <1>1 DEF SegmentsOK
<1>4. \A i \in DOMAIN pgs : Contains(segs, pgs[i].table) BY <1>2, <1>3
<1> QED BY <1>1, <1>4 DEF SegmentsOK

\* A page leaves the list: frames and keys stay apart.
LEMMA RemovalKeepsPages ==
  ASSUME Types, PagesOK, NEW i \in DOMAIN pages
  PROVE  /\ RemoveAt(pages, i) \in Seq(Page)
         /\ FramesOK(RemoveAt(pages, i), bitmap \ {pages[i].frame_num})
         /\ KeysOK(RemoveAt(pages, i), frames)
<1>0. pages \in Seq(Page) BY DEF Types, TypeOK
<1> DEFINE rest == RemoveAt(pages, i)
           from(n) == IF n < i THEN n ELSE n + 1
<1>1. /\ rest \in Seq(Page) /\ DOMAIN rest = 1 .. Len(pages) - 1
      /\ \A n \in DOMAIN rest : rest[n] = pages[from(n)]
  BY <1>0, RemoveAtFacts
<1>2. /\ \A n \in DOMAIN rest : from(n) \in DOMAIN pages /\ from(n) # i
      /\ \A m, n \in DOMAIN rest : from(m) = from(n) => m = n
  BY <1>0, <1>1
<1>3. \A j \in DOMAIN pages \ {i} : \E n \in DOMAIN rest : rest[n] = pages[j]
  BY <1>0, RemoveAtKeeps
<1> HIDE DEF rest, from
<1>4. FramesOK(rest, bitmap \ {pages[i].frame_num})
  <2>1. \A m, n \in DOMAIN rest : rest[m].frame_num = rest[n].frame_num => m = n
    BY <1>1, <1>2 DEF PagesOK, FramesOK
  <2>2. \A n \in DOMAIN rest : rest[n].frame_num \in bitmap \ {pages[i].frame_num}
    BY <1>1, <1>2 DEF PagesOK, FramesOK
  <2>3. \A f \in bitmap \ {pages[i].frame_num} :
          f \in StartMarks \/ \E n \in DOMAIN rest : rest[n].frame_num = f
    BY <1>3 DEF PagesOK, FramesOK
  <2> QED BY <2>1, <2>2, <2>3 DEF FramesOK
<1>5. KeysOK(rest, frames) BY <1>1, <1>2 DEF PagesOK, KeysOK
<1> QED BY <1>1, <1>4, <1>5 DEF rest

\* A replacement.
LEMMA ReplaceKeeps ==
  ASSUME IInv, NEW t \in Tables, NEW k \in Keys, NEW v \in Known, NEW modified \in BOOLEAN,
         Hits(t, k) = {}, Replace(t, k, v, modified)
  PROVE  /\ pages' \in Seq(Page)
         /\ frames' \in [Frames -> Frame]
         /\ bitmap' \subseteq Frames
         /\ confused' \in BOOLEAN
         /\ FilledInv'
         /\ ~confused' => PagesOK'
         /\ \A i \in DOMAIN pages' : \/ \E j \in DOMAIN pages : pages'[i].table = pages[j].table
                                   \/ pages'[i].table = t
<1> USE DEF IInv, Types
<1>0. pages \in Seq(Page) BY DEF TypeOK
<1>1. PICK i \in DOMAIN pages, j \in DOMAIN pages :
        /\ IsVictim(i) /\ IsRemoved(j, i)
        /\ confused' = (confused \/ i # j)
        /\ Load(t, k, v, modified, RemoveAt(pages, j), bitmap \ {pages[i].frame_num})
  BY DEF Replace
<1> DEFINE pgs == RemoveAt(pages, j)
           bits == bitmap \ {pages[i].frame_num}
<1>2. /\ pgs \in Seq(Page) /\ \A n \in DOMAIN pgs : \E m \in DOMAIN pages : pgs[n] = pages[m]
      /\ bits \in SUBSET Frames
  <2>1. bits \in SUBSET Frames BY DEF TypeOK
  <2>2. /\ pgs \in Seq(Page) /\ DOMAIN pgs = 1 .. Len(pages) - 1
        /\ \A n \in DOMAIN pgs : pgs[n] = IF n < j THEN pages[n] ELSE pages[n + 1]
    BY <1>0, RemoveAtFacts
  <2>3. \A n \in DOMAIN pgs : n \in DOMAIN pages /\ n + 1 \in DOMAIN pages BY <2>2, <1>0
  <2> QED BY <2>1, <2>2, <2>3
<1>3. confused' \in BOOLEAN BY <1>1 DEF TypeOK
<1>4. ASSUME ~confused' PROVE FramesOK(pgs, bits) /\ KeysOK(pgs, frames)
  BY <1>1, <1>4, RemovalKeepsPages
<1>5. \A n \in DOMAIN pgs : pgs[n].table = t => frames[pgs[n].frame_num].key # k
  BY <1>2 DEF Hits
<1>6. Load(t, k, v, modified, pgs, bits) BY <1>1
<1> HIDE DEF pgs, bits
<1>7. \A n \in DOMAIN pgs : /\ frames[pgs[n].frame_num].key \in Keys
                            /\ frames[pgs[n].frame_num].value \in Known
  BY <1>2 DEF FilledInv
<1>8. /\ pages' \in Seq(Page) /\ frames' \in [Frames -> Frame] /\ bitmap' \subseteq Frames
      /\ FilledInv'
  BY <1>2, <1>6, <1>7, LoadTypes
<1>9. ~confused' => PagesOK' BY <1>2, <1>4, <1>5, <1>6, LoadKeepsPages
<1>10. \A n \in DOMAIN pages' : \/ \E m \in DOMAIN pages : pages'[n].table = pages[m].table
                                \/ pages'[n].table = t
  <2>1. PICK p \in Page : p.table = t /\ pages' = Append(pgs, p) BY <1>2, <1>6, LoadFacts
  <2> QED BY <2>1, <1>2, AppendFacts
<1> QED BY <1>3, <1>8, <1>9, <1>10

-----------------------------------------------------------------------------
(* Types of what is not the cache.                                         *)

\* What a journal sends are records.
LEMMA SendTypes ==
  ASSUME Types, NEW sent \in SUBSET Modified, NEW broken, Send(sent, broken)
  PROVE  store' \in [Tables -> [Keys -> SUBSET Records]] /\ fsTables' = fsTables
<1> USE DEF Types
<1>1. \A i \in DOMAIN pages : Record(i) \in Records
  <2> SUFFICES ASSUME NEW i \in DOMAIN pages PROVE Record(i) \in Records OBVIOUS
  <2>1. pages[i] \in Page BY DEF TypeOK
  <2>2. frames[pages[i].frame_num] \in Frame BY <2>1 DEF TypeOK, Page
  <2> QED BY <2>2 DEF FilledInv, Record, Records, Frame
<1>2. \A t \in Tables, k \in Keys : Stored(t, k, sent \ broken) \subseteq Records
  <2> SUFFICES ASSUME NEW t \in Tables, NEW k \in Keys
               PROVE  Stored(t, k, sent \ broken) \subseteq Records
    OBVIOUS
  <2>1. store[t][k] \subseteq Records BY DEF TypeOK
  <2>2. \A i \in (sent \ broken) \cap Hits(t, k) : Record(i) \in Records BY <1>1 DEF Hits
  <2> QED BY <2>1, <2>2 DEF Stored, Newest
<1> QED BY <1>2 DEF Send, TypeOK

LEMMA ExcusesTypes ==
  ASSUME TypeOK, NEW sent, NEW broken
  PROVE  Excuses(sent, broken) \in [Tables -> [Keys -> Known \cup {NoValue, Garbage}]]
BY DEF Excuses, TypeOK

\* Clients learn of a value.
LEMMA OfferTypes ==
  ASSUME TypeOK, NEW t \in Tables, NEW k, NEW v \in Known, Offer(t, k, v)
  PROVE  reading' \in [Clients -> Read \cup {Idle}]
<1> SUFFICES ASSUME NEW c \in Clients, Follows(c, t)
             PROVE  [reading[c] EXCEPT !.want = @ \cup {v}] \in Read
  BY DEF Offer, TypeOK
<1>1. reading[c] \in Read BY DEF Follows, TypeOK, Idle
<1> QED BY <1>1 DEF Read

LEMMA BecameTypes ==
  ASSUME TypeOK, NEW t \in Tables, NEW k \in Keys, NEW v \in Known, Became(t, k, v)
  PROVE  expected' \in [Tables -> [Keys -> Known \cup {NoValue, Garbage}]]
BY DEF Became, TypeOK

-----------------------------------------------------------------------------
(* Each step keeps the invariant.                                          *)

\* A key without a page gets one, in a cache with a free frame or after a replacement.
LEMMA LoadingInv ==
  ASSUME IInv, NEW t \in Tables, NEW k \in Keys, NEW v \in Known, NEW modified \in BOOLEAN,
         Hits(t, k) = {},
         \/ Load(t, k, v, modified, pages, bitmap) /\ UNCHANGED confused
         \/ Replace(t, k, v, modified),
         segments' = Ensured(t), Became(t, k, v), UNCHANGED <<now, fs>>,
         Offer(t, k, v) \/ UNCHANGED reading
  PROVE  IInv'
<1> USE DEF IInv, Types
<1>1. /\ pages' \in Seq(Page)
      /\ frames' \in [Frames -> Frame]
      /\ bitmap' \subseteq Frames
      /\ confused' \in BOOLEAN
      /\ FilledInv'
      /\ ~confused' => PagesOK'
      /\ \A i \in DOMAIN pages' : \/ \E j \in DOMAIN pages : pages'[i].table = pages[j].table
                                \/ pages'[i].table = t
  <2>1. CASE Load(t, k, v, modified, pages, bitmap) /\ UNCHANGED confused
    <3>1. pages \in Seq(Page) /\ bitmap \in SUBSET Frames /\ confused' \in BOOLEAN
      BY <2>1 DEF TypeOK
    <3>2. \A i \in DOMAIN pages : pages[i].table = t => frames[pages[i].frame_num].key # k
      BY DEF Hits
    <3>3. /\ pages' \in Seq(Page) /\ frames' \in [Frames -> Frame] /\ bitmap' \subseteq Frames
          /\ FilledInv'
      BY <2>1, <3>1, LoadTypes DEF FilledInv
    <3>4. ~confused' => PagesOK' BY <2>1, <3>1, <3>2, LoadKeepsPages DEF PagesOK
    <3>5. PICK p \in Page : p.table = t /\ pages' = Append(pages, p) BY <2>1, <3>1, LoadFacts
    <3>6. \A i \in DOMAIN pages' : \/ \E j \in DOMAIN pages : pages'[i].table = pages[j].table
                                  \/ pages'[i].table = t
      BY <3>1, <3>5, AppendFacts
    <3> QED BY <3>1, <3>3, <3>4, <3>6
  <2>2. CASE Replace(t, k, v, modified) BY <2>2, ReplaceKeeps
  <2> QED BY <2>1, <2>2
<1>2. SegmentsOK(segments', pages') /\ segments' \in Seq(Tables) BY <1>1, SegmentsKept
<1>3. reading' \in [Clients -> Read \cup {Idle}] BY OfferTypes DEF TypeOK
<1>4. expected' \in [Tables -> [Keys -> Known \cup {NoValue, Garbage}]] BY BecameTypes
<1>5. TypeOK' BY <1>1, <1>2, <1>3, <1>4 DEF TypeOK, fs
<1> QED BY <1>1, <1>2, <1>5

\* A key gets a page in the cache a journal has emptied.
LEMMA LoadingEmptiedInv ==
  ASSUME IInv, NEW t \in Tables, NEW k \in Keys, NEW v \in Known, NEW modified \in BOOLEAN,
         NEW broken, JournalEmpties(broken), Load(t, k, v, modified, <<>>, {}),
         segments' = <<t>>, expected' = [Excuses(Modified, broken) EXCEPT ![t][k] = v],
         Offer(t, k, v) \/ UNCHANGED reading, UNCHANGED <<now, confused>>
  PROVE  IInv'
<1> USE DEF IInv, Types
<1>3. /\ pages' \in Seq(Page) /\ frames' \in [Frames -> Frame] /\ bitmap' \subseteq Frames
      /\ FilledInv' /\ PagesOK' /\ \A i \in DOMAIN pages' : pages'[i].table = t
  BY LoadIntoNone
<1>6. SegmentsOK(segments', pages') /\ segments' \in Seq(Tables)
  BY <1>3 DEF SegmentsOK, Contains
<1>7. reading' \in [Clients -> Read \cup {Idle}] BY OfferTypes DEF TypeOK
<1>8. expected' \in [Tables -> [Keys -> Known \cup {NoValue, Garbage}]] BY ExcusesTypes
<1>9. store' \in [Tables -> [Keys -> SUBSET Records]] /\ fsTables' = fsTables
  BY SendTypes DEF JournalEmpties
<1>10. TypeOK' BY <1>3, <1>6, <1>7, <1>8, <1>9 DEF TypeOK
<1> QED BY <1>3, <1>6, <1>10

\* A page could not be sent.
LEMMA JournalFailsInv ==
  ASSUME IInv, NEW broken, JournalFails(broken), UNCHANGED now,
         segments' = segments \/ \E t \in Tables : segments' = Ensured(t)
  PROVE  IInv'
<1> USE DEF IInv, Types
<1>0. pages \in Seq(Page) BY DEF TypeOK
<1>1. PICK sent \in SUBSET Modified :
        /\ Send(sent, broken)
        /\ pages' = [i \in DOMAIN pages |->
                       IF i \in sent THEN [pages[i] EXCEPT !.isModified = FALSE] ELSE pages[i]]
        /\ expected' = Excuses(sent, broken)
        /\ UNCHANGED <<frames, bitmap, confused, reading>>
  BY DEF JournalFails
<1>2. \A i \in DOMAIN pages : pages[i] \in Page /\ [pages[i] EXCEPT !.isModified = FALSE] \in Page
  <2>1. \A i \in DOMAIN pages : pages[i] \in Page BY <1>0
  <2> QED BY <2>1 DEF Page
<1>3. \A i \in DOMAIN pages : pages'[i] \in Page
  BY <1>1, <1>2
<1>4. pages' \in Seq(Page)
  <2>1. DOMAIN pages' = 1 .. Len(pages) /\ Len(pages) \in Nat BY <1>0, <1>1
  <2>2. pages' = [i \in 1 .. Len(pages) |-> pages'[i]] BY <2>1, <1>1
  <2> QED BY <2>1, <2>2, <1>3, <1>0
<1>5. SamePlaces BY <1>1, <1>2 DEF SamePlaces, Page
<1>6. FilledInv' /\ (PagesOK => PagesOK') BY <1>1, <1>5, SamePlacesKeep
<1>7. SegmentsOK(segments', pages') /\ segments' \in Seq(Tables)
  <2>1. CASE segments' = segments BY <1>5, <2>1, SegmentsSame DEF TypeOK
  <2>2. ASSUME NEW t \in Tables, segments' = Ensured(t)
        PROVE  SegmentsOK(segments', pages') /\ segments' \in Seq(Tables)
    BY <1>5, <2>2, SegmentsKept DEF SamePlaces
  <2> QED BY <2>1, <2>2
<1>8. /\ store' \in [Tables -> [Keys -> SUBSET Records]] /\ fsTables' = fsTables
      /\ expected' \in [Tables -> [Keys -> Known \cup {NoValue, Garbage}]]
  BY <1>1, SendTypes, ExcusesTypes
<1>9. TypeOK' BY <1>1, <1>4, <1>7, <1>8 DEF TypeOK
<1> QED BY <1>1, <1>6, <1>7, <1>9

LEMMA JournalInv == ASSUME IInv, NEW broken, Journal(broken) PROVE IInv'
<1> USE DEF IInv, Types
<1>1. CASE JournalFails(broken) /\ UNCHANGED segments
  BY <1>1, JournalFailsInv DEF Journal
<1>2. CASE ~(JournalFails(broken) /\ UNCHANGED segments)
  <2>1. /\ Send(Modified, broken) /\ segments' = <<>> /\ pages' = <<>> /\ bitmap' = {}
        /\ expected' = Excuses(Modified, broken)
        /\ UNCHANGED <<frames, confused, reading, now>>
    BY <1>2 DEF Journal, JournalEmpties
  <2>2. /\ store' \in [Tables -> [Keys -> SUBSET Records]] /\ fsTables' = fsTables
        /\ expected' \in [Tables -> [Keys -> Known \cup {NoValue, Garbage}]]
    BY <2>1, SendTypes, ExcusesTypes
  <2>3. DOMAIN pages' = {} /\ DOMAIN segments' = {} BY <2>1
  <2>4. PagesOK' BY <2>1, <2>3 DEF PagesOK, FramesOK, KeysOK
  <2>5. SegmentsOK(segments', pages') /\ FilledInv' BY <2>3 DEF SegmentsOK, FilledInv
  <2>6. pages' \in Seq(Page) /\ segments' \in Seq(Tables) BY <2>1
  <2>7. TypeOK' BY <2>1, <2>2, <2>6 DEF TypeOK
  <2> QED BY <2>4, <2>5, <2>7
<1> QED BY <1>1, <1>2

\* The key has a page, which is rewritten.
LEMMA InsertHitInv ==
  ASSUME IInv, NEW t \in Tables, NEW k \in Keys, NEW v \in Values, InsertHit(t, k, v)
  PROVE  IInv'
<1> USE DEF IInv, Types
<1>0. pages \in Seq(Page) /\ v \in Known BY DEF TypeOK, Known
<1>1. PICK i \in DOMAIN pages :
    /\ frames' = [frames EXCEPT ![pages[i].frame_num].ts = now,
                                ![pages[i].frame_num].value = v]
    /\ pages' = [pages EXCEPT ![i].isModified = TRUE, ![i].last_time_used = now]
    /\ Became(t, k, v)
    /\ Offer(t, k, v)
    /\ UNCHANGED <<segments, bitmap, now, fs, confused>>
  BY DEF InsertHit
<1>2. \A j \in DOMAIN pages : pages[j] \in Page BY <1>0
<1>3. pages[i].frame_num \in Frames BY <1>2 DEF Page
<1> DEFINE f == pages[i].frame_num
           content == [frames[f] EXCEPT !.ts = now, !.value = v]
           page == [pages[i] EXCEPT !.isModified = TRUE, !.last_time_used = now]
<1>4. /\ frames' \in [Frames -> Frame]
      /\ \A g \in Frames : frames'[g].key = frames[g].key
      /\ \A g \in Frames : frames[g].value \in Known => frames'[g].value \in Known
  <2>1. frames' = [frames EXCEPT ![f] = content] BY <1>1
  <2>2. frames[f] \in Frame BY <1>3 DEF TypeOK
  <2>3. content \in Frame /\ content.key = frames[f].key /\ content.value = v
    BY <1>0, <2>2 DEF TypeOK, Frame
  <2> HIDE DEF content, f
  <2> QED BY <1>0, <1>3, <2>1, <2>3 DEF TypeOK
<1>5. page \in Page /\ page.table = pages[i].table /\ page.frame_num = pages[i].frame_num
  BY <1>2 DEF Page, TypeOK
<1>6. pages' = [pages EXCEPT ![i] = page] BY <1>1
<1> HIDE DEF page
<1>7. pages' \in Seq(Page) BY <1>0, <1>5, <1>6
<1>8. SamePlaces BY <1>0, <1>1, <1>5, <1>6 DEF SamePlaces
<1>9. FilledInv' /\ (PagesOK => PagesOK') BY <1>4, <1>8, SamePlacesKeep
<1>10. SegmentsOK(segments', pages') BY <1>1, <1>8, SegmentsSame
<1>11. TypeOK' BY <1>0, <1>1, <1>4, <1>7, OfferTypes, BecameTypes DEF TypeOK, fs
<1> QED BY <1>1, <1>9, <1>10, <1>11

\* The page is used, and the client has a pointer to it.
LEMMA SelectHitInv ==
  ASSUME IInv, NEW c \in Clients, NEW t \in Tables, NEW k \in Keys, SelectHit(c, t, k)
  PROVE  IInv'
<1> USE DEF IInv, Types
<1>0. pages \in Seq(Page) BY DEF TypeOK
<1>1. PICK i \in DOMAIN pages :
        pages' = [pages EXCEPT ![i].last_time_used = now, ![i].heldBy = @ \cup {c}]
  BY DEF SelectHit
<1> DEFINE page == [pages[i] EXCEPT !.last_time_used = now, !.heldBy = @ \cup {c}]
           read == [pc |-> "found", table |-> t, key |-> k, frame |-> 0, first |-> NoValue,
                    want |-> {expected[t][k]}, overtaken |-> expected[t][k] = Garbage]
<1>2. /\ reading' = [reading EXCEPT ![c] = read]
      /\ UNCHANGED <<segments, frames, bitmap, now, fs, history>>
  BY DEF SelectHit
<1>3. pages[i] \in Page BY <1>0
<1>4. page \in Page /\ page.table = pages[i].table /\ page.frame_num = pages[i].frame_num
  BY <1>3 DEF Page, TypeOK
<1>5. pages' = [pages EXCEPT ![i] = page] BY <1>1
<1>6. read \in Read
  <2>1. 0 \in Frames BY NFramesAssumption DEF Frames
  <2>2. expected[t][k] \in Known \cup {NoValue, Garbage} BY DEF TypeOK
  <2> QED BY <2>1, <2>2 DEF Read
<1> HIDE DEF page, read
<1>7. pages' \in Seq(Page) BY <1>0, <1>4, <1>5
<1>8. SamePlaces BY <1>0, <1>2, <1>4, <1>5 DEF SamePlaces
<1>9. FilledInv' /\ (PagesOK => PagesOK') BY <1>2, <1>8, SamePlacesKeep
<1>10. SegmentsOK(segments', pages') BY <1>2, <1>8, SegmentsSame
<1>11. reading' \in [Clients -> Read \cup {Idle}] BY <1>2, <1>6 DEF TypeOK
<1>12. TypeOK' BY <1>2, <1>7, <1>11 DEF TypeOK, fs, history
<1> QED BY <1>2, <1>9, <1>10, <1>12 DEF history

\* The rest of a SELECT that hit touches no page but its own, and that only to let go.
LEMMA ReadInv ==
  ASSUME IInv, NEW c \in Clients, BeginRead(c) \/ EndRead(c) \/ Answer(c)
  PROVE  IInv'
<1> USE DEF IInv, Types
<1>0. pages \in Seq(Page) BY DEF TypeOK
<1>1. pages' \in Seq(Page) /\ SamePlaces /\ UNCHANGED <<segments, frames, bitmap, now, fs, history>>
  <2>1. CASE BeginRead(c)
    <3> DEFINE let(p) == [p EXCEPT !.heldBy = @ \ {c}]
    <3>1. pages' = [i \in DOMAIN pages |-> let(pages[i])] BY <2>1 DEF BeginRead
    <3>2. \A p \in Page : let(p) \in Page /\ let(p).table = p.table /\ let(p).frame_num = p.frame_num
      BY DEF Page
    <3> HIDE DEF let
    <3>3. \A i \in DOMAIN pages : pages[i] \in Page BY <1>0
    <3>4. DOMAIN pages' = 1 .. Len(pages) /\ Len(pages) \in Nat BY <1>0, <3>1
    <3>5. pages' \in Seq(Page) BY <1>0, <3>1, <3>2, <3>3, <3>4
    <3> QED BY <2>1, <3>1, <3>2, <3>3, <3>5 DEF SamePlaces, BeginRead
  <2>2. CASE EndRead(c) \/ Answer(c)
    BY <1>0, <2>2 DEF EndRead, Answer, cache, SamePlaces
  <2> QED BY <2>1, <2>2
<1>2. reading' \in [Clients -> Read \cup {Idle}]
  <2>1. \A i \in DOMAIN pages : pages[i].frame_num \in Frames
    <3>1. \A i \in DOMAIN pages : pages[i] \in Page BY <1>0
    <3> QED BY <3>1 DEF Page
  <2>2. \A r \in Read : Overtaken(r) \in Read BY DEF Overtaken, Read
  <2>3. CASE BeginRead(c)
    <3>1. reading[c] \in Read
      <4>1. reading[c].pc = "found" BY <2>3 DEF BeginRead
      <4> QED BY <4>1 DEF TypeOK, Idle
    <3>2. [reading[c] EXCEPT !.pc = "copying"] \in Read BY <3>1 DEF Read
    <3>3. CASE Held(c) = {} \/ reading[c].overtaken
      <4>1. reading' = [reading EXCEPT ![c] = Overtaken([reading[c] EXCEPT !.pc = "copying"])]
        BY <2>3, <3>3 DEF BeginRead
      <4> QED BY <4>1, <3>2, <2>2 DEF TypeOK
    <3>4. CASE ~(Held(c) = {} \/ reading[c].overtaken)
      <4>1. PICK i \in Held(c) :
              reading' = [reading EXCEPT
                            ![c].pc = "copying", ![c].frame = pages[i].frame_num,
                            ![c].first = frames[pages[i].frame_num].value]
        BY <2>3, <3>4 DEF BeginRead
      <4> DEFINE f == pages[i].frame_num
                 read == [reading[c] EXCEPT !.pc = "copying", !.frame = f, !.first = frames[f].value]
      <4>2. f \in Frames BY <2>1 DEF Held
      <4>3. frames[f].value \in Known \cup {Garbage} BY <4>2 DEF TypeOK, Frame
      <4>4. read \in Read BY <3>1, <4>2, <4>3 DEF Read
      <4>5. reading' = [reading EXCEPT ![c] = read] BY <4>1
      <4> QED BY <4>4, <4>5 DEF TypeOK
    <3> QED BY <3>3, <3>4
  <2>4. CASE EndRead(c)
    <3>1. reading[c] \in Read BY <2>4 DEF EndRead, TypeOK, Idle
    <3> DEFINE answer == [reading[c] EXCEPT !.pc = "done", !.frame = 0]
    <3>2. 0 \in Frames BY NFramesAssumption DEF Frames
    <3>3. answer \in Read BY <3>1, <3>2 DEF Read
    <3>4. \E r \in {answer, Overtaken(answer)} : reading' = [reading EXCEPT ![c] = r]
      BY <2>4 DEF EndRead
    <3> QED BY <3>3, <3>4, <2>2 DEF TypeOK
  <2>5. CASE Answer(c) BY <2>5 DEF Answer, TypeOK
  <2> QED BY <2>3, <2>4, <2>5
<1>3. FilledInv' /\ (PagesOK => PagesOK') BY <1>1, SamePlacesKeep
<1>4. SegmentsOK(segments', pages') BY <1>1, SegmentsSame
<1>5. TypeOK' BY <1>1, <1>2 DEF TypeOK, fs, history
<1> QED BY <1>1, <1>3, <1>4, <1>5 DEF history

-----------------------------------------------------------------------------
(* DROP: the pages of a table leave, the others stay in order.             *)

\* The pages kept: each once, and all of them.
LEMMA KeptFacts ==
  ASSUME pages \in Seq(Page), NEW S \in SUBSET DOMAIN pages, NEW kept \in InOrder(S),
         pages' = [n \in DOMAIN kept |-> pages[kept[n]]]
  PROVE  /\ pages' \in Seq(Page) /\ DOMAIN pages' = DOMAIN kept
         /\ \A n \in DOMAIN kept : kept[n] \in S
         /\ \A m, n \in DOMAIN kept : kept[m] = kept[n] => m = n
         /\ \A i \in S : \E n \in DOMAIN kept : kept[n] = i
<1>1. Cardinality(S) \in Nat
  <2>1. S \subseteq 1 .. Len(pages) /\ Len(pages) \in Nat OBVIOUS
  <2>2. IsFiniteSet(1 .. Len(pages)) BY <2>1, FS_Interval
  <2>3. IsFiniteSet(S) BY <2>1, <2>2, FS_Subset
  <2> QED BY <2>3, FS_CardinalityType
<1>2. kept \in Bijection(1 .. Cardinality(S), S) BY DEF InOrder
<1>3. /\ DOMAIN kept = 1 .. Cardinality(S)
      /\ \A n \in DOMAIN kept : kept[n] \in S
      /\ \A m, n \in DOMAIN kept : kept[m] = kept[n] => m = n
      /\ \A i \in S : \E n \in DOMAIN kept : kept[n] = i
  BY <1>2 DEF Bijection, Injection, Surjection, IsInjective
<1>4. \A n \in DOMAIN kept : pages[kept[n]] \in Page BY <1>3
<1> DEFINE N == Cardinality(S)
<1> HIDE DEF N
<1>5. pages' \in Seq(Page)
  <2>1. pages' = [n \in 1 .. N |-> pages[kept[n]]] /\ N \in Nat BY <1>1, <1>3 DEF N
  <2>2. \A n \in 1 .. N : pages[kept[n]] \in Page BY <1>3, <1>4 DEF N
  <2> QED BY <2>1, <2>2
<1> QED BY <1>3, <1>5

LEMMA DropInv == ASSUME IInv, NEW t \in Tables, Drop(t) PROVE IInv'
<1> USE DEF IInv, Types
<1> DEFINE S == {i \in DOMAIN pages : pages[i].table # t}
<1>0. pages \in Seq(Page) /\ segments \in Seq(Tables) BY DEF TypeOK
<1>1. PICK kept \in InOrder(S) : pages' = [n \in DOMAIN kept |-> pages[kept[n]]] BY DEF Drop
<1>2. /\ pages' \in Seq(Page) /\ DOMAIN pages' = DOMAIN kept
      /\ \A n \in DOMAIN pages' : kept[n] \in DOMAIN pages /\ pages'[n] = pages[kept[n]]
                               /\ pages[kept[n]].table # t
      /\ \A m, n \in DOMAIN pages' : kept[m] = kept[n] => m = n
      /\ \A i \in DOMAIN pages : pages[i].table # t => \E n \in DOMAIN pages' : pages'[n] = pages[i]
  <2>1. /\ S \in SUBSET DOMAIN pages
        /\ \A i : i \in S <=> i \in DOMAIN pages /\ pages[i].table # t
    OBVIOUS
  <2> HIDE DEF S
  <2>2. /\ pages' \in Seq(Page) /\ DOMAIN pages' = DOMAIN kept
        /\ \A n \in DOMAIN kept : kept[n] \in S
        /\ \A m, n \in DOMAIN kept : kept[m] = kept[n] => m = n
        /\ \A i \in S : \E n \in DOMAIN kept : kept[n] = i
    BY <1>0, <1>1, <2>1, KeptFacts
  <2> QED BY <1>1, <2>1, <2>2
<1>3. /\ RemoveSegment(t)
      /\ bitmap' = bitmap \ {pages[i].frame_num : i \in {n \in DOMAIN pages : pages[n].table = t}}
      /\ fsTables' = fsTables \ {t}
      /\ store' = [store EXCEPT ![t] = [k \in Keys |-> {}]]
      /\ expected' = [expected EXCEPT ![t] = [k \in Keys |-> NoValue]]
      /\ reading' = [c \in Clients |->
                       IF Follows(c, t)
                       THEN [reading[c] EXCEPT !.want = @ \cup {NoValue}] ELSE reading[c]]
      /\ UNCHANGED <<frames, now, confused>>
  BY DEF Drop, DroppedInFS
<1>4. segments' \in Seq(Tables) /\ SegmentsOK(segments', pages')
  <2>1. CASE ~Contains(segments, t) /\ UNCHANGED segments
    BY <1>0, <1>2, <2>1 DEF SegmentsOK
  <2>2. ASSUME NEW n \in DOMAIN segments, segments[n] = t, segments' = RemoveAt(segments, n)
        PROVE  segments' \in Seq(Tables) /\ SegmentsOK(segments', pages')
    <3>1. /\ segments' \in Seq(Tables) /\ DOMAIN segments' = 1 .. Len(segments) - 1
          /\ \A m \in DOMAIN segments' : segments'[m] = IF m < n THEN segments[m] ELSE segments[m + 1]
      BY <1>0, <2>2, RemoveAtFacts
    <3>2. \A l, m \in DOMAIN segments' : segments'[l] = segments'[m] => l = m
      <4> SUFFICES ASSUME NEW l \in DOMAIN segments', NEW m \in DOMAIN segments',
                          segments'[l] = segments'[m]
                   PROVE  l = m
        OBVIOUS
      <4> DEFINE from(x) == IF x < n THEN x ELSE x + 1
      <4>1. from(l) \in DOMAIN segments /\ from(m) \in DOMAIN segments BY <1>0, <3>1
      <4>2. segments[from(l)] = segments[from(m)] BY <3>1
      <4>3. from(l) = from(m)
        <5> HIDE DEF from
        <5> QED BY <4>1, <4>2 DEF SegmentsOK
      <4> QED BY <4>3, <3>1, <1>0
    <3>3. ASSUME NEW i \in DOMAIN pages' PROVE Contains(segments', pages'[i].table)
      <4>1. /\ kept[i] \in DOMAIN pages /\ pages'[i] = pages[kept[i]] /\ pages'[i].table # t
        BY <1>2
      <4>2. PICK m \in DOMAIN segments : segments[m] = pages'[i].table
        BY <1>0, <4>1 DEF SegmentsOK, Contains
      <4>3. m # n BY <2>2, <4>1, <4>2
      <4>4. PICK x \in DOMAIN segments' : segments'[x] = segments[m]
        BY <1>0, <2>2, <4>3, RemoveAtKeeps
      <4> QED BY <3>1, <4>2, <4>4 DEF Contains
    <3> QED BY <3>1, <3>2, <3>3 DEF SegmentsOK
  <2> QED BY <1>3, <2>1, <2>2 DEF RemoveSegment
<1>5. FilledInv' BY <1>2, <1>3 DEF FilledInv
<1>6. ASSUME PagesOK PROVE FramesOK(pages', bitmap')
  <2>1. \A m, n \in DOMAIN pages' : pages'[m].frame_num = pages'[n].frame_num => m = n
    BY <1>2, <1>6 DEF PagesOK, FramesOK
  <2>2. \A n \in DOMAIN pages' : pages'[n].frame_num \in bitmap'
    <3> SUFFICES ASSUME NEW n \in DOMAIN pages', NEW i \in DOMAIN pages, pages[i].table = t
                 PROVE  pages'[n].frame_num \in bitmap /\ pages'[n].frame_num # pages[i].frame_num
      BY <1>3, <1>2, <1>6 DEF PagesOK, FramesOK
    <3>1. kept[n] \in DOMAIN pages /\ pages'[n] = pages[kept[n]] /\ pages[kept[n]].table # t
      BY <1>2
    <3> QED BY <3>1, <1>6 DEF PagesOK, FramesOK
  <2>3. ASSUME NEW f \in bitmap', f \notin StartMarks
        PROVE  \E n \in DOMAIN pages' : pages'[n].frame_num = f
    <3>1. f \in bitmap /\ \A i \in DOMAIN pages : pages[i].table = t => pages[i].frame_num # f
      BY <1>3
    <3>2. PICK i \in DOMAIN pages : pages[i].frame_num = f
      BY <2>3, <3>1, <1>6 DEF PagesOK, FramesOK
    <3> QED BY <3>1, <3>2, <1>2
  <2> QED BY <2>1, <2>2, <2>3 DEF FramesOK
<1>7. ASSUME PagesOK PROVE KeysOK(pages', frames')
  BY <1>2, <1>3, <1>7 DEF PagesOK, KeysOK
<1>8. reading' \in [Clients -> Read \cup {Idle}]
  <2>1. \A c \in Clients : Follows(c, t) =>
          [reading[c] EXCEPT !.want = @ \cup {NoValue}] \in Read
    <3> SUFFICES ASSUME NEW c \in Clients, Follows(c, t)
                 PROVE  [reading[c] EXCEPT !.want = @ \cup {NoValue}] \in Read
      OBVIOUS
    <3>1. reading[c] \in Read BY DEF Follows, TypeOK, Idle
    <3> QED BY <3>1 DEF Read
  <2> QED BY <1>3, <2>1 DEF TypeOK
<1>9. /\ store' \in [Tables -> [Keys -> SUBSET Records]]
      /\ expected' \in [Tables -> [Keys -> Known \cup {NoValue, Garbage}]]
      /\ bitmap' \subseteq Frames /\ fsTables' \subseteq Tables
  BY <1>3 DEF TypeOK
<1>10. TypeOK' BY <1>2, <1>3, <1>4, <1>8, <1>9 DEF TypeOK
<1> QED BY <1>3, <1>4, <1>5, <1>6, <1>7, <1>10 DEF PagesOK

\* A DROP whose answer is lost leaves the cache alone.
LEMMA DropUnansweredInv == ASSUME IInv, NEW t \in Tables, DropUnanswered(t) PROVE IInv'
<1> USE DEF IInv, Types
<1>1. /\ fsTables' = fsTables \ {t}
      /\ store' = [store EXCEPT ![t] = [k \in Keys |-> {}]]
      /\ expected' = [expected EXCEPT ![t] =
                        [k \in Keys |-> IF Hits(t, k) = {} THEN NoValue ELSE Garbage]]
      /\ UNCHANGED <<segments, pages, frames, bitmap, now, reading, confused>>
  BY DEF DropUnanswered, DroppedInFS, cache
<1>2. /\ store' \in [Tables -> [Keys -> SUBSET Records]]
      /\ expected' \in [Tables -> [Keys -> Known \cup {NoValue, Garbage}]]
      /\ fsTables' \subseteq Tables
  BY <1>1 DEF TypeOK
<1>3. TypeOK' BY <1>1, <1>2 DEF TypeOK
<1>4. FilledInv' BY <1>1 DEF FilledInv
<1>5. PagesOK => PagesOK' BY <1>1 DEF PagesOK, FramesOK, KeysOK
<1> QED BY <1>1, <1>3, <1>4, <1>5

-----------------------------------------------------------------------------
(* The other steps, and the theorems.                                      *)

\* No page qualifies for replacement: a segment may have been added.
LEMMA NoVictimInv ==
  ASSUME IInv, NEW t \in Tables, NEW k \in Keys, NEW v \in Known \cup {Garbage},
         segments' = Ensured(t), expected' = [expected EXCEPT ![t][k] = v],
         UNCHANGED <<pages, frames, bitmap, now, fs, reading, confused>>
  PROVE  IInv'
<1> USE DEF IInv, Types
<1>1. SegmentsOK(segments', pages') /\ segments' \in Seq(Tables) BY SegmentsKept
<1>2. expected' \in [Tables -> [Keys -> Known \cup {NoValue, Garbage}]] BY DEF TypeOK
<1>3. TypeOK' BY <1>1, <1>2 DEF TypeOK, fs
<1>4. FilledInv' BY DEF FilledInv
<1>5. PagesOK => PagesOK' BY DEF PagesOK, FramesOK, KeysOK
<1> QED BY <1>1, <1>3, <1>4, <1>5

LEMMA InsertInv ==
  ASSUME IInv, NEW t \in Tables, NEW k \in Keys, NEW v \in Values,
         \/ Insert(t, k, v)
         \/ \E broken \in SUBSET Modified : InsertAfterJournal(t, k, v, broken)
  PROVE  IInv'
<1>0. v \in Known BY DEF Known
<1>1. CASE InsertHit(t, k, v) BY <1>1, InsertHitInv
<1>2. CASE InsertFree(t, k, v) BY <1>0, <1>2, LoadingInv DEF InsertFree
<1>3. CASE InsertReplacing(t, k, v) BY <1>0, <1>3, LoadingInv DEF InsertReplacing
<1>4. CASE InsertNoVictim(t, k, v) BY <1>4, NoVictimInv DEF InsertNoVictim
<1>5. ASSUME NEW broken, InsertAfterJournal(t, k, v, broken) PROVE IInv'
  BY <1>0, <1>5, LoadingEmptiedInv DEF InsertAfterJournal
<1> QED BY <1>1, <1>2, <1>3, <1>4, <1>5 DEF Insert

LEMMA SelectMissInv ==
  ASSUME IInv, NEW t \in Tables, NEW k \in Keys, NEW v \in Known,
         \/ SelectMiss(t, k, v)
         \/ \E broken \in SUBSET Modified : \/ SelectAfterJournal(t, k, v, broken)
                                           \/ SelectCancelled(t, k, v, broken)
  PROVE  IInv'
<1>1. CASE SelectFree(t, k, v) BY <1>1, LoadingInv DEF SelectFree, Miss
<1>2. CASE SelectReplacing(t, k, v) BY <1>2, LoadingInv DEF SelectReplacing, Miss
<1>3. CASE SelectNoVictim(t, k, v) BY <1>3, NoVictimInv DEF SelectNoVictim, Became
<1>4. ASSUME NEW broken, SelectAfterJournal(t, k, v, broken) PROVE IInv'
  BY <1>4, LoadingEmptiedInv DEF SelectAfterJournal
<1>5. ASSUME NEW broken, SelectCancelled(t, k, v, broken) PROVE IInv'
  BY <1>5, JournalFailsInv DEF SelectCancelled
<1> QED BY <1>1, <1>2, <1>3, <1>4, <1>5 DEF SelectMiss

\* CREATE, the clock and steps that change nothing leave the cache alone.
LEMMA QuietInv ==
  ASSUME IInv, (\E t \in Tables : Create(t)) \/ Tick \/ UNCHANGED vars
  PROVE  IInv'
<1> USE DEF IInv, Types
<1>1. UNCHANGED <<cache, store, reading, history>> BY DEF Create, Tick, vars, fs
<1>2. now' \in Stamps /\ fsTables' \subseteq Tables
  BY MaxTimeAssumption DEF Create, Tick, vars, fs, TypeOK, Stamps
<1>3. TypeOK' BY <1>1, <1>2 DEF TypeOK, cache, history
<1>4. FilledInv' BY <1>1 DEF FilledInv, cache
<1>5. SegmentsOK(segments', pages') BY <1>1 DEF cache
<1>6. PagesOK => PagesOK' BY <1>1 DEF PagesOK, FramesOK, KeysOK, cache
<1> QED BY <1>1, <1>3, <1>4, <1>5, <1>6 DEF history

\* At the start there is no page, and the marks are those of create_bitmap.
LEMMA InitInv == Init => IInv
<1> SUFFICES ASSUME Init PROVE IInv OBVIOUS
<1> USE DEF Init
<1>1. DOMAIN pages = {} /\ DOMAIN segments = {} OBVIOUS
<1>2. TypeOK
  <2>1. StartMarks \subseteq Frames BY DEF StartMarks
  <2>2. 0 \in Stamps BY MaxTimeAssumption DEF Stamps
  <2>3. fsTables \subseteq Tables BY ValuesAssumption
  <2>4. frames \in [Frames -> Frame] BY <2>2 DEF Frame
  <2>5. store \in [Tables -> [Keys -> SUBSET Records]] BY <2>2 DEF Records, Known
  <2>6. expected \in [Tables -> [Keys -> Known \cup {NoValue, Garbage}]] BY DEF Known
  <2>7. segments \in Seq(Tables) /\ pages \in Seq(Page) OBVIOUS
  <2> QED BY <2>1, <2>2, <2>3, <2>4, <2>5, <2>6, <2>7 DEF TypeOK
<1>3. FilledInv /\ SegmentsOK(segments, pages) BY <1>1 DEF FilledInv, SegmentsOK
<1>4. PagesOK BY <1>1 DEF PagesOK, FramesOK, KeysOK
<1> QED BY <1>2, <1>3, <1>4 DEF IInv, Types

LEMMA StepInv == IInv /\ [Next]_vars => IInv'
<1> SUFFICES ASSUME IInv, [Next]_vars PROVE IInv' OBVIOUS
<1>1. ASSUME NEW t \in Tables, NEW k \in Keys, NEW v \in Values,
             \/ Insert(t, k, v)
             \/ \E broken \in SUBSET Modified : InsertAfterJournal(t, k, v, broken)
      PROVE  IInv'
  BY <1>1, InsertInv
<1>2. ASSUME NEW t \in Tables, NEW k \in Keys, NEW v \in Known,
             \/ SelectMiss(t, k, v)
             \/ \E broken \in SUBSET Modified : \/ SelectAfterJournal(t, k, v, broken)
                                               \/ SelectCancelled(t, k, v, broken)
      PROVE  IInv'
  BY <1>2, SelectMissInv
<1>3. ASSUME NEW t \in Tables, NEW k \in Keys, NEW broken, InsertCancelled(t, k, broken)
      PROVE  IInv'
  BY <1>3, JournalFailsInv DEF InsertCancelled
<1>4. ASSUME NEW broken, Journal(broken) PROVE IInv' BY <1>4, JournalInv
<1>5. ASSUME NEW c \in Clients, NEW t \in Tables, NEW k \in Keys, SelectHit(c, t, k)
      PROVE  IInv'
  BY <1>5, SelectHitInv
<1>6. ASSUME NEW c \in Clients, BeginRead(c) \/ EndRead(c) \/ Answer(c) PROVE IInv'
  BY <1>6, ReadInv
<1>7. ASSUME NEW t \in Tables, Drop(t) PROVE IInv' BY <1>7, DropInv
<1>9. ASSUME NEW t \in Tables, DropUnanswered(t) PROVE IInv' BY <1>9, DropUnansweredInv
<1>8. CASE (\E t \in Tables : Create(t)) \/ Tick \/ UNCHANGED vars BY <1>8, QuietInv
<1> QED BY <1>1, <1>2, <1>3, <1>4, <1>5, <1>6, <1>7, <1>8, <1>9 DEF Next

\* The invariant holds of every state a memory can reach.
THEOREM Inductive == Spec => []IInv
BY StepInv, InitInv, PTL DEF Spec

\* Whatever is inserted, selected, journaled and dropped, the segments, pages,
\* frames and marks keep their types.
THEOREM Typing == Spec => []TypeOK
<1>1. IInv => TypeOK BY DEF IInv, Types
<1> QED BY <1>1, Inductive, PTL

\* Until a replacement discards another page than it chose, no two pages share a
\* frame, every page's frame is marked, and no mark is lost.
THEOREM Accounted == Spec => []FramesAccounted
<1>1. IInv => FramesAccounted
  BY DEF IInv, PagesOK, FramesOK, FramesAccounted, Holding
<1> QED BY <1>1, Inductive, PTL

\* search_segment and search_page find the one segment and the one page there is.
THEOREM OnePage == Spec => []OnePagePerKey
<1>1. IInv => OnePagePerKey
  BY DEF IInv, PagesOK, KeysOK, SegmentsOK, OnePagePerKey, Hits
<1> QED BY <1>1, Inductive, PTL

-----------------------------------------------------------------------------
(* What a memory answers.                                                  *)

\* No record is of the future, and the file system answers any of the newest.
StampsInv ==
  /\ \A f \in Frames : frames[f].ts <= now
  /\ \A t \in Tables, k \in Keys : \A r, q \in store[t][k] : r.ts <= now /\ r.ts = q.ts

\* A page is as new as what the file system has of its key, it holds what the
\* clients were told, and when it is clean the file system has that too.
PageOK(p, st, told) ==
  LET c == frames[p.frame_num] IN
  /\ \A r \in st[p.table][c.key] : r.ts <= c.ts
  /\ told[p.table][c.key] # Garbage =>
       /\ told[p.table][c.key] = c.value
       /\ p.isModified \/ \E r \in st[p.table][c.key] : r.value = c.value

\* The file system answers what the clients were told of the key.
MissOK(t, k, st, told) ==
  told[t][k] # Garbage =>
    \/ st[t][k] = {} /\ told[t][k] = NoValue
    \/ \E r \in st[t][k] : r.value = told[t][k]

ToldInv ==
  /\ \A i \in DOMAIN pages : PageOK(pages[i], store, expected)
  /\ \A t \in Tables, k \in Keys : Hits(t, k) = {} => MissOK(t, k, store, expected)

\* Who has a pointer to a page looks for its key, and its value is one to answer.
HeldInv ==
  \A i \in DOMAIN pages, c \in Clients : c \in pages[i].heldBy =>
    /\ reading[c].pc = "found"
    /\ reading[c].table = pages[i].table
    /\ reading[c].key = frames[pages[i].frame_num].key
    /\ ~reading[c].overtaken => frames[pages[i].frame_num].value \in reading[c].want

\* What has been copied is a value to answer.
CopiedInv ==
  \A c \in Clients : reading[c].pc \in {"copying", "done"} /\ ~reading[c].overtaken =>
                       reading[c].first \in reading[c].want

Answering == StampsInv /\ (~confused => ToldInv /\ HeldInv /\ CopiedInv)
RInv      == IInv /\ Answering

-----------------------------------------------------------------------------
(* What the types say of pages, frames and records.                        *)

LEMMA Typed ==
  ASSUME IInv
  PROVE  /\ now \in Int
         /\ Garbage \notin Known /\ NoValue \notin Known
         /\ \A f \in Frames : frames[f].ts \in Int
         /\ \A t \in Tables, k \in Keys : \A r \in store[t][k] : r.ts \in Int
         /\ \A i \in DOMAIN pages :
              /\ pages[i].table \in Tables
              /\ pages[i].frame_num \in Frames
              /\ pages[i].isModified \in BOOLEAN
              /\ frames[pages[i].frame_num].key \in Keys
              /\ frames[pages[i].frame_num].value \in Known
<1> USE DEF IInv, Types
<1>1. /\ now \in Int /\ Garbage \notin Known /\ NoValue \notin Known
  BY ValuesAssumption, MaxTimeAssumption DEF TypeOK, Stamps, Known
<1>2. \A f \in Frames : frames[f].ts \in Int
  BY MaxTimeAssumption DEF TypeOK, Frame, Stamps
<1>3. \A t \in Tables, k \in Keys : \A r \in store[t][k] : r.ts \in Int
  <2> SUFFICES ASSUME NEW t \in Tables, NEW k \in Keys, NEW r \in store[t][k] PROVE r.ts \in Int
    OBVIOUS
  <2>1. r \in Records BY DEF TypeOK
  <2> QED BY <2>1, MaxTimeAssumption DEF Records, Stamps
<1>4. \A i \in DOMAIN pages : pages[i] \in Page BY DEF TypeOK
<1>5. \A i \in DOMAIN pages : /\ pages[i].table \in Tables
                              /\ pages[i].frame_num \in Frames
                              /\ pages[i].isModified \in BOOLEAN
  BY <1>4 DEF Page
<1> QED BY <1>1, <1>2, <1>3, <1>5 DEF FilledInv

\* A page is the one its table and key have.
LEMMA TheHit ==
  ASSUME IInv, PagesOK, NEW i \in DOMAIN pages
  PROVE  Hits(pages[i].table, frames[pages[i].frame_num].key) = {i}
BY DEF PagesOK, KeysOK, Hits

\* A clean page may go: the file system answers for its key.
LEMMA MissFromClean ==
  ASSUME NEW p, NEW st, NEW told, PageOK(p, st, told), ~p.isModified
  PROVE  MissOK(p.table, frames[p.frame_num].key, st, told)
BY DEF PageOK, MissOK

-----------------------------------------------------------------------------
(* A journal, complete or not.                                             *)

\* The records sent are not of the future, and those kept are equally new.
LEMMA SendStamps ==
  ASSUME RInv, NEW sent \in SUBSET Modified, NEW broken, Send(sent, broken)
  PROVE  \A t \in Tables, k \in Keys : \A r, q \in store'[t][k] : r.ts <= now /\ r.ts = q.ts
<1> USE DEF RInv, Answering
<1>1. \A i \in DOMAIN pages : Record(i).ts <= now BY Typed DEF Record, StampsInv
<1>2. ASSUME NEW t \in Tables, NEW k \in Keys, NEW r \in store'[t][k], NEW q \in store'[t][k]
      PROVE  r.ts <= now /\ r.ts = q.ts
  <2>1. CASE t \notin fsTables BY <1>2, <2>1 DEF Send, StampsInv
  <2>2. CASE t \in fsTables
    <3> DEFINE all == store[t][k] \cup {Record(i) : i \in (sent \ broken) \cap Hits(t, k)}
    <3>1. store'[t][k] = Newest(all) BY <2>2 DEF Send, Stored
    <3>2. \A x \in all : x.ts \in Int /\ x.ts <= now
      <4>1. \A i \in (sent \ broken) \cap Hits(t, k) : Record(i).ts \in Int /\ Record(i).ts <= now
        BY <1>1, Typed DEF Hits, Record
      <4> QED BY <4>1, Typed DEF StampsInv
    <3> HIDE DEF all
    <3> QED BY <1>2, <3>1, <3>2 DEF Newest
  <2> QED BY <2>1, <2>2
<1> QED BY <1>2

\* The file system keeps what it had of a key that was not sent.
LEMMA NotSent ==
  ASSUME RInv, NEW sent \in SUBSET Modified, NEW broken, Send(sent, broken),
         NEW t \in Tables, NEW k \in Keys, (sent \ broken) \cap Hits(t, k) = {}
  PROVE  store'[t][k] = store[t][k]
<1> USE DEF RInv, Answering
<1>1. CASE t \notin fsTables BY <1>1 DEF Send
<1>2. CASE t \in fsTables
  <2>1. store'[t][k] = Newest(store[t][k]) BY <1>2 DEF Send, Stored
  <2>2. \A r, q \in store[t][k] : q.ts <= r.ts BY Typed DEF StampsInv
  <2> QED BY <2>1, <2>2 DEF Newest
<1> QED BY <1>1, <1>2

\* A page that was sent is in the file system, or the key is excepted.
LEMMA SentPage ==
  ASSUME RInv, ~confused, NEW sent \in SUBSET Modified, NEW broken, Send(sent, broken),
         NEW i \in DOMAIN pages, NEW p,
         p.table = pages[i].table, p.frame_num = pages[i].frame_num,
         p.isModified = (pages[i].isModified /\ i \notin sent)
  PROVE  PageOK(p, store', Excuses(sent, broken))
<1> USE DEF RInv, Answering
<1> DEFINE c == frames[p.frame_num]
           t == p.table
           k == c.key
           told == Excuses(sent, broken)
<1>0. PageOK(pages[i], store, expected) /\ PagesOK BY DEF ToldInv, IInv
<1>1. t \in Tables /\ k \in Keys /\ c.ts \in Int BY Typed
<1>2. Hits(t, k) = {i} BY <1>0, TheHit
<1>3. told[t][k] = IF Unstored(t, k, sent, broken) THEN Garbage ELSE expected[t][k]
  BY <1>1 DEF Excuses
<1>4. Unstored(t, k, sent, broken) <=> IF t \in fsTables THEN i \in broken ELSE i \in sent
  BY <1>2 DEF Unstored
<1>5. /\ \A r \in store[t][k] : r.ts <= c.ts
      /\ expected[t][k] # Garbage =>
           /\ expected[t][k] = c.value
           /\ pages[i].isModified \/ \E r \in store[t][k] : r.value = c.value
  BY <1>0 DEF PageOK
<1>6. CASE t \in fsTables /\ i \in sent \ broken
  <2>1. store'[t][k] = Newest(store[t][k] \cup {Record(i)})
    <3>1. store'[t][k] = Newest(store[t][k] \cup {Record(j) : j \in (sent \ broken) \cap Hits(t, k)})
      BY <1>1, <1>6 DEF Send, Stored
    <3>2. {Record(j) : j \in (sent \ broken) \cap Hits(t, k)} = {Record(i)} BY <1>2, <1>6
    <3> QED BY <3>1, <3>2
  <2>2. Record(i).ts = c.ts /\ Record(i).value = c.value BY DEF Record
  <2>3. Record(i) \in store'[t][k]
    <3>1. ASSUME NEW q \in store[t][k] \cup {Record(i)} PROVE q.ts <= Record(i).ts
      <4>1. CASE q \in store[t][k] BY <1>5, <2>2, <4>1
      <4>2. CASE q = Record(i) BY <1>1, <2>2, <4>2
      <4> QED BY <3>1, <4>1, <4>2
    <3> HIDE DEF c
    <3> QED BY <2>1, <3>1 DEF Newest
  <2>4. \A r \in store'[t][k] : r.ts <= c.ts BY <1>1, <1>5, <2>1, <2>2 DEF Newest
  <2>5. told[t][k] # Garbage => told[t][k] = c.value BY <1>3, <1>5
  <2> HIDE DEF t, k, c, told
  <2> QED BY <2>2, <2>3, <2>4, <2>5 DEF PageOK, t, k, c, told
<1>7. CASE ~(t \in fsTables /\ i \in sent \ broken)
  <2>1. store'[t][k] = store[t][k]
    <3>1. CASE t \in fsTables BY <1>1, <1>2, <1>7, <3>1, NotSent
    <3>2. CASE t \notin fsTables BY <1>1, <3>2 DEF Send
    <3> QED BY <3>1, <3>2
  <2>2. told[t][k] # Garbage => told[t][k] = expected[t][k] /\ i \notin sent
    BY <1>3, <1>4, <1>7
  <2>3. told[t][k] # Garbage =>
          told[t][k] = c.value /\ (p.isModified \/ \E r \in store'[t][k] : r.value = c.value)
    <3> HIDE DEF t, k, c, told
    <3> QED BY <1>5, <2>1, <2>2
  <2> HIDE DEF t, k, c, told
  <2> QED BY <1>5, <2>1, <2>3 DEF PageOK, t, k, c, told
<1> QED BY <1>6, <1>7

\* A key without a page is not sent.
LEMMA SentMiss ==
  ASSUME RInv, ~confused, NEW sent \in SUBSET Modified, NEW broken, Send(sent, broken),
         NEW t \in Tables, NEW k \in Keys, Hits(t, k) = {}
  PROVE  MissOK(t, k, store', Excuses(sent, broken))
<1>1. store'[t][k] = store[t][k] BY NotSent
<1>2. Excuses(sent, broken)[t][k] = expected[t][k] BY DEF Excuses, Unstored
<1>3. MissOK(t, k, store, expected) BY DEF RInv, Answering, ToldInv
<1> QED BY <1>1, <1>2, <1>3 DEF MissOK

-----------------------------------------------------------------------------
(* A load.                                                                 *)

\* The pages and the file system serve every key but (t, k), which has no page.
Served(t, k, pgs, bits, st, told) ==
  /\ \A n \in DOMAIN pgs : /\ PageOK(pgs[n], st, told)
                           /\ pgs[n].frame_num \in bits
                           /\ frames[pgs[n].frame_num].key \in Keys
                           /\ pgs[n].table = t => frames[pgs[n].frame_num].key # k
  /\ \A u \in Tables, l \in Keys :
       \/ \E n \in DOMAIN pgs : pgs[n].table = u /\ frames[pgs[n].frame_num].key = l
       \/ MissOK(u, l, st, told)

\* What the memory answers after a load into pages that were in order; told is
\* what the clients knew before it.
LEMMA LoadTold ==
  ASSUME TypeOK, NEW t \in Tables, NEW k \in Keys, NEW v \in Known, NEW modified \in BOOLEAN,
         NEW pgs \in Seq(Page), NEW bits \in SUBSET Frames, Load(t, k, v, modified, pgs, bits),
         NEW told \in [Tables -> [Keys -> Known \cup {NoValue, Garbage}]],
         expected' = [told EXCEPT ![t][k] = v],
         Served(t, k, pgs, bits, store', told),
         modified \/ \E r \in store'[t][k] : r.value = v,
         \A r \in store'[t][k] : r.ts <= now
  PROVE  ToldInv'
<1>1. PICK f \in Frames \ bits, p \in Page :
           /\ p.table = t /\ p.frame_num = f /\ p.isModified = modified
           /\ pages' = Append(pgs, p)
           /\ bitmap' = bits \cup {f}
           /\ frames' = [frames EXCEPT ![f] = [key |-> k, ts |-> now, value |-> v]]
  BY LoadFacts
<1> DEFINE last == Len(pgs) + 1
<1>2. /\ DOMAIN pages' = DOMAIN pgs \cup {last} /\ last \notin DOMAIN pgs
      /\ pages'[last] = p
      /\ \A i \in DOMAIN pgs : pages'[i] = pgs[i] /\ pgs[i] \in Page
  BY <1>1, AppendFacts
<1> HIDE DEF last
<1>3. frames'[f] = [key |-> k, ts |-> now, value |-> v] BY <1>1 DEF TypeOK
<1> USE DEF Served
<1>4. \A g \in bits : frames'[g] = frames[g] BY <1>1 DEF TypeOK
<1>5. \A u \in Tables, l \in Keys : expected'[u][l] = IF u = t /\ l = k THEN v ELSE told[u][l]
  OBVIOUS
<1>6. ASSUME NEW i \in DOMAIN pgs PROVE PageOK(pages[i], store, expected)'
  <2>1. /\ pages'[i] = pgs[i] /\ pgs[i].table \in Tables
        /\ frames'[pgs[i].frame_num] = frames[pgs[i].frame_num]
    BY <1>2, <1>4, <1>6 DEF Page
  <2>2. expected'[pgs[i].table][frames[pgs[i].frame_num].key]
          = told[pgs[i].table][frames[pgs[i].frame_num].key]
    BY <1>5, <1>6, <2>1
  <2>3. PageOK(pgs[i], store', told) BY <1>6
  <2> QED BY <2>1, <2>2, <2>3 DEF PageOK
<1>7. PageOK(pages[last], store, expected)'
  <2>1. pages'[last].table = t /\ pages'[last].isModified = modified
        /\ frames'[pages'[last].frame_num] = [key |-> k, ts |-> now, value |-> v]
    BY <1>1, <1>2, <1>3
  <2>2. expected'[t][k] = v BY <1>5
  <2> QED BY <2>1, <2>2 DEF PageOK
<1>8. ASSUME NEW u \in Tables, NEW l \in Keys, Hits(u, l)' = {}
      PROVE  MissOK(u, l, store, expected)'
  <2>1. ~(u = t /\ l = k)
    <3>1. last \in DOMAIN pages' /\ pages'[last].table = t /\ frames'[pages'[last].frame_num].key = k
      BY <1>1, <1>2, <1>3
    <3> QED BY <1>8, <3>1 DEF Hits
  <2>2. \A n \in DOMAIN pgs : ~(pgs[n].table = u /\ frames[pgs[n].frame_num].key = l)
    BY <1>2, <1>4, <1>8 DEF Hits
  <2>3. MissOK(u, l, store', told) BY <2>2
  <2>4. expected'[u][l] = told[u][l] BY <1>5, <2>1
  <2> QED BY <2>3, <2>4 DEF MissOK
<1> QED BY <1>2, <1>6, <1>7, <1>8 DEF ToldInv

-----------------------------------------------------------------------------
(* The SELECTs that hit.                                                   *)

\* Every SELECT goes on as it was, with perhaps more to answer.
Grown ==
  \A c \in Clients :
    /\ reading'[c].pc = reading[c].pc
    /\ reading[c].pc # "idle" => /\ reading'[c].table = reading[c].table
                                 /\ reading'[c].key = reading[c].key
                                 /\ reading'[c].overtaken = reading[c].overtaken
                                 /\ reading'[c].first = reading[c].first
                                 /\ reading[c].want \subseteq reading'[c].want

LEMMA ReadTyped ==
  ASSUME IInv, NEW c \in Clients, reading[c].pc # "idle"
  PROVE  reading[c] \in Read
BY DEF IInv, Types, TypeOK, Idle

LEMMA OfferGrows ==
  ASSUME IInv, NEW t \in Tables, NEW k, NEW v, Offer(t, k, v) \/ UNCHANGED reading
  PROVE  Grown
<1>1. CASE Offer(t, k, v)
  <2> SUFFICES ASSUME NEW c \in Clients, Follows(c, t) /\ reading[c].key = k,
                      reading'[c] = [reading[c] EXCEPT !.want = @ \cup {v}]
               PROVE  /\ reading'[c].pc = reading[c].pc
                      /\ reading'[c].table = reading[c].table
                      /\ reading'[c].key = reading[c].key
                      /\ reading'[c].overtaken = reading[c].overtaken
                      /\ reading'[c].first = reading[c].first
                      /\ reading[c].want \subseteq reading'[c].want
    BY <1>1 DEF Offer, Grown
  <2>1. reading[c] \in Read BY ReadTyped DEF Follows
  <2> QED BY <2>1 DEF Read
<1>2. CASE UNCHANGED reading BY <1>2 DEF Grown
<1> QED BY <1>1, <1>2

LEMMA GrownCopied == ASSUME CopiedInv, Grown PROVE CopiedInv'
BY DEF CopiedInv, Grown

\* Pages go, or lose their mark; those that stay keep frame and content.
LEMMA HeldStay ==
  ASSUME HeldInv, Grown,
         \A n \in DOMAIN pages' :
           \/ pages'[n].heldBy = {}
           \/ \E i \in DOMAIN pages :
                /\ pages'[n].heldBy = pages[i].heldBy /\ pages'[n].table = pages[i].table
                /\ frames'[pages'[n].frame_num] = frames[pages[i].frame_num]
  PROVE  HeldInv'
<1> SUFFICES ASSUME NEW n \in DOMAIN pages', NEW c \in Clients, c \in pages'[n].heldBy
             PROVE  /\ reading'[c].pc = "found"
                    /\ reading'[c].table = pages'[n].table
                    /\ reading'[c].key = frames'[pages'[n].frame_num].key
                    /\ ~reading'[c].overtaken =>
                         frames'[pages'[n].frame_num].value \in reading'[c].want
  BY DEF HeldInv
<1>1. PICK i \in DOMAIN pages :
        /\ pages'[n].heldBy = pages[i].heldBy /\ pages'[n].table = pages[i].table
        /\ frames'[pages'[n].frame_num] = frames[pages[i].frame_num]
  OBVIOUS
<1>2. /\ reading[c].pc = "found"
      /\ reading[c].table = pages[i].table
      /\ reading[c].key = frames[pages[i].frame_num].key
      /\ ~reading[c].overtaken => frames[pages[i].frame_num].value \in reading[c].want
  BY <1>1 DEF HeldInv
<1> QED BY <1>1, <1>2 DEF Grown

\* The pages of the list are pages there are, in the frames of bits.
LeftOf(pgs, bits) ==
  \A n \in DOMAIN pgs : pgs[n].frame_num \in bits /\ \E i \in DOMAIN pages : pgs[n] = pages[i]

\* A load leaves the content of the other frames, and its own page without pointers.
LEMMA LoadHeld ==
  ASSUME TypeOK, NEW t \in Tables, NEW k \in Keys, NEW v \in Known, NEW modified \in BOOLEAN,
         NEW pgs \in Seq(Page), NEW bits \in SUBSET Frames, Load(t, k, v, modified, pgs, bits),
         HeldInv, Grown, LeftOf(pgs, bits)
  PROVE  HeldInv'
<1>1. PICK f \in Frames \ bits, p \in Page :
           /\ p.table = t /\ p.frame_num = f /\ p.heldBy = {}
           /\ pages' = Append(pgs, p)
           /\ bitmap' = bits \cup {f}
           /\ frames' = [frames EXCEPT ![f] = [key |-> k, ts |-> now, value |-> v]]
  BY LoadFacts
<1>2. \A g \in bits : frames'[g] = frames[g] BY <1>1 DEF TypeOK
<1>3. \A n \in DOMAIN pages' :
        \/ pages'[n].heldBy = {}
        \/ n \in DOMAIN pgs /\ pages'[n] = pgs[n]
  BY <1>1, AppendFacts
<1>4. \A n \in DOMAIN pages' :
        \/ pages'[n].heldBy = {}
        \/ \E i \in DOMAIN pages :
             /\ pages'[n].heldBy = pages[i].heldBy /\ pages'[n].table = pages[i].table
             /\ frames'[pages'[n].frame_num] = frames[pages[i].frame_num]
  BY <1>2, <1>3 DEF LeftOf
<1> QED BY <1>4, HeldStay

\* The content of a frame that is loaded is not of the future.
LEMMA LoadStamps ==
  ASSUME IInv, StampsInv, NEW t \in Tables, NEW k \in Keys, NEW v \in Known,
         NEW modified \in BOOLEAN, NEW pgs \in Seq(Page), NEW bits \in SUBSET Frames,
         Load(t, k, v, modified, pgs, bits)
  PROVE  \A g \in Frames : frames'[g].ts <= now
<1>1. PICK f \in Frames :
        frames' = [frames EXCEPT ![f] = [key |-> k, ts |-> now, value |-> v]]
  BY DEF Load
<1> QED BY <1>1, Typed DEF StampsInv, IInv, Types, TypeOK

-----------------------------------------------------------------------------
(* Each step keeps the invariant.                                          *)

\* A key without a page gets one: in a cache with a free frame, or in place of a
\* clean page, for whose key the file system answers.
LEMMA LoadingReads ==
  ASSUME RInv, NEW t \in Tables, NEW k \in Keys, NEW v \in Known, NEW modified \in BOOLEAN,
         Hits(t, k) = {},
         \/ Load(t, k, v, modified, pages, bitmap) /\ UNCHANGED confused
         \/ Replace(t, k, v, modified),
         modified \/ \E r \in store[t][k] : r.value = v,
         Became(t, k, v), UNCHANGED <<now, fs>>, Offer(t, k, v) \/ UNCHANGED reading
  PROVE  Answering'
<1> USE DEF RInv, Answering
<1>0. /\ pages \in Seq(Page) /\ bitmap \in SUBSET Frames /\ TypeOK
      /\ expected \in [Tables -> [Keys -> Known \cup {NoValue, Garbage}]]
      /\ store' = store /\ now' = now
  BY DEF IInv, Types, TypeOK, fs
<1>1. Grown BY OfferGrows
<1>2. /\ \A r \in store'[t][k] : r.ts <= now
      /\ modified \/ \E r \in store'[t][k] : r.value = v
  BY <1>0 DEF StampsInv
<1>3. expected' = [expected EXCEPT ![t][k] = v] BY DEF Became
<1>4. CASE Load(t, k, v, modified, pages, bitmap) /\ UNCHANGED confused
  <2>1. StampsInv'
    <3>1. \A g \in Frames : frames'[g].ts <= now BY <1>0, <1>4, LoadStamps
    <3> QED BY <1>0, <3>1 DEF StampsInv
  <2>2. ASSUME ~confused PROVE ToldInv' /\ HeldInv' /\ CopiedInv'
    <3>1. PagesOK /\ ToldInv BY <2>2 DEF IInv
    <3>2. \A n \in DOMAIN pages : /\ PageOK(pages[n], store', expected)
                                  /\ pages[n].frame_num \in bitmap
                                  /\ frames[pages[n].frame_num].key \in Keys
                                  /\ pages[n].table = t => frames[pages[n].frame_num].key # k
      BY <1>0, <3>1, Typed DEF ToldInv, PagesOK, FramesOK, Hits
    <3>3. ASSUME NEW u \in Tables, NEW l \in Keys
          PROVE  \/ \E n \in DOMAIN pages : pages[n].table = u /\ frames[pages[n].frame_num].key = l
                 \/ MissOK(u, l, store', expected)
      <4>1. CASE Hits(u, l) = {} BY <1>0, <3>1, <4>1 DEF ToldInv
      <4>2. CASE Hits(u, l) # {} BY <4>2 DEF Hits
      <4> QED BY <4>1, <4>2
    <3>4. ToldInv'
      <4>1. Served(t, k, pages, bitmap, store', expected) BY <3>2, <3>3 DEF Served
      <4> QED BY <1>0, <1>2, <1>3, <1>4, <4>1, LoadTold
    <3>5. HeldInv'
      <4>1. LeftOf(pages, bitmap) BY <3>2 DEF LeftOf
      <4> QED BY <1>0, <1>1, <1>4, <2>2, <4>1, LoadHeld
    <3> QED BY <1>1, <2>2, <3>4, <3>5, GrownCopied
  <2> QED BY <1>4, <2>1, <2>2
<1>5. CASE Replace(t, k, v, modified)
  <2>1. PICK i \in DOMAIN pages, j \in DOMAIN pages :
          /\ IsVictim(i)
          /\ confused' = (confused \/ i # j)
          /\ Load(t, k, v, modified, RemoveAt(pages, j), bitmap \ {pages[i].frame_num})
    BY <1>5 DEF Replace
  <2> DEFINE pgs == RemoveAt(pages, j)
             bits == bitmap \ {pages[i].frame_num}
  <2>2. /\ pgs \in Seq(Page) /\ DOMAIN pgs = 1 .. Len(pages) - 1
        /\ \A n \in DOMAIN pgs : pgs[n] = IF n < j THEN pages[n] ELSE pages[n + 1]
    BY <1>0, RemoveAtFacts
  <2>3. bits \in SUBSET Frames BY <1>0
  <2>4. \A n \in DOMAIN pgs : \E m \in DOMAIN pages : pgs[n] = pages[m]
    <3>1. \A n \in DOMAIN pgs : n \in DOMAIN pages /\ n + 1 \in DOMAIN pages BY <2>2, <1>0
    <3> QED BY <2>2, <3>1
  <2>5. \A m \in DOMAIN pages : m # j => \E n \in DOMAIN pgs : pgs[n] = pages[m]
    BY <1>0, RemoveAtKeeps
  <2>6. Load(t, k, v, modified, pgs, bits) BY <2>1
  <2>7. ~confused' => ~confused /\ FramesOK(pgs, bits)
    BY <2>1, RemovalKeepsPages DEF IInv
  <2>8. ~confused' => i = j BY <2>1
  <2> HIDE DEF pgs, bits
  <2>9. StampsInv' BY <1>0, <2>2, <2>3, <2>6, LoadStamps DEF StampsInv
  <2>10. ASSUME ~confused' PROVE ToldInv' /\ HeldInv' /\ CopiedInv'
    <3>1. ~confused /\ PagesOK /\ ToldInv BY <2>7, <2>10 DEF IInv
    <3>2. \A n \in DOMAIN pgs : /\ PageOK(pgs[n], store', expected)
                                /\ pgs[n].frame_num \in bits
                                /\ frames[pgs[n].frame_num].key \in Keys
                                /\ pgs[n].table = t => frames[pgs[n].frame_num].key # k
      <4>1. \A m \in DOMAIN pages : /\ PageOK(pages[m], store', expected)
                                    /\ frames[pages[m].frame_num].key \in Keys
                                    /\ pages[m].table = t => frames[pages[m].frame_num].key # k
        BY <1>0, <3>1, Typed DEF ToldInv, Hits
      <4>2. \A n \in DOMAIN pgs : pgs[n].frame_num \in bits BY <2>7, <2>10 DEF FramesOK
      <4> QED BY <2>4, <4>1, <4>2
    <3>3. MissOK(pages[i].table, frames[pages[i].frame_num].key, store, expected)
      <4>1. ~pages[i].isModified BY <2>1 DEF IsVictim, Evictable
      <4> QED BY <3>1, <4>1, MissFromClean DEF ToldInv
    <3>4. ASSUME NEW u \in Tables, NEW l \in Keys,
                 \A n \in DOMAIN pgs : ~(pgs[n].table = u /\ frames[pgs[n].frame_num].key = l)
          PROVE  MissOK(u, l, store', expected)
      <4>1. CASE Hits(u, l) = {} BY <1>0, <3>1, <4>1 DEF ToldInv
      <4>2. ASSUME NEW m \in Hits(u, l) PROVE MissOK(u, l, store', expected)
        <5>1. m \in DOMAIN pages /\ pages[m].table = u /\ frames[pages[m].frame_num].key = l
          BY DEF Hits
        <5>2. m = i BY <5>1, <2>5, <2>8, <2>10, <3>4
        <5> QED BY <1>0, <3>3, <5>1, <5>2
      <4> QED BY <4>1, <4>2
    <3>5. ToldInv'
      <4>1. Served(t, k, pgs, bits, store', expected) BY <3>2, <3>4 DEF Served
      <4> QED BY <1>0, <1>2, <1>3, <2>2, <2>3, <2>6, <4>1, LoadTold
    <3>6. HeldInv'
      <4>1. LeftOf(pgs, bits) BY <2>4, <3>2 DEF LeftOf
      <4> QED BY <1>0, <1>1, <2>2, <2>3, <2>6, <3>1, <4>1, LoadHeld
    <3> QED BY <1>1, <3>1, <3>5, <3>6, GrownCopied
  <2> QED BY <2>9, <2>10
<1> QED BY <1>4, <1>5

\* After a complete journal the file system answers for every key.
LEMMA AllSent ==
  ASSUME RInv, ~confused, NEW broken, Send(Modified, broken), NEW t \in Tables, NEW k \in Keys
  PROVE  MissOK(t, k, store', Excuses(Modified, broken))
<1>1. CASE Hits(t, k) = {} BY <1>1, SentMiss
<1>2. ASSUME NEW i \in Hits(t, k) PROVE MissOK(t, k, store', Excuses(Modified, broken))
  <2> DEFINE p == [pages[i] EXCEPT !.isModified = FALSE]
  <2>1. i \in DOMAIN pages /\ pages[i].table = t /\ frames[pages[i].frame_num].key = k
    BY DEF Hits
  <2>2. pages[i] \in Page BY <2>1 DEF RInv, IInv, Types, TypeOK
  <2>3. p.table = pages[i].table /\ p.frame_num = pages[i].frame_num /\ p.isModified = FALSE
    BY <2>2 DEF Page
  <2>4. p.isModified = (pages[i].isModified /\ i \notin Modified)
    BY <2>1, <2>2, <2>3 DEF Modified, Page
  <2> HIDE DEF p
  <2>5. PageOK(p, store', Excuses(Modified, broken)) BY <2>1, <2>3, <2>4, SentPage
  <2>6. MissOK(p.table, frames[p.frame_num].key, store', Excuses(Modified, broken))
    BY <2>3, <2>5, MissFromClean
  <2> QED BY <2>1, <2>3, <2>6
<1> QED BY <1>1, <1>2

\* A key gets a page in the cache a journal has emptied.
LEMMA LoadingEmptiedReads ==
  ASSUME RInv, NEW t \in Tables, NEW k \in Keys, NEW v \in Known, NEW modified \in BOOLEAN,
         NEW broken, JournalEmpties(broken), Load(t, k, v, modified, <<>>, {}),
         Hits(t, k) = {}, modified \/ \E r \in store[t][k] : r.value = v,
         expected' = [Excuses(Modified, broken) EXCEPT ![t][k] = v],
         Offer(t, k, v) \/ UNCHANGED reading, UNCHANGED <<now, confused>>
  PROVE  Answering'
<1> USE DEF RInv, Answering
<1> DEFINE told == Excuses(Modified, broken)
<1>0. /\ TypeOK /\ Send(Modified, broken) /\ Modified \in SUBSET Modified /\ now' = now
      /\ told \in [Tables -> [Keys -> Known \cup {NoValue, Garbage}]]
  BY ExcusesTypes DEF IInv, Types, JournalEmpties
<1>1. Grown BY OfferGrows
<1>2. /\ \A u \in Tables, l \in Keys : \A r, q \in store'[u][l] : r.ts <= now /\ r.ts = q.ts
      /\ store'[t][k] = store[t][k]
  BY <1>0, SendStamps, NotSent
<1> HIDE DEF told
<1>3. \E none \in Seq(Page), unmarked \in SUBSET Frames : none = <<>> /\ unmarked = {}
  <2>1. <<>> \in Seq(Page) /\ {} \in SUBSET Frames OBVIOUS
  <2> WITNESS <<>> \in Seq(Page), {} \in SUBSET Frames
  <2> QED OBVIOUS
<1>4. PICK none \in Seq(Page), unmarked \in SUBSET Frames : none = <<>> /\ unmarked = {}
  BY <1>3
<1>5. Load(t, k, v, modified, none, unmarked) /\ DOMAIN none = {} BY <1>4
<1>6. StampsInv'
  <2>1. \A g \in Frames : frames'[g].ts <= now BY <1>5, LoadStamps
  <2> QED BY <1>0, <1>2, <2>1 DEF StampsInv
<1>7. ASSUME ~confused PROVE ToldInv'
  <2>1. \A u \in Tables, l \in Keys : MissOK(u, l, store', told) BY <1>0, <1>7, AllSent DEF told
  <2>2. Served(t, k, none, unmarked, store', told) BY <1>5, <2>1 DEF Served
  <2>3. modified \/ \E r \in store'[t][k] : r.value = v BY <1>2
  <2>4. expected' = [told EXCEPT ![t][k] = v] BY DEF told
  <2>5. \A r \in store'[t][k] : r.ts <= now BY <1>2
  <2> HIDE DEF RInv, Answering
  <2> QED BY <1>0, <1>5, <2>2, <2>3, <2>4, <2>5, LoadTold
<1>8. ASSUME ~confused PROVE HeldInv'
  <2>1. LeftOf(none, unmarked) BY <1>5 DEF LeftOf
  <2>2. HeldInv BY <1>8
  <2> HIDE DEF RInv, Answering
  <2> QED BY <1>0, <1>1, <1>5, <2>1, <2>2, LoadHeld
<1>9. ASSUME ~confused PROVE CopiedInv' BY <1>1, <1>9, GrownCopied
<1> QED BY <1>6, <1>7, <1>8, <1>9

\* A page could not be sent.
LEMMA JournalFailsReads ==
  ASSUME RInv, NEW broken, JournalFails(broken), UNCHANGED now
  PROVE  Answering'
<1> USE DEF RInv, Answering
<1>1. PICK sent \in SUBSET Modified :
        /\ Send(sent, broken)
        /\ pages' = [i \in DOMAIN pages |->
                       IF i \in sent THEN [pages[i] EXCEPT !.isModified = FALSE] ELSE pages[i]]
        /\ expected' = Excuses(sent, broken)
        /\ UNCHANGED <<frames, bitmap, confused, reading>>
  BY DEF JournalFails
<1>2. /\ DOMAIN pages' = DOMAIN pages
      /\ \A i \in DOMAIN pages :
           /\ pages'[i].table = pages[i].table /\ pages'[i].frame_num = pages[i].frame_num
           /\ pages'[i].heldBy = pages[i].heldBy
           /\ pages'[i].isModified = (pages[i].isModified /\ i \notin sent)
  <2>1. \A i \in DOMAIN pages : pages[i] \in Page BY DEF IInv, Types, TypeOK
  <2> QED BY <1>1, <2>1 DEF Page
<1>3. StampsInv' BY <1>1, SendStamps DEF StampsInv
<1>4. ASSUME ~confused PROVE ToldInv'
  <2>1. ASSUME NEW i \in DOMAIN pages PROVE PageOK(pages[i], store, expected)'
    <3>1. PageOK(pages'[i], store', Excuses(sent, broken)) BY <1>1, <1>2, <1>4, SentPage
    <3> QED BY <1>1, <3>1 DEF PageOK
  <2>2. ASSUME NEW t \in Tables, NEW k \in Keys, Hits(t, k)' = {}
        PROVE  MissOK(t, k, store, expected)'
    <3>1. Hits(t, k) = {} BY <1>1, <1>2, <2>2 DEF Hits
    <3>2. MissOK(t, k, store', Excuses(sent, broken)) BY <1>1, <1>4, <3>1, SentMiss
    <3> QED BY <1>1, <3>2 DEF MissOK
  <2> QED BY <1>2, <2>1, <2>2 DEF ToldInv
<1>5. Grown BY <1>1 DEF Grown
<1>6. ASSUME ~confused PROVE HeldInv' BY <1>1, <1>2, <1>5, <1>6, HeldStay
<1>7. ASSUME ~confused PROVE CopiedInv' BY <1>5, <1>7, GrownCopied
<1> QED BY <1>1, <1>3, <1>4, <1>6, <1>7

LEMMA JournalReads ==
  ASSUME RInv, NEW broken, Journal(broken)
  PROVE  Answering'
<1> USE DEF RInv, Answering
<1>1. CASE JournalFails(broken) BY <1>1, JournalFailsReads DEF Journal
<1>2. CASE ~JournalFails(broken)
  <2>1. /\ Send(Modified, broken) /\ pages' = <<>> /\ expected' = Excuses(Modified, broken)
        /\ UNCHANGED <<frames, confused, reading, now>>
    BY <1>2 DEF Journal, JournalEmpties
  <2>2. DOMAIN pages' = {} BY <2>1
  <2>3. StampsInv' BY <2>1, SendStamps DEF StampsInv
  <2>4. ASSUME ~confused PROVE ToldInv'
    <3>1. \A t \in Tables, k \in Keys : MissOK(t, k, store', Excuses(Modified, broken))
      BY <2>1, <2>4, AllSent
    <3>2. \A t \in Tables, k \in Keys : MissOK(t, k, store, expected)'
      BY <2>1, <3>1 DEF MissOK
    <3> QED BY <2>2, <3>2 DEF ToldInv
  <2>5. HeldInv' BY <2>2 DEF HeldInv
  <2>6. CopiedInv => CopiedInv' BY <2>1 DEF CopiedInv
  <2> QED BY <2>1, <2>3, <2>4, <2>5, <2>6
<1> QED BY <1>1, <1>2

\* The key has a page, which is rewritten: who is reading it may answer the new value.
LEMMA InsertHitReads ==
  ASSUME RInv, NEW t \in Tables, NEW k \in Keys, NEW v \in Values, InsertHit(t, k, v)
  PROVE  Answering'
<1> USE DEF RInv, Answering
<1>0. /\ pages \in Seq(Page) /\ frames \in [Frames -> Frame] /\ v \in Known
      /\ expected \in [Tables -> [Keys -> Known \cup {NoValue, Garbage}]]
  BY DEF IInv, Types, TypeOK, Known
<1>1. PICK i \in DOMAIN pages :
    /\ IsHit(i, t, k)
    /\ frames' = [frames EXCEPT ![pages[i].frame_num].ts = now,
                                ![pages[i].frame_num].value = v]
    /\ pages' = [pages EXCEPT ![i].isModified = TRUE, ![i].last_time_used = now]
    /\ Became(t, k, v)
    /\ Offer(t, k, v)
    /\ UNCHANGED <<segments, bitmap, now, fs, confused>>
  BY DEF InsertHit
<1> DEFINE f == pages[i].frame_num
<1>2. /\ i \in Hits(t, k) /\ pages[i].table = t /\ frames[f].key = k /\ f \in Frames
  BY <1>1, Typed DEF IsHit, Hits
<1>3. \A j \in DOMAIN pages : pages[j] \in Page BY <1>0
<1>4. /\ DOMAIN pages' = DOMAIN pages
      /\ \A j \in DOMAIN pages : /\ pages'[j].table = pages[j].table
                                 /\ pages'[j].frame_num = pages[j].frame_num
                                 /\ pages'[j].heldBy = pages[j].heldBy
                                 /\ j # i => pages'[j] = pages[j]
      /\ pages'[i].isModified = TRUE
  BY <1>1, <1>3 DEF Page
<1>5. /\ frames'[f].key = k /\ frames'[f].ts = now /\ frames'[f].value = v
      /\ \A g \in Frames : g # f => frames'[g] = frames[g]
  <2>1. frames[f] \in Frame BY <1>0, <1>2
  <2> HIDE DEF f
  <2>2. frames' = [frames EXCEPT ![f] = [frames[f] EXCEPT !.ts = now, !.value = v]]
    BY <1>1 DEF f
  <2> QED BY <1>0, <1>2, <2>1, <2>2 DEF Frame, f
<1>6. \A u \in Tables, l \in Keys : expected'[u][l] = IF u = t /\ l = k THEN v ELSE expected[u][l]
  BY <1>0, <1>1 DEF Became
<1>7. StampsInv'
  <2>1. now' = now /\ store' = store /\ now <= now BY <1>1, Typed DEF fs
  <2> QED BY <1>5, <2>1 DEF StampsInv
<1>8. Grown BY <1>1, OfferGrows
<1> HIDE DEF f
<1>9. ASSUME ~confused PROVE ToldInv' /\ HeldInv'
  <2>1. PagesOK /\ ToldInv /\ HeldInv BY <1>9 DEF IInv
  <2>2. ASSUME NEW j \in DOMAIN pages, j # i
        PROVE  /\ frames'[pages[j].frame_num] = frames[pages[j].frame_num]
               /\ ~(pages[j].table = t /\ frames[pages[j].frame_num].key = k)
    <3>1. pages[j].frame_num # f /\ pages[j].frame_num \in Frames
      BY <2>1, <2>2, Typed DEF PagesOK, FramesOK, f
    <3>2. ~(pages[j].table = t /\ frames[pages[j].frame_num].key = k)
      BY <1>2, <2>1, <2>2 DEF PagesOK, KeysOK, f
    <3> QED BY <1>5, <3>1, <3>2
  <2>3. PageOK(pages[i], store, expected)'
    <3>1. \A r \in store'[t][k] : r.ts <= now BY <1>1 DEF StampsInv, fs
    <3> QED BY <1>2, <1>4, <1>5, <1>6, <3>1 DEF PageOK, f
  <2>4. ASSUME NEW j \in DOMAIN pages, j # i PROVE PageOK(pages[j], store, expected)'
    <3>1. PageOK(pages[j], store, expected) BY <2>1 DEF ToldInv
    <3>2. pages[j].table \in Tables /\ frames[pages[j].frame_num].key \in Keys BY Typed
    <3>3. expected'[pages[j].table][frames[pages[j].frame_num].key]
            = expected[pages[j].table][frames[pages[j].frame_num].key]
      BY <1>6, <2>2, <2>4, <3>2
    <3>4. store' = store /\ pages'[j] = pages[j] BY <1>1, <1>4, <2>4 DEF fs
    <3> QED BY <2>2, <2>4, <3>1, <3>3, <3>4 DEF PageOK
  <2>5. ASSUME NEW u \in Tables, NEW l \in Keys, Hits(u, l)' = {}
        PROVE  MissOK(u, l, store, expected)'
    <3>1. ~(u = t /\ l = k) BY <1>2, <1>4, <1>5, <2>5 DEF Hits, f
    <3>2. Hits(u, l) = {}
      <4> SUFFICES ASSUME NEW j \in Hits(u, l) PROVE FALSE OBVIOUS
      <4>1. j \in DOMAIN pages /\ pages[j].table = u /\ frames[pages[j].frame_num].key = l
        BY DEF Hits
      <4>2. j # i BY <1>2, <3>1, <4>1 DEF f
      <4>3. j \in Hits(u, l)' BY <1>4, <2>2, <4>1, <4>2 DEF Hits
      <4> QED BY <2>5, <4>3
    <3>3. MissOK(u, l, store, expected) BY <2>1, <3>2 DEF ToldInv
    <3> QED BY <1>1, <1>6, <3>1, <3>3 DEF MissOK, fs
  <2>6. ToldInv' BY <1>4, <2>3, <2>4, <2>5 DEF ToldInv
  <2>7. ASSUME NEW j \in DOMAIN pages, NEW c \in Clients, c \in pages[j].heldBy
        PROVE  /\ reading'[c].pc = "found"
               /\ reading'[c].table = pages'[j].table
               /\ reading'[c].key = frames'[pages'[j].frame_num].key
               /\ ~reading'[c].overtaken => frames'[pages'[j].frame_num].value \in reading'[c].want
    <3>1. /\ reading[c].pc = "found"
          /\ reading[c].table = pages[j].table
          /\ reading[c].key = frames[pages[j].frame_num].key
          /\ ~reading[c].overtaken => frames[pages[j].frame_num].value \in reading[c].want
      BY <2>1, <2>7 DEF HeldInv
    <3>2. CASE j # i BY <1>4, <1>8, <2>2, <3>1, <3>2 DEF Grown
    <3>3. CASE j = i
      <4>1. reading[c].table = t /\ reading[c].key = k BY <1>2, <3>1, <3>3 DEF f
      <4>2. ASSUME ~reading[c].overtaken PROVE v \in reading'[c].want
        <5>1. reading'[c] = [reading[c] EXCEPT !.want = @ \cup {v}]
          BY <1>1, <3>1, <4>1, <4>2 DEF Offer, Follows
        <5>2. reading[c] \in Read BY <3>1, ReadTyped
        <5> QED BY <5>1, <5>2 DEF Read
      <4> QED BY <1>2, <1>4, <1>5, <1>8, <3>1, <3>3, <4>1, <4>2 DEF Grown, f
    <3> QED BY <3>2, <3>3
  <2>8. HeldInv' BY <1>4, <2>7 DEF HeldInv
  <2> QED BY <2>6, <2>8
<1>10. ASSUME ~confused PROVE CopiedInv' BY <1>8, <1>10, GrownCopied
<1> QED BY <1>1, <1>7, <1>9, <1>10

\* Pages are used and let go of: what the memory answers is the same.
LEMMA SamePagesTold ==
  ASSUME DOMAIN pages' = DOMAIN pages,
         \A i \in DOMAIN pages : /\ pages'[i].table = pages[i].table
                                 /\ pages'[i].frame_num = pages[i].frame_num
                                 /\ pages'[i].isModified = pages[i].isModified,
         UNCHANGED <<frames, now, store, expected>>
  PROVE  (StampsInv => StampsInv') /\ (ToldInv => ToldInv')
<1>1. StampsInv => StampsInv' BY DEF StampsInv
<1>2. \A t, k : Hits(t, k)' = Hits(t, k) BY DEF Hits
<1>3. ASSUME ToldInv PROVE ToldInv'
  <2>1. \A i \in DOMAIN pages :
          PageOK(pages[i], store, expected) => PageOK(pages[i], store, expected)'
    BY DEF PageOK
  <2>2. \A t \in Tables, k \in Keys :
          MissOK(t, k, store, expected) => MissOK(t, k, store, expected)'
    BY DEF MissOK
  <2> QED BY <1>2, <1>3, <2>1, <2>2 DEF ToldInv
<1> QED BY <1>1, <1>3

\* The page found has the key, and its value is what the client may be told.
LEMMA SelectHitReads ==
  ASSUME RInv, NEW c \in Clients, NEW t \in Tables, NEW k \in Keys, SelectHit(c, t, k)
  PROVE  Answering'
<1> USE DEF RInv, Answering
<1>0. pages \in Seq(Page) /\ reading \in [Clients -> Read \cup {Idle}]
  BY DEF IInv, Types, TypeOK
<1>1. PICK i \in DOMAIN pages :
        /\ IsHit(i, t, k)
        /\ pages' = [pages EXCEPT ![i].last_time_used = now, ![i].heldBy = @ \cup {c}]
  BY DEF SelectHit
<1> DEFINE read == [pc |-> "found", table |-> t, key |-> k, frame |-> 0, first |-> NoValue,
                    want |-> {expected[t][k]}, overtaken |-> expected[t][k] = Garbage]
<1>2. /\ reading[c].pc = "idle" /\ reading' = [reading EXCEPT ![c] = read]
      /\ UNCHANGED <<segments, frames, bitmap, now, store, expected, confused>>
  BY DEF SelectHit, fs, history
<1>3. \A j \in DOMAIN pages : pages[j] \in Page BY <1>0
<1>4. /\ DOMAIN pages' = DOMAIN pages
      /\ \A j \in DOMAIN pages : /\ pages'[j].table = pages[j].table
                                 /\ pages'[j].frame_num = pages[j].frame_num
                                 /\ pages'[j].isModified = pages[j].isModified
                                 /\ pages'[j].heldBy \subseteq pages[j].heldBy \cup {c}
                                 /\ j # i => pages'[j].heldBy = pages[j].heldBy
  BY <1>1, <1>3 DEF Page
<1>5. reading'[c] = read /\ \A d \in Clients : d # c => reading'[d] = reading[d]
  BY <1>0, <1>2
<1>6. i \in DOMAIN pages /\ pages[i].table = t /\ frames[pages[i].frame_num].key = k
  BY <1>1 DEF IsHit, Hits
<1>7. StampsInv' /\ (ToldInv => ToldInv') BY <1>2, <1>4, SamePagesTold
<1>8. ASSUME ~confused PROVE HeldInv'
  <2>1. ToldInv /\ HeldInv BY <1>8
  <2> SUFFICES ASSUME NEW j \in DOMAIN pages, NEW d \in Clients, d \in pages'[j].heldBy
               PROVE  /\ reading'[d].pc = "found"
                      /\ reading'[d].table = pages'[j].table
                      /\ reading'[d].key = frames'[pages'[j].frame_num].key
                      /\ ~reading'[d].overtaken =>
                           frames'[pages'[j].frame_num].value \in reading'[d].want
    BY <1>4 DEF HeldInv
  <2>2. CASE d # c BY <1>2, <1>4, <1>5, <2>1, <2>2 DEF HeldInv
  <2>3. CASE d = c
    <3>1. j = i
      <4> SUFFICES ASSUME j # i PROVE FALSE OBVIOUS
      <4>1. c \in pages[j].heldBy BY <1>4, <2>3
      <4> QED BY <1>2, <2>1, <4>1 DEF HeldInv
    <3>2. /\ pages'[j].table = t /\ frames'[pages'[j].frame_num].key = k
          /\ frames'[pages'[j].frame_num].value = frames[pages[i].frame_num].value
      BY <1>2, <1>4, <1>6, <3>1
    <3>3. expected[t][k] # Garbage => frames[pages[i].frame_num].value \in {expected[t][k]}
      BY <1>6, <2>1 DEF ToldInv, PageOK
    <3>4. /\ read.pc = "found" /\ read.table = t /\ read.key = k
          /\ read.want = {expected[t][k]} /\ read.overtaken = (expected[t][k] = Garbage)
      OBVIOUS
    <3> HIDE DEF read
    <3> QED BY <1>5, <2>3, <3>2, <3>3, <3>4
  <2> QED BY <2>2, <2>3
<1>9. ASSUME ~confused PROVE CopiedInv'
  <2>1. read.pc = "found" OBVIOUS
  <2> HIDE DEF read
  <2> QED BY <1>5, <1>9, <2>1 DEF CopiedInv
<1> QED BY <1>2, <1>7, <1>8, <1>9

\* The rest of a SELECT that hit: its value is taken from the page it holds.
LEMMA ReadReads ==
  ASSUME RInv, NEW c \in Clients, BeginRead(c) \/ EndRead(c) \/ Answer(c)
  PROVE  Answering'
<1> USE DEF RInv, Answering
<1>0. pages \in Seq(Page) /\ reading \in [Clients -> Read \cup {Idle}]
  BY DEF IInv, Types, TypeOK
<1>1. \A i \in DOMAIN pages : pages[i] \in Page BY <1>0
<1>2. /\ DOMAIN pages' = DOMAIN pages
      /\ \A i \in DOMAIN pages : /\ pages'[i].table = pages[i].table
                                 /\ pages'[i].frame_num = pages[i].frame_num
                                 /\ pages'[i].isModified = pages[i].isModified
                                 /\ pages'[i].heldBy \subseteq pages[i].heldBy
                                 /\ BeginRead(c) => c \notin pages'[i].heldBy
      /\ UNCHANGED <<frames, now, store, expected, confused>>
  <2>1. CASE BeginRead(c) BY <1>1, <2>1 DEF BeginRead, Page, fs, history
  <2>2. CASE ~BeginRead(c) BY <2>2 DEF EndRead, Answer, cache, fs, history
  <2> QED BY <2>1, <2>2
<1>3. StampsInv' /\ (ToldInv => ToldInv') BY <1>2, SamePagesTold
<1>4. \A d \in Clients : d # c => reading'[d] = reading[d]
  <2>1. CASE BeginRead(c) BY <1>0, <2>1 DEF BeginRead
  <2>2. CASE EndRead(c) BY <1>0, <2>2 DEF EndRead
  <2>3. CASE Answer(c) BY <1>0, <2>3 DEF Answer
  <2> QED BY <2>1, <2>2, <2>3
<1>5. ASSUME HeldInv PROVE HeldInv'
  <2>1. ASSUME NEW i \in DOMAIN pages PROVE c \notin pages'[i].heldBy
    <3>1. CASE BeginRead(c) BY <1>2, <3>1
    <3>2. CASE ~BeginRead(c)
      <4>1. reading[c].pc # "found" BY <3>2 DEF EndRead, Answer
      <4> QED BY <1>2, <1>5, <4>1 DEF HeldInv
    <3> QED BY <3>1, <3>2
  <2> QED BY <1>2, <1>4, <1>5, <2>1 DEF HeldInv
<1>6. ASSUME HeldInv, CopiedInv PROVE CopiedInv'
  <2> SUFFICES ASSUME reading'[c].pc \in {"copying", "done"}, ~reading'[c].overtaken
               PROVE  reading'[c].first \in reading'[c].want
    BY <1>4, <1>6 DEF CopiedInv
  <2>0. \A r \in Read : Overtaken(r).overtaken = TRUE BY DEF Overtaken, Read
  <2>1. CASE BeginRead(c)
    <3>1. reading[c] \in Read /\ reading[c].pc = "found" BY <2>1, ReadTyped DEF BeginRead
    <3>2. ~(Held(c) = {} \/ reading[c].overtaken)
      <4> SUFFICES ASSUME Held(c) = {} \/ reading[c].overtaken PROVE FALSE OBVIOUS
      <4>1. [reading[c] EXCEPT !.pc = "copying"] \in Read BY <3>1 DEF Read
      <4>2. reading'[c] = Overtaken([reading[c] EXCEPT !.pc = "copying"])
        BY <1>0, <2>1 DEF BeginRead
      <4> QED BY <2>0, <4>1, <4>2
    <3>3. PICK i \in Held(c) :
            reading' = [reading EXCEPT
                          ![c].pc = "copying", ![c].frame = pages[i].frame_num,
                          ![c].first = frames[pages[i].frame_num].value]
      BY <2>1, <3>2 DEF BeginRead
    <3>4. /\ reading'[c].first = frames[pages[i].frame_num].value
          /\ reading'[c].want = reading[c].want
      <4> DEFINE f == pages[i].frame_num
                 x == frames[f].value
      <4> HIDE DEF x
      <4>1. reading'[c] = [reading[c] EXCEPT !.pc = "copying", !.frame = f, !.first = x]
        BY <1>0, <3>3 DEF x
      <4> QED BY <3>1, <4>1 DEF Read, x
    <3>5. i \in DOMAIN pages /\ c \in pages[i].heldBy BY DEF Held
    <3> QED BY <1>6, <3>2, <3>4, <3>5 DEF HeldInv
  <2>2. CASE EndRead(c)
    <3> DEFINE answer == [reading[c] EXCEPT !.pc = "done", !.frame = 0]
    <3>1. reading[c] \in Read /\ reading[c].pc = "copying" BY <2>2, ReadTyped DEF EndRead
    <3>2. /\ answer.first = reading[c].first /\ answer.want = reading[c].want
          /\ answer.overtaken = reading[c].overtaken
      BY <3>1 DEF Read
    <3>3. reading'[c] = answer
      <4>1. reading'[c] = answer \/ reading'[c] = Overtaken(answer)
        BY <1>0, <2>2 DEF EndRead
      <4>2. 0 \in Frames BY NFramesAssumption DEF Frames
      <4>3. answer \in Read BY <3>1, <4>2 DEF Read
      <4> HIDE DEF answer
      <4> QED BY <2>0, <4>1, <4>3
    <3> HIDE DEF answer
    <3> QED BY <1>6, <3>1, <3>2, <3>3 DEF CopiedInv
  <2>3. CASE Answer(c) BY <1>0, <2>3 DEF Answer, Idle
  <2> QED BY <2>1, <2>2, <2>3
<1> QED BY <1>2, <1>3, <1>5, <1>6

\* The table has no page and no record left; those of the others stay.
LEMMA DropReads ==
  ASSUME RInv, NEW t \in Tables, Drop(t)
  PROVE  Answering'
<1> USE DEF RInv, Answering
<1>0. pages \in Seq(Page) /\ TypeOK BY DEF IInv, Types, TypeOK
<1>1. /\ \A n \in DOMAIN pages' :
           \E i \in DOMAIN pages : pages'[n] = pages[i] /\ pages[i].table # t
      /\ \A i \in DOMAIN pages : pages[i].table # t => \E n \in DOMAIN pages' : pages'[n] = pages[i]
  <2> DEFINE S == {i \in DOMAIN pages : pages[i].table # t}
  <2>1. PICK kept \in InOrder(S) : pages' = [n \in DOMAIN kept |-> pages[kept[n]]] BY DEF Drop
  <2>2. /\ S \in SUBSET DOMAIN pages
        /\ \A i : i \in S <=> i \in DOMAIN pages /\ pages[i].table # t
    OBVIOUS
  <2> HIDE DEF S
  <2>3. /\ DOMAIN pages' = DOMAIN kept
        /\ \A n \in DOMAIN kept : kept[n] \in S
        /\ \A i \in S : \E n \in DOMAIN kept : kept[n] = i
    BY <1>0, <2>1, <2>2, KeptFacts
  <2> QED BY <2>1, <2>2, <2>3
<1>2. /\ store' = [store EXCEPT ![t] = [k \in Keys |-> {}]]
      /\ expected' = [expected EXCEPT ![t] = [k \in Keys |-> NoValue]]
      /\ reading' = [c \in Clients |->
                       IF Follows(c, t)
                       THEN [reading[c] EXCEPT !.want = @ \cup {NoValue}] ELSE reading[c]]
      /\ UNCHANGED <<frames, now, confused>>
  BY DEF Drop, DroppedInFS
<1>3. /\ \A u \in Tables : u # t => store'[u] = store[u] /\ expected'[u] = expected[u]
      /\ \A k \in Keys : store'[t][k] = {} /\ expected'[t][k] = NoValue
  BY <1>0, <1>2 DEF TypeOK
<1>4. StampsInv'
  <2>1. \A u \in Tables, k \in Keys : \A r, q \in store'[u][k] : r.ts <= now /\ r.ts = q.ts
    <3> SUFFICES ASSUME NEW u \in Tables, NEW k \in Keys
                 PROVE  \A r, q \in store'[u][k] : r.ts <= now /\ r.ts = q.ts
      OBVIOUS
    <3>1. CASE u = t BY <1>3, <3>1
    <3>2. CASE u # t BY <1>3, <3>2 DEF StampsInv
    <3> QED BY <3>1, <3>2
  <2> QED BY <1>2, <2>1 DEF StampsInv
<1>5. ASSUME ~confused PROVE ToldInv'
  <2>1. ASSUME NEW n \in DOMAIN pages' PROVE PageOK(pages[n], store, expected)'
    <3>1. PICK i \in DOMAIN pages : pages'[n] = pages[i] /\ pages[i].table # t BY <1>1
    <3>2. PageOK(pages[i], store, expected) BY <1>5 DEF ToldInv
    <3>3. /\ store'[pages[i].table] = store[pages[i].table]
          /\ expected'[pages[i].table] = expected[pages[i].table]
      BY <1>3, <3>1, Typed
    <3> QED BY <1>2, <3>1, <3>2, <3>3 DEF PageOK
  <2>2. ASSUME NEW u \in Tables, NEW k \in Keys, Hits(u, k)' = {}
        PROVE  MissOK(u, k, store, expected)'
    <3>1. CASE u = t BY <1>3, <3>1 DEF MissOK
    <3>2. CASE u # t
      <4>1. Hits(u, k) = {}
        <5> SUFFICES ASSUME NEW i \in Hits(u, k) PROVE FALSE OBVIOUS
        <5>1. i \in DOMAIN pages /\ pages[i].table = u /\ frames[pages[i].frame_num].key = k
          BY DEF Hits
        <5>2. PICK n \in DOMAIN pages' : pages'[n] = pages[i] BY <1>1, <3>2, <5>1
        <5> QED BY <1>2, <2>2, <5>1, <5>2 DEF Hits
      <4>2. MissOK(u, k, store, expected) BY <1>5, <4>1 DEF ToldInv
      <4> QED BY <1>3, <3>2, <4>2 DEF MissOK
    <3> QED BY <3>1, <3>2
  <2> QED BY <2>1, <2>2 DEF ToldInv
<1>6. Grown
  <2> SUFFICES ASSUME NEW c \in Clients, Follows(c, t),
                      reading'[c] = [reading[c] EXCEPT !.want = @ \cup {NoValue}]
               PROVE  /\ reading'[c].pc = reading[c].pc
                      /\ reading'[c].table = reading[c].table
                      /\ reading'[c].key = reading[c].key
                      /\ reading'[c].overtaken = reading[c].overtaken
                      /\ reading'[c].first = reading[c].first
                      /\ reading[c].want \subseteq reading'[c].want
    BY <1>2 DEF Grown
  <2>1. reading[c] \in Read BY ReadTyped DEF Follows
  <2> QED BY <2>1 DEF Read
<1>7. ASSUME ~confused PROVE HeldInv'
  <2>1. \A n \in DOMAIN pages' :
          \/ pages'[n].heldBy = {}
          \/ \E i \in DOMAIN pages :
               /\ pages'[n].heldBy = pages[i].heldBy /\ pages'[n].table = pages[i].table
               /\ frames'[pages'[n].frame_num] = frames[pages[i].frame_num]
    BY <1>1, <1>2
  <2> QED BY <1>6, <1>7, <2>1, HeldStay
<1>8. ASSUME ~confused PROVE CopiedInv' BY <1>6, <1>8, GrownCopied
<1> QED BY <1>2, <1>4, <1>5, <1>7, <1>8

\* The table has no record left, and its pages, if any, are excepted.
LEMMA DropUnansweredReads ==
  ASSUME RInv, NEW t \in Tables, DropUnanswered(t)
  PROVE  Answering'
<1> USE DEF RInv, Answering
<1>0. TypeOK BY DEF IInv, Types
<1>1. /\ \A u \in Tables : u # t => store'[u] = store[u] /\ expected'[u] = expected[u]
      /\ \A k \in Keys : /\ store'[t][k] = {}
                         /\ expected'[t][k] = IF Hits(t, k) = {} THEN NoValue ELSE Garbage
      /\ UNCHANGED <<pages, frames, now, reading, confused>>
  BY <1>0 DEF DropUnanswered, DroppedInFS, cache, TypeOK
<1>2. \A u, k : Hits(u, k)' = Hits(u, k) BY <1>1 DEF Hits
<1>3. StampsInv'
  <2>1. \A u \in Tables, k \in Keys : \A r, q \in store'[u][k] : r.ts <= now /\ r.ts = q.ts
    <3> SUFFICES ASSUME NEW u \in Tables, NEW k \in Keys
                 PROVE  \A r, q \in store'[u][k] : r.ts <= now /\ r.ts = q.ts
      OBVIOUS
    <3>1. CASE u = t BY <1>1, <3>1
    <3>2. CASE u # t BY <1>1, <3>2 DEF StampsInv
    <3> QED BY <3>1, <3>2
  <2> QED BY <1>1, <2>1 DEF StampsInv
<1>4. ASSUME ~confused PROVE ToldInv'
  <2>1. ASSUME NEW i \in DOMAIN pages PROVE PageOK(pages[i], store, expected)'
    <3> DEFINE u == pages[i].table
               k == frames[pages[i].frame_num].key
    <3>1. u \in Tables /\ k \in Keys /\ i \in Hits(u, k) BY Typed DEF Hits
    <3>2. PageOK(pages[i], store, expected) BY <1>4 DEF ToldInv
    <3>3. CASE u = t
      <4>1. store'[u][k] = {} /\ expected'[u][k] = Garbage BY <1>1, <3>1, <3>3
      <4> QED BY <1>1, <4>1 DEF PageOK
    <3>4. CASE u # t
      <4>1. store'[u] = store[u] /\ expected'[u] = expected[u] BY <1>1, <3>1, <3>4
      <4> QED BY <1>1, <3>2, <4>1 DEF PageOK
    <3> QED BY <3>3, <3>4
  <2>2. ASSUME NEW u \in Tables, NEW k \in Keys, Hits(u, k) = {}
        PROVE  MissOK(u, k, store, expected)'
    <3>1. MissOK(u, k, store, expected) BY <1>4, <2>2 DEF ToldInv
    <3>2. CASE u = t BY <1>1, <2>2, <3>2 DEF MissOK
    <3>3. CASE u # t BY <1>1, <3>1, <3>3 DEF MissOK
    <3> QED BY <3>2, <3>3
  <2> QED BY <1>1, <1>2, <2>1, <2>2 DEF ToldInv
<1>5. (HeldInv => HeldInv') /\ (CopiedInv => CopiedInv')
  BY <1>1 DEF HeldInv, CopiedInv
<1> QED BY <1>1, <1>3, <1>4, <1>5

\* No page qualifies for replacement: the value inserted is lost, the one selected is
\* answered from the file system.
LEMMA NoVictimReads ==
  ASSUME RInv, NEW t \in Tables, NEW k \in Keys, NEW v \in Known \cup {Garbage},
         Hits(t, k) = {}, v = Garbage \/ \E r \in store[t][k] : r.value = v,
         expected' = [expected EXCEPT ![t][k] = v],
         UNCHANGED <<pages, frames, bitmap, now, fs, reading, confused>>
  PROVE  Answering'
<1> USE DEF RInv, Answering
<1>0. expected \in [Tables -> [Keys -> Known \cup {NoValue, Garbage}]]
  BY DEF IInv, Types, TypeOK
<1>1. \A u \in Tables, l \in Keys : expected'[u][l] = IF u = t /\ l = k THEN v ELSE expected[u][l]
  BY <1>0
<1>2. \A u, l : Hits(u, l)' = Hits(u, l) BY DEF Hits
<1>3. StampsInv' BY DEF StampsInv, fs
<1>4. ASSUME ~confused PROVE ToldInv'
  <2>1. ASSUME NEW i \in DOMAIN pages PROVE PageOK(pages[i], store, expected)'
    <3>1. ~(pages[i].table = t /\ frames[pages[i].frame_num].key = k) BY DEF Hits
    <3>2. pages[i].table \in Tables /\ frames[pages[i].frame_num].key \in Keys BY Typed
    <3>3. PageOK(pages[i], store, expected) BY <1>4 DEF ToldInv
    <3>4. expected'[pages[i].table][frames[pages[i].frame_num].key]
            = expected[pages[i].table][frames[pages[i].frame_num].key]
      BY <1>1, <3>1, <3>2
    <3>5. store' = store BY DEF fs
    <3> QED BY <3>3, <3>4, <3>5 DEF PageOK
  <2>2. ASSUME NEW u \in Tables, NEW l \in Keys, Hits(u, l) = {}
        PROVE  MissOK(u, l, store, expected)'
    <3>1. MissOK(u, l, store, expected) BY <1>4, <2>2 DEF ToldInv
    <3>2. CASE u = t /\ l = k BY <1>1, <3>2 DEF MissOK, fs
    <3>3. CASE ~(u = t /\ l = k) BY <1>1, <3>1, <3>3 DEF MissOK, fs
    <3> QED BY <3>2, <3>3
  <2> QED BY <1>2, <2>1, <2>2 DEF ToldInv
<1>5. (HeldInv => HeldInv') /\ (CopiedInv => CopiedInv') BY DEF HeldInv, CopiedInv
<1> QED BY <1>3, <1>4, <1>5

\* CREATE, the clock and steps that change nothing.
LEMMA QuietReads ==
  ASSUME RInv, (\E t \in Tables : Create(t)) \/ Tick \/ UNCHANGED vars
  PROVE  Answering'
<1> USE DEF RInv, Answering
<1>1. UNCHANGED <<cache, store, reading, history>> /\ (now' = now \/ now' = now + 1)
  BY DEF Create, Tick, vars, fs
<1>2. UNCHANGED <<pages, frames, expected, confused>> BY <1>1 DEF cache, history
<1>3. StampsInv'
  <2>1. \A f \in Frames : frames[f].ts <= now' BY <1>1, Typed DEF StampsInv
  <2>2. \A t \in Tables, k \in Keys : \A r, q \in store[t][k] : r.ts <= now' /\ r.ts = q.ts
    BY <1>1, Typed DEF StampsInv
  <2> QED BY <1>1, <1>2, <2>1, <2>2 DEF StampsInv
<1>4. \A t, k : Hits(t, k)' = Hits(t, k) BY <1>2 DEF Hits
<1>5. ToldInv => ToldInv'
  <2>1. store' = store BY <1>1
  <2>2. \A i \in DOMAIN pages :
          PageOK(pages[i], store, expected) => PageOK(pages[i], store, expected)'
    BY <1>2, <2>1 DEF PageOK
  <2>3. \A t \in Tables, k \in Keys :
          MissOK(t, k, store, expected) => MissOK(t, k, store, expected)'
    BY <1>2, <2>1 DEF MissOK
  <2> QED BY <1>2, <1>4, <2>2, <2>3 DEF ToldInv
<1>6. (HeldInv => HeldInv') /\ (CopiedInv => CopiedInv') BY <1>1, <1>2 DEF HeldInv, CopiedInv
<1> QED BY <1>2, <1>3, <1>5, <1>6

-----------------------------------------------------------------------------
(* The theorems.                                                           *)

LEMMA InsertReads ==
  ASSUME RInv, NEW t \in Tables, NEW k \in Keys, NEW v \in Values,
         \/ Insert(t, k, v)
         \/ \E broken \in SUBSET Modified : InsertAfterJournal(t, k, v, broken)
  PROVE  Answering'
<1>0. v \in Known BY DEF Known
<1>1. CASE InsertHit(t, k, v) BY <1>1, InsertHitReads
<1>2. CASE InsertFree(t, k, v) BY <1>0, <1>2, LoadingReads DEF InsertFree
<1>3. CASE InsertReplacing(t, k, v) BY <1>0, <1>3, LoadingReads DEF InsertReplacing
<1>4. CASE InsertNoVictim(t, k, v) BY <1>4, NoVictimReads DEF InsertNoVictim
<1>5. ASSUME NEW broken, InsertAfterJournal(t, k, v, broken)
      PROVE  Answering'
  BY <1>0, <1>5, LoadingEmptiedReads DEF InsertAfterJournal
<1> QED BY <1>1, <1>2, <1>3, <1>4, <1>5 DEF Insert

LEMMA SelectMissReads ==
  ASSUME RInv, NEW t \in Tables, NEW k \in Keys, NEW v \in Known,
         \/ SelectMiss(t, k, v)
         \/ \E broken \in SUBSET Modified : \/ SelectAfterJournal(t, k, v, broken)
                                           \/ SelectCancelled(t, k, v, broken)
  PROVE  Answering'
<1>1. CASE SelectFree(t, k, v) BY <1>1, LoadingReads DEF SelectFree, Miss
<1>2. CASE SelectReplacing(t, k, v) BY <1>2, LoadingReads DEF SelectReplacing, Miss
<1>3. CASE SelectNoVictim(t, k, v) BY <1>3, NoVictimReads DEF SelectNoVictim, Miss, Became
<1>4. ASSUME NEW broken, SelectAfterJournal(t, k, v, broken)
      PROVE  Answering'
  BY <1>4, LoadingEmptiedReads DEF SelectAfterJournal, Miss
<1>5. ASSUME NEW broken, SelectCancelled(t, k, v, broken)
      PROVE  Answering'
  BY <1>5, JournalFailsReads DEF SelectCancelled
<1> QED BY <1>1, <1>2, <1>3, <1>4, <1>5 DEF SelectMiss

LEMMA StepReads == RInv /\ [Next]_vars => RInv'
<1> SUFFICES ASSUME RInv, [Next]_vars PROVE Answering'
  BY StepInv DEF RInv
<1>1. ASSUME NEW t \in Tables, NEW k \in Keys, NEW v \in Values,
             \/ Insert(t, k, v)
             \/ \E broken \in SUBSET Modified : InsertAfterJournal(t, k, v, broken)
      PROVE  Answering'
  BY <1>1, InsertReads
<1>2. ASSUME NEW t \in Tables, NEW k \in Keys, NEW v \in Known,
             \/ SelectMiss(t, k, v)
             \/ \E broken \in SUBSET Modified : \/ SelectAfterJournal(t, k, v, broken)
                                               \/ SelectCancelled(t, k, v, broken)
      PROVE  Answering'
  BY <1>2, SelectMissReads
<1>3. ASSUME NEW t \in Tables, NEW k \in Keys, NEW broken, InsertCancelled(t, k, broken)
      PROVE  Answering'
  BY <1>3, JournalFailsReads DEF InsertCancelled
<1>4. ASSUME NEW broken, Journal(broken) PROVE Answering' BY <1>4, JournalReads
<1>5. ASSUME NEW c \in Clients, NEW t \in Tables, NEW k \in Keys, SelectHit(c, t, k)
      PROVE  Answering'
  BY <1>5, SelectHitReads
<1>6. ASSUME NEW c \in Clients, BeginRead(c) \/ EndRead(c) \/ Answer(c) PROVE Answering'
  BY <1>6, ReadReads
<1>7. ASSUME NEW t \in Tables, Drop(t) PROVE Answering' BY <1>7, DropReads
<1>9. ASSUME NEW t \in Tables, DropUnanswered(t) PROVE Answering'
  BY <1>9, DropUnansweredReads
<1>8. CASE (\E t \in Tables : Create(t)) \/ Tick \/ UNCHANGED vars BY <1>8, QuietReads
<1> QED BY <1>1, <1>2, <1>3, <1>4, <1>5, <1>6, <1>7, <1>8, <1>9 DEF Next

\* What the memory knows, and what the clients were told of it, holds in every state.
THEOREM Reads == Spec => []RInv
<1>1. Init => RInv
  <2> SUFFICES ASSUME Init PROVE StampsInv /\ ToldInv /\ HeldInv /\ CopiedInv
    BY InitInv DEF RInv, Answering
  <2>1. DOMAIN pages = {} /\ now = 0 BY DEF Init
  <2>2. StampsInv BY DEF Init, StampsInv
  <2>3. ToldInv BY <2>1 DEF Init, ToldInv, MissOK
  <2>4. HeldInv BY <2>1 DEF HeldInv
  <2>5. CopiedInv BY DEF Init, CopiedInv, Idle
  <2> QED BY <2>2, <2>3, <2>4, <2>5
<1> QED BY <1>1, StepReads, PTL DEF Spec

\* Through every replacement, journal, failed journal and DROP, the next SELECT of a
\* key may answer what a client was told of it last.
THEOREM OwnWrites == Spec => []ReadsOwnWrites
<1>1. RInv => ReadsOwnWrites
  <2> SUFFICES ASSUME RInv, ~confused, NEW t \in Tables, NEW k \in Keys, expected[t][k] # Garbage
               PROVE  expected[t][k] \in Answers(t, k)
    BY DEF ReadsOwnWrites
  <2>1. ToldInv BY DEF RInv, Answering
  <2>2. CASE Hits(t, k) = {} BY <2>1, <2>2 DEF ToldInv, MissOK, Answers
  <2>3. ASSUME NEW i \in Hits(t, k) PROVE expected[t][k] \in Answers(t, k)
    <3>1. i \in DOMAIN pages /\ pages[i].table = t /\ frames[pages[i].frame_num].key = k
      BY DEF Hits
    <3>2. expected[t][k] = frames[pages[i].frame_num].value
      BY <2>1, <3>1 DEF ToldInv, PageOK
    <3> QED BY <3>2 DEF Answers
  <2> QED BY <2>2, <2>3
<1> QED BY <1>1, Reads, PTL

\* A SELECT that hit and was not overtaken answers a value its key had while it ran.
THEOREM ItsKey == Spec => []SelectAnswersItsKey
<1>1. RInv => SelectAnswersItsKey BY DEF RInv, Answering, CopiedInv, SelectAnswersItsKey
<1> QED BY <1>1, Reads, PTL
=============================================================================
