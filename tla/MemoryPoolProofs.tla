-------------------------- MODULE MemoryPoolProofs --------------------------
(***************************************************************************)
(* MemoryPool, for any number of memories, threads and events: what is in  *)
(* its list has not been freed, nobody uses a freed memory but who shared  *)
(* it, the SC table gets its home back, and an SHC write is found.         *)
(*                                                                         *)
(* A thread acts on frames that wait beneath those on top, so the          *)
(* invariant is about every frame of every stack.  FrameOK says what a     *)
(* frame may have.  OwnedInv: a removed memory nobody else had is one      *)
(* frame's, until it is freed.  RandomInv: who is about to take a random   *)
(* SC memory holds the mutex, and there is one.  ScInv and ShcInv: if the  *)
(* table has not its home, or a memory is still to be journaled, there is  *)
(* a frame that will see to it, however deep.                              *)
(*                                                                         *)
(* Most steps replace the top frame of one stack (Moves) and leave the     *)
(* pool alone: QuietStep does those, given what the new frames are         *)
(* (Fitting).                                                              *)
(***************************************************************************)
EXTENDS MemoryPool, SequenceTheorems, FiniteSetTheorems, WellFoundedInduction, TLAPS

-----------------------------------------------------------------------------
(* Lists.  Induction over a list is by the least number it would fail at.  *)

\* A set of numbers that is not empty has a least one.
LEMMA Least == ASSUME NEW T \in SUBSET Nat, T # {} PROVE \E n \in T : \A m \in T : n <= m
<1> DEFINE R == OpToRel(<, Nat)
<1>1. IsWellFoundedOn(R, Nat) BY NatLessThanWellFounded
<1>2. PICK n \in T : \A m \in T : ~(<<m, n>> \in R) BY <1>1, WFMin
<1>3. \A m \in T : ~(m < n) BY <1>2 DEF OpToRel
<1> QED BY <1>3

\* One more element.
Kept(before, o, S) == IF o \in S THEN Append(before, o) ELSE before

\* FilterUpTo is what its recursive definition says: there is such a function.
LEMMA FilterDefined ==
  ASSUME NEW list, NEW S, Len(list) \in Nat
  PROVE  FilterUpTo(list, S) =
           [n \in 0 .. Len(list) |->
              IF n = 0 THEN <<>> ELSE Kept(FilterUpTo(list, S)[n - 1], list[n], S)]
<1> DEFINE Is(g, m) == g = [n \in 0 .. m |-> IF n = 0 THEN <<>> ELSE Kept(g[n - 1], list[n], S)]
           Bad == {m \in 0 .. Len(list) : ~ \E g : Is(g, m)}
<1>1. Bad = {}
  <2> SUFFICES ASSUME Bad # {} PROVE FALSE OBVIOUS
  <2>1. PICK m \in Bad : \A l \in Bad : m <= l
    <3>1. Bad \in SUBSET Nat OBVIOUS
    <3> QED BY <3>1, Least
  <2>2. CASE m = 0
    <3>1. Is([n \in 0 .. 0 |-> <<>>], 0) OBVIOUS
    <3> QED BY <2>2, <3>1
  <2>3. CASE m # 0
    <3>1. m - 1 \in 0 .. Len(list) /\ m - 1 \notin Bad BY <2>1, <2>3
    <3>2. PICK g : Is(g, m - 1) BY <3>1
    <3> DEFINE h == [n \in 0 .. m |-> IF n = m THEN Kept(g[m - 1], list[m], S) ELSE g[n]]
    <3>3. ASSUME NEW n \in 0 .. m
          PROVE  h[n] = IF n = 0 THEN <<>> ELSE Kept(h[n - 1], list[n], S)
      <4>1. CASE n = m BY <4>1, <2>3, <3>1
      <4>2. CASE n # m
        <5>1. n \in 0 .. (m - 1) BY <4>2, <3>1
        <5>2. g[n] = IF n = 0 THEN <<>> ELSE Kept(g[n - 1], list[n], S) BY <5>1, <3>2
        <5>3. h[n] = g[n] /\ (n # 0 => h[n - 1] = g[n - 1]) BY <4>2, <5>1, <3>1
        <5> QED BY <5>2, <5>3
      <4> QED BY <4>1, <4>2
    <3>4. Is(h, m) BY <3>3
    <3> QED BY <3>4, <2>1
  <2> QED BY <2>2, <2>3
<1>2. PICK g : Is(g, Len(list)) BY <1>1
<1>3. FilterUpTo(list, S) = CHOOSE f : Is(f, Len(list))
  BY DEF FilterUpTo, Kept
<1> HIDE DEF Is
<1>4. Is(CHOOSE f : Is(f, Len(list)), Len(list)) BY <1>2
<1> QED BY <1>3, <1>4 DEF Is

\* Induction up to m, over a set of numbers.
LEMMA Induct ==
  ASSUME NEW m \in Nat, NEW Good, 0 \in Good,
         \A n \in 0 .. m : n < m /\ n \in Good => n + 1 \in Good
  PROVE  \A n \in 0 .. m : n \in Good
<1> DEFINE Bad == {n \in 0 .. m : n \notin Good}
<1> SUFFICES ASSUME Bad # {} PROVE FALSE OBVIOUS
<1>1. Bad \in SUBSET Nat OBVIOUS
<1>2. PICK n \in Bad : \A l \in Bad : n <= l
  <2> HIDE DEF Bad
  <2> QED BY <1>1, Least
<1>3. n # 0 BY <1>2
<1>4. n - 1 \in 0 .. m /\ n - 1 < m /\ n - 1 \notin Bad BY <1>2, <1>3
<1>5. n - 1 + 1 \in Good BY <1>4
<1> QED BY <1>2, <1>3, <1>5

\* The first elements of a list.
Upto(list, n) == {list[i] : i \in 1 .. n}

\* A filter keeps what is in S, once if it was there once.
LEMMA FilterKeeps ==
  ASSUME NEW T, NEW list \in Seq(T), NEW S
  PROVE  /\ Filter(list, S) \in Seq(T)
         /\ Range(Filter(list, S)) = Range(list) \cap S
         /\ IsInjective(list) => IsInjective(Filter(list, S))
<1> DEFINE kept == FilterUpTo(list, S)
           Good == {n \in 0 .. Len(list) :
                      /\ kept[n] \in Seq(T)
                      /\ Range(kept[n]) = Upto(list, n) \cap S
                      /\ IsInjective(list) => IsInjective(kept[n])}
<1>1. /\ kept[0] = <<>>
      /\ \A n \in 0 .. Len(list) : n > 0 => kept[n] = Kept(kept[n - 1], list[n], S)
  <2>1. Len(list) \in Nat OBVIOUS
  <2> HIDE DEF kept
  <2> QED BY <2>1, FilterDefined DEF kept
<1> HIDE DEF kept
<1>2. 0 \in Good
  <2>1. <<>> \in Seq(T) /\ Range(<<>>) = {} /\ IsInjective(<<>>) BY DEF Range, IsInjective
  <2>2. Upto(list, 0) = {} BY DEF Upto
  <2>3. 0 \in 0 .. Len(list) OBVIOUS
  <2> QED BY <1>1, <2>1, <2>2, <2>3
<1>3. ASSUME NEW n \in 0 .. Len(list), n < Len(list), n \in Good PROVE n + 1 \in Good
  <2> DEFINE o == list[n + 1]
  <2>1. n + 1 \in 0 .. Len(list) /\ o \in T /\ kept[n + 1] = Kept(kept[n], o, S)
    BY <1>1, <1>3
  <2>2. Upto(list, n + 1) = Upto(list, n) \cup {o} BY <1>3 DEF Upto
  <2>3. CASE o \in S
    <3>1. kept[n + 1] = Append(kept[n], o) BY <2>1, <2>3 DEF Kept
    <3>2. kept[n + 1] \in Seq(T) /\ Range(kept[n + 1]) = Range(kept[n]) \cup {o}
      <4>1. kept[n] \in Seq(T) BY <1>3
      <4>2. /\ Len(kept[n + 1]) = Len(kept[n]) + 1 /\ kept[n + 1][Len(kept[n]) + 1] = o
            /\ \A i \in 1 .. Len(kept[n]) : kept[n + 1][i] = kept[n][i]
            /\ kept[n + 1] \in Seq(T)
        BY <2>1, <3>1, <4>1
      <4>3. Len(kept[n]) \in Nat /\ DOMAIN kept[n] = 1 .. Len(kept[n])
            /\ DOMAIN kept[n + 1] = 1 .. Len(kept[n]) + 1
        BY <4>1, <4>2
      <4> HIDE DEF o
      <4>4. ASSUME NEW x \in Range(kept[n + 1]) PROVE x \in Range(kept[n]) \cup {o}
        BY <4>2, <4>3, <4>4 DEF Range
      <4>5. ASSUME NEW i \in 1 .. Len(kept[n]) PROVE kept[n][i] \in Range(kept[n + 1])
        <5>1. i \in DOMAIN kept[n + 1] /\ kept[n + 1][i] = kept[n][i] BY <4>2, <4>3
        <5> QED BY <5>1 DEF Range
      <4>6. o \in Range(kept[n + 1]) BY <4>2, <4>3 DEF Range
      <4>7. Range(kept[n]) \subseteq Range(kept[n + 1]) BY <4>3, <4>5 DEF Range
      <4> QED BY <4>2, <4>4, <4>6, <4>7
    <3>3. ASSUME IsInjective(list) PROVE IsInjective(kept[n + 1])
      <4>1. o \notin Range(kept[n]) BY <1>3, <3>3 DEF Upto, IsInjective
      <4>2. \A i \in DOMAIN kept[n] : kept[n][i] # o BY <4>1 DEF Range
      <4> QED BY <1>3, <2>1, <3>1, <3>3, <4>2 DEF IsInjective
    <3> QED BY <1>3, <2>1, <2>2, <2>3, <3>2, <3>3
  <2>4. CASE o \notin S BY <1>3, <2>1, <2>2, <2>4 DEF Kept
  <2> QED BY <2>3, <2>4
<1>4. Len(list) \in Good
  <2>1. Len(list) \in Nat /\ Len(list) \in 0 .. Len(list) OBVIOUS
  <2> HIDE DEF Good
  <2> QED BY <1>2, <1>3, <2>1, Induct
<1>5. Upto(list, Len(list)) = Range(list) BY DEF Upto, Range
<1> QED BY <1>4, <1>5 DEF Filter, kept

\* Two filters agree as far as the lists and the sets do.
LEMMA FiltersAgree ==
  ASSUME NEW T, NEW list \in Seq(T), NEW other \in Seq(T), NEW S, NEW R,
         NEW m \in Nat, m <= Len(list), m <= Len(other),
         \A i \in 1 .. m : list[i] = other[i] /\ (list[i] \in S <=> list[i] \in R)
  PROVE  FilterUpTo(list, S)[m] = FilterUpTo(other, R)[m]
<1> DEFINE kept  == FilterUpTo(list, S)
           again == FilterUpTo(other, R)
           Good  == {n \in 0 .. m : kept[n] = again[n]}
<1>1. /\ kept[0] = <<>> /\ again[0] = <<>>
      /\ \A n \in 0 .. m : n > 0 => /\ kept[n] = Kept(kept[n - 1], list[n], S)
                                    /\ again[n] = Kept(again[n - 1], other[n], R)
  <2>1. Len(list) \in Nat /\ Len(other) \in Nat OBVIOUS
  <2> HIDE DEF kept, again
  <2> QED BY <2>1, FilterDefined DEF kept, again
<1> HIDE DEF kept, again
<1>2. 0 \in Good BY <1>1
<1>3. ASSUME NEW n \in 0 .. m, n < m, n \in Good PROVE n + 1 \in Good
  <2>1. /\ n + 1 \in 0 .. m
        /\ kept[n + 1] = Kept(kept[n], list[n + 1], S)
        /\ again[n + 1] = Kept(again[n], other[n + 1], R)
    BY <1>1, <1>3
  <2>2. list[n + 1] = other[n + 1] /\ (list[n + 1] \in S <=> list[n + 1] \in R) BY <1>3
  <2> QED BY <1>3, <2>1, <2>2 DEF Kept
<1>4. m \in Good
  <2>1. m \in 0 .. m OBVIOUS
  <2> HIDE DEF Good
  <2> QED BY <1>2, <1>3, <2>1, Induct
<1> QED BY <1>4 DEF kept, again

\* A filter only asks about what is in the list.
LEMMA SameFilter ==
  ASSUME NEW T, NEW list \in Seq(T), NEW S, NEW R, Range(list) \cap S = Range(list) \cap R
  PROVE  Filter(list, S) = Filter(list, R)
<1>1. \A i \in 1 .. Len(list) : list[i] = list[i] /\ (list[i] \in S <=> list[i] \in R)
  BY DEF Range
<1>2. Len(list) \in Nat /\ Len(list) <= Len(list) OBVIOUS
<1> DEFINE m == Len(list)
<1>3. FilterUpTo(list, S)[m] = FilterUpTo(list, R)[m]
  <2>1. m \in Nat /\ m <= Len(list) /\ \A i \in 1 .. m : list[i] \in S <=> list[i] \in R
    BY <1>1, <1>2
  <2> HIDE DEF m
  <2> QED BY <2>1, FiltersAgree
<1> QED BY <1>3 DEF Filter

\* An element more, that is in S or not.
LEMMA FilterAppend ==
  ASSUME NEW T, NEW list \in Seq(T), NEW o \in T, NEW S
  PROVE  Filter(Append(list, o), S) = Kept(Filter(list, S), o, S)
<1> DEFINE longer == Append(list, o)
           m      == Len(list)
<1>1. /\ longer \in Seq(T) /\ Len(longer) = m + 1 /\ m \in Nat /\ longer[m + 1] = o
      /\ \A i \in 1 .. m : longer[i] = list[i]
  OBVIOUS
<1> HIDE DEF longer
<1>2. FilterUpTo(longer, S)[m + 1] = Kept(FilterUpTo(longer, S)[m], o, S)
  <2>1. Len(longer) \in Nat /\ m + 1 \in 0 .. Len(longer) BY <1>1
  <2> HIDE DEF m
  <2> QED BY SMTT(30), <1>1, <2>1, FilterDefined
<1>3. FilterUpTo(longer, S)[m] = FilterUpTo(list, S)[m]
  <2>1. /\ m <= Len(longer) /\ m <= Len(list)
        /\ \A i \in 1 .. m : longer[i] = list[i] /\ (longer[i] \in S <=> longer[i] \in S)
    BY <1>1
  <2> HIDE DEF m
  <2> QED BY <1>1, <2>1, FiltersAgree
<1> QED BY <1>1, <1>2, <1>3 DEF Filter, longer

\* Filtering twice.
LEMMA FilterTwice ==
  ASSUME NEW T, NEW list \in Seq(T), NEW S, NEW R
  PROVE  Filter(Filter(list, S), R) = Filter(list, S \cap R)
<1> DEFINE SR   == S \cap R
           kept == FilterUpTo(list, S)
           both == FilterUpTo(list, SR)
           Good == {n \in 0 .. Len(list) : kept[n] \in Seq(T) /\ Filter(kept[n], R) = both[n]}
<1>1. /\ kept[0] = <<>> /\ both[0] = <<>>
      /\ \A n \in 0 .. Len(list) : n > 0 => /\ kept[n] = Kept(kept[n - 1], list[n], S)
                                            /\ both[n] = Kept(both[n - 1], list[n], SR)
  <2>1. Len(list) \in Nat OBVIOUS
  <2> HIDE DEF kept, both
  <2> QED BY <2>1, FilterDefined DEF kept, both
<1> HIDE DEF kept, both, SR
<1>2. 0 \in Good
  <2>1. Len(<<>>) = 0 /\ <<>> \in Seq(T) OBVIOUS
  <2>2. FilterUpTo(<<>>, R) = [n \in 0 .. Len(<<>>) |->
             IF n = 0 THEN <<>> ELSE Kept(FilterUpTo(<<>>, R)[n - 1], <<>>[n], R)]
    <3>1. Len(<<>>) \in Nat OBVIOUS
    <3> QED BY <3>1, FilterDefined
  <2>3. FilterUpTo(<<>>, R)[0] = <<>>
    <3>1. 0 \in 0 .. Len(<<>>) OBVIOUS
    <3> QED BY <2>2, <3>1
  <2>4. Filter(<<>>, R) = <<>> BY <2>1, <2>3 DEF Filter
  <2>5. 0 \in 0 .. Len(list) OBVIOUS
  <2> QED BY <1>1, <2>1, <2>4, <2>5
<1>3. ASSUME NEW n \in 0 .. Len(list), n < Len(list), n \in Good PROVE n + 1 \in Good
  <2> DEFINE o == list[n + 1]
  <2>1. /\ n + 1 \in 0 .. Len(list) /\ o \in T
        /\ kept[n + 1] = Kept(kept[n], o, S) /\ both[n + 1] = Kept(both[n], o, SR)
    <3>1. n + 1 \in 0 .. Len(list) /\ n + 1 > 0 /\ n + 1 - 1 = n /\ o \in T BY <1>3
    <3>2. kept[n + 1] = Kept(kept[n + 1 - 1], o, S) BY <1>1, <3>1
    <3>3. both[n + 1] = Kept(both[n + 1 - 1], o, SR) BY <1>1, <3>1
    <3> QED BY <3>1, <3>2, <3>3
  <2>2. CASE o \in S
    <3>1. kept[n + 1] = Append(kept[n], o) BY <2>1, <2>2 DEF Kept
    <3>2. Filter(Append(kept[n], o), R) = Kept(Filter(kept[n], R), o, R)
      BY <1>3, <2>1, FilterAppend
    <3>3. both[n + 1] = IF o \in R THEN Append(both[n], o) ELSE both[n]
      BY <2>1, <2>2 DEF Kept, SR
    <3>4. Filter(kept[n + 1], R) = IF o \in R THEN Append(both[n], o) ELSE both[n]
      BY <1>3, <3>1, <3>2 DEF Kept
    <3>5. kept[n + 1] \in Seq(T) BY <1>3, <2>1, <3>1
    <3> QED BY <2>1, <3>3, <3>4, <3>5
  <2>3. CASE o \notin S BY <1>3, <2>1, <2>3 DEF Kept, SR
  <2> QED BY <2>2, <2>3
<1>4. Len(list) \in Good
  <2>1. Len(list) \in Nat /\ Len(list) \in 0 .. Len(list) OBVIOUS
  <2> HIDE DEF Good
  <2> QED BY <1>2, <1>3, <2>1, Induct
<1> QED BY <1>4 DEF Filter, kept, both, SR

-----------------------------------------------------------------------------
(* The invariant.                                                          *)

\* Which frames have a memory, and what they do with it.
ShapeOK(f) ==
  /\ f.at \in {"connect", "removed", "again", "destroy", "addConsType"} => f.mem \in Objects
  /\ f.at = "connect" => f.job \in Queries \cup {"journal"}
  /\ f.at = "again" => f.job \in Queries
  /\ f.at = "addConsType" => f.job \in Criteria
  /\ f.at = "homeOf" => f.mem \in Objects
  /\ IF f.at \in {"each", "createHome"} THEN f.mem = NoMemory /\ IsInjective(f.rest)
     ELSE f.rest = <<>>

\* A frame refers to objects there have been; the memory it has removed does not come
\* back; and the nodes JOURNAL has to walk, or the SC memories table_create has found,
\* are in the list, or were taken out under it.
FrameOK(f, pool, taken, now) ==
  /\ ShapeOK(f)
  /\ \A o \in Objects : Refers(f, o) => o.gen <= now
  /\ f.at \in {"removed", "again", "destroy"} => f.mem \notin pool
  /\ f.at = "createHome" \/ (f.at = "each" /\ f.job = "walk") =>
       Range(f.rest) \subseteq pool \cup taken

FramesInv == \A x \in Threads : \A i \in DOMAIN stack[x] :
               FrameOK(stack[x][i], InPool, shared, events)

\* An object that is in the pool or was freed is not of the future, and one of the
\* future has no criterion yet.
AgesInv ==
  /\ \A o \in InPool \cup freed : o.gen <= events
  /\ \A o \in Objects : o.gen > events => consTypes[o] = {}

\* At most one frame has a pointer to o ...
OneHolder(st, o) ==
  \A x, y \in Threads : \A i \in DOMAIN st[x] : \A j \in DOMAIN st[y] :
    Refers(st[x][i], o) /\ Refers(st[y][j], o) => x = y /\ i = j
\* ... or none.
NoHolder(st, o) == \A x \in Threads : \A i \in DOMAIN st[x] : ~Refers(st[x][i], o)

\* A removed memory nobody else had then is one thread's, until it frees it.
OwnedInv ==
  \A o \in Objects \ (InPool \cup shared) :
    OneHolder(stack, o) /\ (o \in freed => NoHolder(stack, o))

\* Who is about to take a random SC memory is the holder of MUTEX_TABLES.
RandomInv ==
  \A x \in Threads : \A i \in DOMAIN stack[x] : stack[x][i].at = "random" =>
    i = 1 /\ holder = x /\ (Homes # {} \/ mistaken \/ ScRemoved(x))

\* table_create found an SC memory before it looks for one.
Sought(f, types) == f.at = "createHome" => \E o \in Range(f.rest) : "SC" \in types[o]
SoughtInv == \A x \in Threads : \A i \in DOMAIN stack[x] : Sought(stack[x][i], consTypes)

\* A frame that will give the SC table a home: its thread is in update_sc, or has
\* removed the memory with the number, and will empty the table's list and call it.
Brings(f, m, types) ==
  IF m = NoMemory THEN f.at \in {"updateSc", "random"}
  ELSE f.at = "removed" /\ f.mem.mid = m /\ "SC" \in types[f.mem]

ScInv ==
  known => \/ mistaken \/ orphan \/ ~Misplaced(home)
           \/ \E x \in Threads : \E i \in DOMAIN stack[x] : Brings(stack[x][i], home, consTypes)

\* A frame that will journal o, or find that there is no need.
JournalConnect(f) == f.at = "connect" /\ f.job = "journal"
Journals(f, o) ==
  \/ f.at = "updateShc"
  \/ f.at = "each" /\ o \in Range(f.rest)
  \/ JournalConnect(f) /\ f.mem = o

ShcInv ==
  ~mistaken => \A o \in Of("SHC") : o.mid \in dirty =>
    \/ o \in ShcMemory
    \/ \E x \in Threads : \E i \in DOMAIN stack[x] : Journals(stack[x][i], o)

\* Who journals a memory has the list it is from beneath.
UnderInv ==
  \A x \in Threads : \A i \in DOMAIN stack[x] : JournalConnect(stack[x][i]) =>
    i + 1 \in DOMAIN stack[x] /\ stack[x][i + 1].at = "each"

Types == TypeOK /\ stack \in [Threads -> Seq(FrameType)]
IInv  == /\ Types /\ FramesInv /\ AgesInv /\ OwnedInv /\ RandomInv /\ NobodyDiesUnlessShared
         /\ ScInv /\ ShcInv /\ UnderInv /\ SoughtInv

-----------------------------------------------------------------------------
(* Stacks.                                                                 *)

\* Thread p replaces its n innermost frames by fs.
Moves(p, n, fs) ==
  /\ n \in {0, 1} /\ fs \in Seq(FrameType)
  /\ n = 0 => stack[p] = <<>>
  /\ stack' \in [Threads -> Seq(FrameType)]
  /\ \A x \in Threads \ {p} : stack'[x] = stack[x]
  /\ \A k \in DOMAIN fs : k \in DOMAIN stack'[p] /\ stack'[p][k] = fs[k]
  /\ \A i \in DOMAIN stack'[p] : i \notin DOMAIN fs =>
       /\ i - Len(fs) + n \in DOMAIN stack[p] /\ i - Len(fs) + n > n
       /\ stack'[p][i] = stack[p][i - Len(fs) + n]
  /\ \A j \in DOMAIN stack[p] : j > n =>
       /\ j + Len(fs) - n \in DOMAIN stack'[p]
       /\ stack'[p][j + Len(fs) - n] = stack[p][j]

\* Every change of a stack is such a move: a thread with an empty stack begins, ...
LEMMA ExecuteMoves ==
  ASSUME Types, NEW p \in Threads, NEW fs \in Seq(FrameType), Execute(p, fs)
  PROVE  Moves(p, 0, fs)
BY DEF Types, Execute, Moves

\* ... the top frame is replaced, ...
LEMMA BecomesMoves ==
  ASSUME Types, NEW p \in Threads, stack[p] # <<>>, NEW fs \in Seq(FrameType), Becomes(p, fs)
  PROVE  Moves(p, 1, fs)
<1> DEFINE s == stack[p]
           t == fs \o Tail(s)
<1>1. s \in Seq(FrameType) /\ Len(s) \in Nat /\ Len(s) >= 1 /\ DOMAIN s = 1 .. Len(s)
  BY DEF Types
<1>2. /\ Tail(s) \in Seq(FrameType) /\ Len(Tail(s)) = Len(s) - 1
      /\ \A i \in 1 .. (Len(s) - 1) : Tail(s)[i] = s[i + 1]
  BY <1>1
<1>3. stack' \in [Threads -> Seq(FrameType)] /\ stack'[p] = t
      /\ \A x \in Threads \ {p} : stack'[x] = stack[x]
  BY <1>2 DEF Types, Becomes
<1>4. /\ t \in Seq(FrameType) /\ Len(t) = Len(fs) + Len(s) - 1 /\ DOMAIN t = 1 .. Len(t)
      /\ \A i \in 1 .. Len(fs) : t[i] = fs[i]
      /\ \A i \in 1 .. Len(t) : i > Len(fs) => t[i] = Tail(s)[i - Len(fs)]
  BY <1>2
<1>5. Len(fs) \in Nat /\ DOMAIN fs = 1 .. Len(fs) OBVIOUS
<1> HIDE DEF t, s
<1>6. ASSUME NEW i \in DOMAIN t, i \notin DOMAIN fs
      PROVE  /\ i - Len(fs) + 1 \in DOMAIN s /\ i - Len(fs) + 1 > 1
             /\ t[i] = s[i - Len(fs) + 1]
  BY <1>1, <1>2, <1>4, <1>5, <1>6
<1>7. ASSUME NEW j \in DOMAIN s, j > 1
      PROVE  j + Len(fs) - 1 \in DOMAIN t /\ t[j + Len(fs) - 1] = s[j]
  <2>1. /\ j + Len(fs) - 1 \in 1 .. Len(t) /\ j + Len(fs) - 1 > Len(fs)
        /\ j + Len(fs) - 1 - Len(fs) = j - 1 /\ j - 1 \in 1 .. (Len(s) - 1) /\ j - 1 + 1 = j
    BY <1>1, <1>4, <1>5, <1>7
  <2>2. t[j + Len(fs) - 1] = Tail(s)[j - 1] BY SMTT(30), <1>4, <2>1
  <2>3. Tail(s)[j - 1] = s[j] BY <1>2, <2>1
  <2>4. DOMAIN t = 1 .. Len(t) BY <1>4
  <2> QED BY <2>1, <2>2, <2>3, <2>4
<1>8. \A k \in DOMAIN fs : k \in DOMAIN t /\ t[k] = fs[k] BY <1>1, <1>4, <1>5
<1> QED BY <1>3, <1>6, <1>7, <1>8 DEF Moves, s

\* ... returns, ...
LEMMA ReturnMoves ==
  ASSUME Types, NEW p \in Threads, stack[p] # <<>>, Return(p)
  PROVE  Moves(p, 1, <<>>)
<1>1. <<>> \in Seq(FrameType) OBVIOUS
<1> QED BY <1>1, BecomesMoves DEF Return

\* ... or goes on.
LEMMA GotoMoves ==
  ASSUME Types, NEW p \in Threads, stack[p] # <<>>, NEW label \in Labels, Goto(p, label)
  PROVE  Moves(p, 1, <<[Top(p) EXCEPT !.at = label]>>)
<1> DEFINE s == stack[p]
           f == [Top(p) EXCEPT !.at = label]
<1>1. s \in Seq(FrameType) /\ Len(s) \in Nat /\ Len(s) >= 1 /\ DOMAIN s = 1 .. Len(s)
      /\ Top(p) = s[1] /\ s[1] \in FrameType
  BY DEF Types, Top
<1>2. f \in FrameType BY <1>1 DEF FrameType
<1>3. /\ stack'[p] = [s EXCEPT ![1] = f]
      /\ stack' = [stack EXCEPT ![p] = [s EXCEPT ![1] = f]]
  BY <1>1 DEF Types, Goto
<1>4. [s EXCEPT ![1] = f] \in Seq(FrameType) BY <1>1, <1>2
<1>5. stack' \in [Threads -> Seq(FrameType)] BY <1>3, <1>4 DEF Types
<1>6. \A x \in Threads \ {p} : stack'[x] = stack[x] BY <1>3 DEF Types
<1>7. <<f>> \in Seq(FrameType) /\ Len(<<f>>) = 1 /\ DOMAIN <<f>> = {1} /\ <<f>>[1] = f BY <1>2
<1>8. DOMAIN stack'[p] = 1 .. Len(s) /\ stack'[p][1] = f
      /\ \A i \in 1 .. Len(s) : i # 1 => stack'[p][i] = s[i]
  BY <1>1, <1>3
<1> DEFINE fs == <<f>>
<1> HIDE DEF f
<1>9. /\ fs \in Seq(FrameType) /\ Len(fs) = 1 /\ DOMAIN fs = {1} /\ fs[1] = f BY <1>7
<1> HIDE DEF fs
<1>10. \A k \in DOMAIN fs : k \in DOMAIN stack'[p] /\ stack'[p][k] = fs[k] BY <1>1, <1>8, <1>9
<1>11. \A i \in DOMAIN stack'[p] : i \notin DOMAIN fs =>
        /\ i - Len(fs) + 1 \in DOMAIN s /\ i - Len(fs) + 1 > 1
        /\ stack'[p][i] = s[i - Len(fs) + 1]
  BY <1>1, <1>8, <1>9
<1>12. \A j \in DOMAIN s : j > 1 =>
        j + Len(fs) - 1 \in DOMAIN stack'[p] /\ stack'[p][j + Len(fs) - 1] = s[j]
  BY <1>1, <1>8, <1>9
<1>13. Moves(p, 1, fs) BY <1>5, <1>6, <1>9, <1>10, <1>11, <1>12 DEF Moves
<1> QED BY <1>13 DEF fs, f

\* A frame there is now is new or was there.
LEMMA Origin ==
  ASSUME NEW p \in Threads, NEW n, NEW fs, Moves(p, n, fs), NEW x \in Threads,
         NEW i \in DOMAIN stack'[x]
  PROVE  \/ x = p /\ i \in DOMAIN fs /\ stack'[x][i] = fs[i]
         \/ \E j \in DOMAIN stack[x] : (x = p => j > n) /\ stack'[x][i] = stack[x][j]
<1>1. CASE x # p BY <1>1 DEF Moves
<1>2. CASE x = p /\ i \in DOMAIN fs BY <1>2 DEF Moves
<1>3. CASE x = p /\ i \notin DOMAIN fs
  <2>1. /\ i - Len(fs) + n \in DOMAIN stack[p] /\ i - Len(fs) + n > n
        /\ stack'[p][i] = stack[p][i - Len(fs) + n]
    BY <1>3 DEF Moves
  <2> QED BY <1>3, <2>1
<1> QED BY <1>1, <1>2, <1>3

\* A frame that was there, but for those replaced, is there.
LEMMA Survives ==
  ASSUME NEW p \in Threads, NEW n, NEW fs, Moves(p, n, fs), NEW x \in Threads,
         NEW j \in DOMAIN stack[x], x = p => j > n
  PROVE  \E i \in DOMAIN stack'[x] : stack'[x][i] = stack[x][j]
<1>1. CASE x # p BY <1>1 DEF Moves
<1>2. CASE x = p
  <2>1. j + Len(fs) - n \in DOMAIN stack'[p] /\ stack'[p][j + Len(fs) - n] = stack[p][j]
    BY <1>2 DEF Moves
  <2> QED BY <1>2, <2>1
<1> QED BY <1>1, <1>2

-----------------------------------------------------------------------------
(* What a move leaves as it was.                                           *)

\* What is right of a frame stays right while the pool loses only what is taken out
\* under it, and gets only new objects.
LEMMA FrameLater ==
  ASSUME NEW f, NEW pool, NEW taken, NEW now \in Nat, FrameOK(f, pool, taken, now),
         NEW pool2, NEW taken2, NEW now2 \in Nat, now <= now2, taken \subseteq taken2,
         \A o \in pool2 : o \in pool \/ (o \in Objects /\ o.gen > now),
         f.at \in {"each", "createHome"} =>
           \A o \in Range(f.rest) : o \in pool => o \in pool2 \cup taken2
  PROVE  FrameOK(f, pool2, taken2, now2)
<1>1. ShapeOK(f) BY DEF FrameOK
<1>2. \A o \in Objects : o.gen \in Nat BY NumbersAssumption DEF Objects
<1>3. \A o \in Objects : Refers(f, o) => o.gen <= now2 BY <1>2 DEF FrameOK
<1>4. ASSUME f.at \in {"removed", "again", "destroy"} PROVE f.mem \notin pool2
  <2>1. f.mem \in Objects /\ f.mem \notin pool BY <1>1, <1>4 DEF ShapeOK, FrameOK
  <2>2. f.mem.gen <= now BY <2>1 DEF FrameOK, Refers
  <2> QED BY <1>2, <2>1, <2>2
<1>5. f.at = "createHome" \/ (f.at = "each" /\ f.job = "walk") =>
        Range(f.rest) \subseteq pool2 \cup taken2
  BY DEF FrameOK
<1> QED BY <1>1, <1>3, <1>4, <1>5 DEF FrameOK

\* All frames are right if the new ones and those that stay are.
LEMMA MoveFrames ==
  ASSUME NEW p \in Threads, NEW n, NEW fs, Moves(p, n, fs),
         \A k \in DOMAIN fs : FrameOK(fs[k], InPool', shared', events'),
         \A x \in Threads : \A j \in DOMAIN stack[x] :
           (x = p => j > n) => FrameOK(stack[x][j], InPool', shared', events')
  PROVE  FramesInv'
<1> SUFFICES ASSUME NEW x \in Threads, NEW i \in DOMAIN stack'[x]
             PROVE  FrameOK(stack'[x][i], InPool', shared', events')
  BY DEF FramesInv
<1>1. CASE x = p /\ i \in DOMAIN fs /\ stack'[x][i] = fs[i] BY <1>1
<1>2. CASE \E j \in DOMAIN stack[x] : (x = p => j > n) /\ stack'[x][i] = stack[x][j] BY <1>2
<1> QED BY <1>1, <1>2, Origin

\* A pointer is passed on, not multiplied.
LEMMA MoveHolders ==
  ASSUME Types, NEW p \in Threads, NEW n, NEW fs, Moves(p, n, fs), NEW o,
         \A k \in DOMAIN fs : Refers(fs[k], o) => n = 1 /\ stack[p] # <<>> /\ Refers(Top(p), o),
         \A k, l \in DOMAIN fs : Refers(fs[k], o) /\ Refers(fs[l], o) => k = l
  PROVE  /\ OneHolder(stack, o) => OneHolder(stack', o)
         /\ NoHolder(stack, o) => NoHolder(stack', o)
<1>1. stack[p] # <<>> => 1 \in DOMAIN stack[p] /\ Top(p) = stack[p][1] BY DEF Types, Top
<1>2. ASSUME OneHolder(stack, o), NEW x \in Threads, NEW y \in Threads,
             NEW i \in DOMAIN stack'[x], NEW j \in DOMAIN stack'[y],
             Refers(stack'[x][i], o), Refers(stack'[y][j], o)
      PROVE  x = y /\ i = j
  <2>0. /\ Len(fs) \in Nat /\ n \in {0, 1} /\ \A z \in Threads : DOMAIN stack[z] \subseteq Nat
        /\ DOMAIN stack'[x] \subseteq Nat /\ DOMAIN stack'[y] \subseteq Nat
    BY <1>2 DEF Moves, Types
  \* Where an old frame was.
  <2> DEFINE Was(z, l) == IF z = p THEN l - Len(fs) + n ELSE l
             New(z, l) == z = p /\ l \in DOMAIN fs
  <2>1. ASSUME NEW z \in Threads, NEW l \in DOMAIN stack'[z], ~New(z, l)
        PROVE  /\ Was(z, l) \in DOMAIN stack[z] /\ stack'[z][l] = stack[z][Was(z, l)]
               /\ z = p => Was(z, l) > n
    BY <2>1 DEF Moves
  <2>2. ASSUME NEW z \in Threads, NEW l \in DOMAIN stack'[z], New(z, l), Refers(stack'[z][l], o)
        PROVE  z = p /\ l \in DOMAIN fs /\ Refers(fs[l], o)
               /\ n = 1 /\ 1 \in DOMAIN stack[p] /\ Refers(stack[p][1], o)
    BY <1>1, <2>2 DEF Moves
  <2>3. CASE New(x, i) /\ New(y, j) BY <1>2, <2>2, <2>3
  <2>4. CASE New(x, i) /\ ~New(y, j)
    <3>1. n = 1 /\ 1 \in DOMAIN stack[p] /\ Refers(stack[p][1], o) BY <1>2, <2>2, <2>4
    <3>2. /\ Was(y, j) \in DOMAIN stack[y] /\ Refers(stack[y][Was(y, j)], o)
          /\ y = p => Was(y, j) > 1
      BY <1>2, <2>1, <2>4, <3>1
    <3> HIDE DEF Was
    <3> QED BY <1>2, <2>0, <3>1, <3>2 DEF OneHolder
  <2>5. CASE ~New(x, i) /\ New(y, j)
    <3>1. n = 1 /\ 1 \in DOMAIN stack[p] /\ Refers(stack[p][1], o) BY <1>2, <2>2, <2>5
    <3>2. /\ Was(x, i) \in DOMAIN stack[x] /\ Refers(stack[x][Was(x, i)], o)
          /\ x = p => Was(x, i) > 1
      BY <1>2, <2>1, <2>5, <3>1
    <3> HIDE DEF Was
    <3> QED BY <1>2, <2>0, <3>1, <3>2 DEF OneHolder
  <2>6. CASE ~New(x, i) /\ ~New(y, j)
    <3>1. Was(x, i) \in DOMAIN stack[x] /\ Refers(stack[x][Was(x, i)], o) BY <1>2, <2>1, <2>6
    <3>2. Was(y, j) \in DOMAIN stack[y] /\ Refers(stack[y][Was(y, j)], o) BY <1>2, <2>1, <2>6
    <3>3. x = y /\ Was(x, i) = Was(y, j)
      <4> HIDE DEF Was
      <4> QED BY <1>2, <3>1, <3>2 DEF OneHolder
    <3> QED BY <2>0, <3>3
  <2> QED BY <2>3, <2>4, <2>5, <2>6
<1>3. ASSUME NoHolder(stack, o), NEW x \in Threads, NEW i \in DOMAIN stack'[x]
      PROVE  ~Refers(stack'[x][i], o)
  BY <1>1, <1>3, Origin DEF NoHolder
<1> QED BY <1>2, <1>3 DEF OneHolder, NoHolder

\* A step that leaves the pool alone, and takes pointers from it or passes them on.
LEMMA QuietMove ==
  ASSUME IInv, NEW p \in Threads, NEW n, NEW fs, Moves(p, n, fs),
         UNCHANGED <<memories, freed, shared>>, events' \in {events, events + 1},
         \A k \in DOMAIN fs : FrameOK(fs[k], InPool, shared, events),
         \A k \in DOMAIN fs : \A o \in Objects : Refers(fs[k], o) =>
           o \in InPool \/ (n = 1 /\ stack[p] # <<>> /\ Refers(Top(p), o)),
         \A k, l \in DOMAIN fs : \A o \in Objects :
           Refers(fs[k], o) /\ Refers(fs[l], o) => o \in InPool \/ k = l
  PROVE  FramesInv' /\ OwnedInv'
<1> USE DEF IInv
<1>1. InPool' = InPool /\ shared' = shared /\ freed' = freed BY DEF InPool
<1>2. events \in Nat /\ events' \in Nat /\ events <= events'
  BY NumbersAssumption DEF Types, TypeOK
<1>3. ASSUME NEW f, FrameOK(f, InPool, shared, events) PROVE FrameOK(f, InPool', shared', events')
  <2>1. \A o \in Range(f.rest) : o \in InPool => o \in InPool' \cup shared' BY <1>1
  <2>2. \A o \in InPool' : o \in InPool \/ (o \in Objects /\ o.gen > events) BY <1>1
  <2> QED BY <1>1, <1>2, <1>3, <2>1, <2>2, FrameLater
<1>4. FramesInv' BY <1>3, MoveFrames DEF FramesInv
<1>5. ASSUME NEW o \in Objects \ (InPool' \cup shared')
      PROVE  OneHolder(stack', o) /\ (o \in freed' => NoHolder(stack', o))
  <2>1. OneHolder(stack, o) /\ (o \in freed => NoHolder(stack, o)) BY <1>1, <1>5 DEF OwnedInv
  <2>2. /\ \A k \in DOMAIN fs : Refers(fs[k], o) => n = 1 /\ stack[p] # <<>> /\ Refers(Top(p), o)
        /\ \A k, l \in DOMAIN fs : Refers(fs[k], o) /\ Refers(fs[l], o) => k = l
    BY <1>1, <1>5
  <2> QED BY <1>1, <2>1, <2>2, MoveHolders
<1> QED BY <1>4, <1>5 DEF OwnedInv

\* Who is about to take a random memory is not disturbed.
LEMMA QuietRandom ==
  ASSUME IInv, NEW p \in Threads, NEW n, NEW fs, Moves(p, n, fs),
         holder' = holder, mistaken => mistaken',
         Homes # {} => Homes' # {} \/ mistaken' \/ \A x \in Threads \ {p} : ScRemoved(x)',
         \A o \in Objects : consTypes[o] \subseteq consTypes'[o],
         \A k \in DOMAIN fs : fs[k].at # "random",
         n = 1 => /\ stack[p] # <<>> /\ Top(p).at # "random"
                  /\ ~(Top(p).at = "removed" /\ "SC" \in consTypes[Top(p).mem])
  PROVE  RandomInv'
<1> USE DEF IInv
<1>1. stack[p] # <<>> => 1 \in DOMAIN stack[p] /\ Top(p) = stack[p][1] BY DEF Types, Top
<1> SUFFICES ASSUME NEW x \in Threads, NEW i \in DOMAIN stack'[x], stack'[x][i].at = "random"
             PROVE  i = 1 /\ holder' = x /\ (Homes' # {} \/ mistaken' \/ ScRemoved(x)')
  BY DEF RandomInv
<1>2. x # p
  <2> SUFFICES ASSUME x = p PROVE FALSE OBVIOUS
  <2>1. PICK j \in DOMAIN stack[p] : j > n /\ stack[p][j].at = "random" BY Origin
  <2>2. j = 1 BY <2>1 DEF RandomInv
  <2> QED BY <1>1, <2>1, <2>2 DEF Moves
<1>3. stack'[x] = stack[x] BY <1>2 DEF Moves
<1>4. i = 1 /\ holder = x /\ (Homes # {} \/ mistaken \/ ScRemoved(x)) BY <1>3 DEF RandomInv
<1>5. ASSUME ScRemoved(x) PROVE ScRemoved(x)'
  <2>1. PICK y \in Threads \ {x} : \E j \in DOMAIN stack[y] :
          stack[y][j].at = "removed" /\ "SC" \in consTypes[stack[y][j].mem]
    BY <1>5 DEF ScRemoved
  <2>2. PICK j \in DOMAIN stack[y] :
          stack[y][j].at = "removed" /\ "SC" \in consTypes[stack[y][j].mem]
    BY <2>1
  <2>3. y = p => j > n
    <3> SUFFICES ASSUME y = p, ~(j > n) PROVE FALSE OBVIOUS
    <3>1. j \in Nat /\ j >= 1 BY DEF Types
    <3>2. n = 1 /\ j = 1 BY <3>1 DEF Moves
    <3> QED BY <1>1, <2>2, <3>2
  <2>4. PICK k \in DOMAIN stack'[y] : stack'[y][k] = stack[y][j] BY <2>3, Survives
  <2>5. stack[y][j].mem \in Objects BY <2>2 DEF FramesInv, FrameOK, ShapeOK
  <2> QED BY <2>1, <2>2, <2>4, <2>5 DEF ScRemoved
<1> QED BY <1>2, <1>4, <1>5

\* A frame that will give the table its home stays.
LEMMA QuietSc ==
  ASSUME IInv, NEW p \in Threads, NEW n, NEW fs, Moves(p, n, fs),
         known' = known, home' = home, orphan' = orphan, mistaken => mistaken',
         Misplaced(home)' => Misplaced(home),
         \A o \in Objects : consTypes[o] \subseteq consTypes'[o],
         n = 1 => stack[p] # <<>> /\ ~Brings(Top(p), home, consTypes)
  PROVE  ScInv'
<1> SUFFICES ASSUME known', ~mistaken', ~orphan', Misplaced(home)'
             PROVE  \E x \in Threads : \E j \in DOMAIN stack'[x] :
                      Brings(stack'[x][j], home', consTypes')
  BY DEF ScInv
<1>1. Misplaced(home) OBVIOUS
<1>2. PICK x \in Threads : \E i \in DOMAIN stack[x] : Brings(stack[x][i], home, consTypes)
  BY <1>1 DEF IInv, ScInv
<1>3. PICK i \in DOMAIN stack[x] : Brings(stack[x][i], home, consTypes) BY <1>2
<1>4. x = p => i > n
  <2> SUFFICES ASSUME x = p, ~(i > n) PROVE FALSE OBVIOUS
  <2>1. i \in Nat /\ i >= 1 BY DEF IInv, Types
  <2>2. n = 1 /\ i = 1 BY <2>1 DEF Moves
  <2> QED BY <1>3, <2>2 DEF Top, IInv, Types
<1>5. PICK j \in DOMAIN stack'[x] : stack'[x][j] = stack[x][i] BY <1>4, Survives
<1>6. stack[x][i].at = "removed" => stack[x][i].mem \in Objects
  BY DEF IInv, FramesInv, FrameOK, ShapeOK
<1> QED BY <1>3, <1>5, <1>6 DEF Brings

\* Nor is the journal of a memory given up, nor one written to that needs it.
JournaledOn(p, n, fs) ==
  \A o \in Of("SHC") : o.mid \in dirty' =>
    /\ o.mid \in dirty \/ o \in ShcMemory
    /\ n = 1 /\ Journals(Top(p), o) =>
         o \in ShcMemory \/ \E k \in DOMAIN fs : Journals(fs[k], o)

\* So what is to be journaled still is.
LEMMA QuietShc ==
  ASSUME IInv, NEW p \in Threads, NEW n, NEW fs, Moves(p, n, fs), JournaledOn(p, n, fs),
         mistaken => mistaken', Of("SHC")' \subseteq Of("SHC"), ShcMemory' = ShcMemory,
         n = 1 => stack[p] # <<>>
  PROVE  ShcInv'
<1> SUFFICES ASSUME ~mistaken', NEW o \in Of("SHC")', o.mid \in dirty', o \notin ShcMemory
             PROVE  \E x \in Threads : \E j \in DOMAIN stack'[x] : Journals(stack'[x][j], o)
  BY DEF ShcInv
<1>1. o \in Of("SHC") /\ o.mid \in dirty BY DEF JournaledOn
<1>2. PICK x \in Threads : \E i \in DOMAIN stack[x] : Journals(stack[x][i], o)
  BY <1>1 DEF IInv, ShcInv
<1>3. PICK i \in DOMAIN stack[x] : Journals(stack[x][i], o) BY <1>2
<1>4. CASE x = p => i > n BY <1>3, <1>4, Survives
<1>5. CASE x = p /\ ~(i > n)
  <2>1. i \in Nat /\ i >= 1 BY DEF IInv, Types
  <2>2. n = 1 /\ i = 1 BY <1>5, <2>1 DEF Moves
  <2>3. Journals(Top(p), o) BY <1>3, <1>5, <2>2 DEF Top, IInv, Types
  <2>4. PICK k \in DOMAIN fs : Journals(fs[k], o) BY <1>1, <2>2, <2>3 DEF JournaledOn
  <2> QED BY <2>4 DEF Moves
<1> QED BY <1>4, <1>5

\* Who journals a memory still has its list beneath.
LEMMA QuietUnder ==
  ASSUME IInv, NEW p \in Threads, NEW n, NEW fs, Moves(p, n, fs),
         \A k \in DOMAIN fs : JournalConnect(fs[k]) => k + 1 \in DOMAIN fs /\ fs[k + 1].at = "each"
  PROVE  UnderInv'
<1> SUFFICES ASSUME NEW x \in Threads, NEW i \in DOMAIN stack'[x], JournalConnect(stack'[x][i])
             PROVE  i + 1 \in DOMAIN stack'[x] /\ stack'[x][i + 1].at = "each"
  BY DEF UnderInv
<1>1. CASE x # p BY <1>1 DEF Moves, IInv, UnderInv
<1>2. CASE x = p /\ i \in DOMAIN fs BY <1>2 DEF Moves
<1>3. CASE x = p /\ i \notin DOMAIN fs
  <2> DEFINE j == i - Len(fs) + n
  <2>1. j \in DOMAIN stack[p] /\ j > n /\ stack'[p][i] = stack[p][j] BY <1>3 DEF Moves
  <2>2. j + 1 \in DOMAIN stack[p] /\ stack[p][j + 1].at = "each" BY <1>3, <2>1 DEF IInv, UnderInv
  <2>3. i \in Int /\ n \in Int /\ Len(fs) \in Int BY <1>3 DEF Moves
  <2>4. j + 1 + Len(fs) - n = i + 1 /\ j + 1 > n BY <2>1, <2>3
  <2> HIDE DEF j
  <2>5. /\ j + 1 + Len(fs) - n \in DOMAIN stack'[p]
        /\ stack'[p][j + 1 + Len(fs) - n] = stack[p][j + 1]
    BY <2>2, <2>4 DEF Moves
  <2> QED BY <1>3, <2>2, <2>4, <2>5
<1> QED BY <1>1, <1>2, <1>3

\* What table_create has found stays what it was, for a memory keeps its criteria.
LEMMA QuietSought ==
  ASSUME IInv, NEW p \in Threads, NEW n, NEW fs, Moves(p, n, fs),
         \A o \in Objects : consTypes[o] \subseteq consTypes'[o],
         \A k \in DOMAIN fs : Sought(fs[k], consTypes)
  PROVE  SoughtInv'
<1> SUFFICES ASSUME NEW x \in Threads, NEW i \in DOMAIN stack'[x], stack'[x][i].at = "createHome"
             PROVE  \E o \in Range(stack'[x][i].rest) : "SC" \in consTypes'[o]
  BY DEF SoughtInv, Sought
<1> DEFINE f == stack'[x][i]
<1>1. Sought(f, consTypes) BY Origin DEF IInv, SoughtInv
<1>2. f \in FrameType BY DEF Moves
<1>3. Range(f.rest) \subseteq Objects BY <1>2 DEF FrameType, Range
<1> QED BY <1>1, <1>3 DEF Sought

-----------------------------------------------------------------------------
(* The pool, the frames, and the steps that only move a stack.             *)

\* The list has an object once, and none that has been freed.
LEMMA PoolFacts ==
  ASSUME IInv
  PROVE  /\ memories \in Seq(Objects) /\ IsInjective(memories)
         /\ InPool \subseteq Objects \ freed
         /\ \A a, b \in InPool : a.mid = b.mid => a = b
<1>1. memories \in Seq(Objects \ freed) /\ memories \in Seq(Objects) BY DEF IInv, Types, TypeOK
<1>2. InPool \subseteq Objects \ freed BY <1>1 DEF InPool, Range
<1>3. \A i, j \in DOMAIN memories : memories[i].mid = memories[j].mid => i = j
  BY DEF IInv, Types, TypeOK, IsInjective
<1>4. IsInjective(memories) BY <1>3 DEF IsInjective
<1>5. \A a, b \in InPool : a.mid = b.mid => a = b BY <1>3 DEF InPool, Range
<1> QED BY <1>1, <1>2, <1>4, <1>5

\* ShcMemories lists the SHC memories of the pool, and ShcMemory is one of them.
LEMMA ShcFacts ==
  ASSUME IInv
  PROVE  /\ ShcMemories \in Seq(Objects) /\ IsInjective(ShcMemories)
         /\ Range(ShcMemories) = Of("SHC") /\ ShcMemory \subseteq Of("SHC")
<1>1. /\ ShcMemories \in Seq(Objects) /\ IsInjective(ShcMemories)
      /\ Range(ShcMemories) = Range(memories) \cap Of("SHC")
  BY PoolFacts, FilterKeeps DEF ShcMemories
<1>2. Range(ShcMemories) = Of("SHC") BY <1>1 DEF Of, InPool
<1>3. ShcMemories # <<>> => ShcMemories[(Key % Len(ShcMemories)) + 1] \in Range(ShcMemories)
  <2> SUFFICES ASSUME ShcMemories # <<>>
               PROVE  (Key % Len(ShcMemories)) + 1 \in DOMAIN ShcMemories
    BY DEF Range
  <2>1. Len(ShcMemories) \in Nat /\ Len(ShcMemories) > 0
        /\ DOMAIN ShcMemories = 1 .. Len(ShcMemories)
    BY <1>1
  <2>2. Key % Len(ShcMemories) \in 0 .. (Len(ShcMemories) - 1) BY <2>1, NumbersAssumption
  <2> QED BY <2>1, <2>2
<1> QED BY <1>1, <1>2, <1>3 DEF ShcMemory

\* A query goes to a memory of the pool, or nowhere.
LEMMA ChosenFacts ==
  ASSUME IInv, NEW what \in Queries, NEW frames \in Chosen(what)
  PROVE  frames = <<>> \/ \E o \in InPool : frames = <<Frame("connect", what, o, <<>>)>>
<1>1. Candidates(what) \subseteq InPool BY ShcFacts DEF Candidates, Queries, Of
<1> QED BY <1>1 DEF Chosen

\* The top frame is like the others.
LEMMA TopFacts ==
  ASSUME IInv, NEW p \in Threads, stack[p] # <<>>
  PROVE  /\ Top(p) \in FrameType /\ FrameOK(Top(p), InPool, shared, events)
         /\ 1 \in DOMAIN stack[p] /\ Top(p) = stack[p][1]
BY DEF IInv, Types, Top, FramesInv

\* A frame that has no memory, or one of the pool.
LEMMA NewFrame ==
  ASSUME IInv, NEW label \in {"connect", "homeOf", "addTable", "updateSc", "updateShc", "addConsType"},
         NEW job \in Queries \cup Criteria \cup {"none", "journal", "walk"},
         NEW mem \in InPool \cup {NoMemory}, ShapeOK(Frame(label, job, mem, <<>>))
  PROVE  /\ Frame(label, job, mem, <<>>) \in FrameType
         /\ FrameOK(Frame(label, job, mem, <<>>), InPool, shared, events)
         /\ \A o \in Objects : Refers(Frame(label, job, mem, <<>>), o) => o \in InPool
<1> DEFINE f == Frame(label, job, mem, <<>>)
<1>1. f.at = label /\ f.job = job /\ f.mem = mem /\ f.rest = <<>> BY DEF Frame
<1>2. f \in FrameType BY PoolFacts DEF Frame, FrameType, Labels
<1>3. \A o \in Objects : Refers(f, o) => o \in InPool
  BY <1>1, MidsAssumption DEF Refers, Range
<1> HIDE DEF f
<1>4. FrameOK(f, InPool, shared, events)
  BY <1>1, <1>3 DEF FrameOK, IInv, AgesInv, f
<1> QED BY <1>2, <1>3, <1>4 DEF f

\* A frame a quiet step may leave: what it refers to is in the pool, or was its thread's.
Fits(p, n, f) ==
  /\ f \in FrameType /\ FrameOK(f, InPool, shared, events) /\ f.at # "random"
  /\ Sought(f, consTypes)
  /\ \A o \in Objects : Refers(f, o) =>
       o \in InPool \/ (n = 1 /\ stack[p] # <<>> /\ Refers(Top(p), o))

\* What may be replaced without disturbing who takes a random memory.
Ordinary(p, n) ==
  n = 1 => /\ stack[p] # <<>> /\ Top(p).at # "random"
           /\ ~(Top(p).at = "removed" /\ "SC" \in consTypes[Top(p).mem])

\* The SC table stays as it is, and nothing that brings it a home ends.
ScAside(p, n) ==
  /\ known' = known /\ home' = home /\ orphan' = orphan
  /\ n = 1 => Top(p).at # "updateSc"

LEMMA QuietStep ==
  ASSUME IInv, NEW p \in Threads, NEW n, NEW fs, Moves(p, n, fs), Ordinary(p, n),
         UNCHANGED <<memories, freed, shared, mistaken, consTypes, holder, status>>,
         events' \in {events, events + 1}, events' <= MaxEvents,
         dirty' \subseteq Mids, known' \in BOOLEAN, home' \in Mids \cup {NoMemory},
         orphan' \in BOOLEAN,
         \A k \in DOMAIN fs : Fits(p, n, fs[k]),
         \A k, l \in DOMAIN fs : \A o \in Objects :
           Refers(fs[k], o) /\ Refers(fs[l], o) => o \in InPool \/ k = l,
         ScInv' \/ ScAside(p, n), JournaledOn(p, n, fs),
         \A k \in DOMAIN fs : JournalConnect(fs[k]) => k + 1 \in DOMAIN fs /\ fs[k + 1].at = "each"
  PROVE  IInv'
<1>8. UnderInv' BY QuietUnder
<1>9. ScInv'
  <2> SUFFICES ASSUME ScAside(p, n) PROVE ScInv' OBVIOUS
  <2>1. n = 1 => stack[p] # <<>> /\ ~Brings(Top(p), home, consTypes)
    BY DEF ScAside, Ordinary, Brings
  <2>2. Misplaced(home)' => Misplaced(home) BY DEF InPool, Homes, Of, ScAside, Misplaced
  <2> QED BY <2>1, <2>2, QuietSc DEF ScAside
<1>10. ShcInv'
  <2>1. Of("SHC")' = Of("SHC") BY DEF Of, InPool
  <2>2. ShcMemories' = ShcMemories BY <2>1 DEF ShcMemories
  <2>3. ShcMemory' = ShcMemory BY <2>2 DEF ShcMemory
  <2> QED BY <2>1, <2>3, QuietShc DEF Ordinary
<1> USE DEF IInv
<1>1. FramesInv' /\ OwnedInv' BY QuietMove DEF Fits
<1>2. InPool' = InPool /\ Homes' = Homes BY DEF InPool, Homes, Of
<1>3. RandomInv' BY <1>2, QuietRandom DEF Fits, Ordinary
<1>4. events' \in 0 .. MaxEvents BY NumbersAssumption DEF Types, TypeOK
<1>5. stack' \in [Threads -> Seq(FrameType)] BY DEF Moves
<1>6. Types' BY <1>4, <1>5 DEF Types, TypeOK
<1>7. AgesInv'
  <2>1. \A o \in Objects : o.gen \in Nat BY NumbersAssumption DEF Objects
  <2>2. events \in Nat /\ events <= events' /\ events' \in Nat
    BY NumbersAssumption DEF Types, TypeOK
  <2>3. InPool \cup freed \subseteq Objects BY PoolFacts DEF Types, TypeOK
  <2> QED BY <1>2, <2>1, <2>2, <2>3 DEF AgesInv
<1>11. SoughtInv' BY QuietSought DEF Fits
<1> QED BY <1>1, <1>3, <1>6, <1>7, <1>8, <1>9, <1>10, <1>11 DEF NobodyDiesUnlessShared

\* The memory of the top frame is freed only if others had it too.
LEMMA Freed ==
  ASSUME IInv, NEW p \in Threads, stack[p] # <<>>, Top(p).mem \in freed
  PROVE  Top(p).mem \in shared
<1> DEFINE o == Top(p).mem
<1>1. o \in Objects /\ o \notin InPool BY PoolFacts DEF IInv, Types, TypeOK
<1>2. ~NoHolder(stack, o) BY TopFacts DEF NoHolder, Refers
<1> QED BY <1>1, <1>2 DEF IInv, OwnedInv

\* A step that dies of something shared changes nothing else.
LEMMA Deadly == ASSUME IInv, Dies("raced") PROVE IInv'
<1>1. UNCHANGED <<memories, consTypes, freed, known, home, holder, stack, dirty, events, shared,
                  mistaken, orphan>> /\ status' = "raced"
  BY DEF Dies, table, history
<1>2. InPool' = InPool /\ Homes' = Homes BY <1>1 DEF InPool, Homes, Of
<1>3. TypeOK' BY <1>1 DEF IInv, Types, TypeOK
<1>4. Types' BY <1>1, <1>3 DEF IInv, Types
<1>5. FramesInv' /\ AgesInv' BY <1>1, <1>2 DEF IInv, FramesInv, AgesInv
<1>6. OwnedInv' BY <1>1, <1>2 DEF IInv, OwnedInv
<1>7. RandomInv' BY <1>1, <1>2 DEF IInv, RandomInv, ScRemoved
<1>8. Of("SHC")' = Of("SHC") /\ ShcMemory' = ShcMemory
  <2>1. Of("SHC")' = Of("SHC") BY <1>1, <1>2 DEF Of
  <2>2. ShcMemories' = ShcMemories BY <1>1, <2>1 DEF ShcMemories
  <2> QED BY <2>1, <2>2 DEF ShcMemory
<1>9. ScInv' BY <1>1, <1>2 DEF IInv, ScInv, Misplaced
<1>10. ShcInv' /\ UnderInv' /\ SoughtInv'
  BY <1>1, <1>8 DEF IInv, ShcInv, UnderInv, SoughtInv, Sought
<1> QED BY <1>1, <1>4, <1>5, <1>6, <1>7, <1>9, <1>10 DEF IInv, NobodyDiesUnlessShared

\* So whoever uses a freed memory dies of something shared.
LEMMA UsedFreed ==
  ASSUME IInv, NEW p \in Threads, stack[p] # <<>>, Top(p).mem \in freed,
         Dies(IF Top(p).mem \in shared THEN "raced" ELSE "died")
  PROVE  IInv'
BY Freed, Deadly

\* Frames that fit, and share nothing that is not in the pool.
Fitting(p, n, fs) ==
  /\ fs \in Seq(FrameType)
  /\ \A k \in DOMAIN fs : Fits(p, n, fs[k])
  /\ \A k, l \in DOMAIN fs : \A o \in Objects :
       Refers(fs[k], o) /\ Refers(fs[l], o) => o \in InPool \/ k = l
  /\ \A k \in DOMAIN fs : JournalConnect(fs[k]) => k + 1 \in DOMAIN fs /\ fs[k + 1].at = "each"

\* None fits, ...
LEMMA NoFrame == ASSUME NEW p, NEW n PROVE Fitting(p, n, <<>>)
BY DEF Fitting

\* ... one does, ...
LEMMA OneFrame == ASSUME NEW p, NEW n, NEW f, Fits(p, n, f), ~JournalConnect(f)
                 PROVE  Fitting(p, n, <<f>>)
<1>1. <<f>> \in Seq(FrameType) /\ DOMAIN <<f>> = {1} /\ <<f>>[1] = f BY DEF Fits
<1> QED BY <1>1 DEF Fitting

\* ... and two that refer to different memories, the upper of which may journal.
LEMMA TwoFrames ==
  ASSUME NEW p, NEW n, NEW f, NEW g, Fits(p, n, f), Fits(p, n, g),
         \A o \in Objects : Refers(f, o) /\ Refers(g, o) => o \in InPool,
         ~JournalConnect(g), JournalConnect(f) => g.at = "each"
  PROVE  Fitting(p, n, <<f, g>>)
<1> DEFINE fs == <<f, g>>
<1>1. fs \in Seq(FrameType) /\ DOMAIN fs = {1, 2} /\ fs[1] = f /\ fs[2] = g BY DEF Fits
<1> HIDE DEF fs
<1>2. Fitting(p, n, fs) BY <1>1 DEF Fitting
<1> QED BY <1>2 DEF fs

LEMMA FittingStep ==
  ASSUME IInv, NEW p \in Threads, NEW n, NEW fs, Fitting(p, n, fs),
         Moves(p, n, fs), Ordinary(p, n),
         UNCHANGED <<memories, freed, shared, mistaken, consTypes, holder, status>>,
         events' \in {events, events + 1}, events' <= MaxEvents,
         dirty' \subseteq Mids, known' \in BOOLEAN, home' \in Mids \cup {NoMemory},
         orphan' \in BOOLEAN, ScInv' \/ ScAside(p, n), JournaledOn(p, n, fs)
  PROVE  IInv'
BY QuietStep DEF Fitting

\* The variables a step leaves as they are.
LEMMA RestTyped ==
  ASSUME IInv
  PROVE  /\ events <= MaxEvents /\ dirty \subseteq Mids /\ known \in BOOLEAN
         /\ home \in Mids \cup {NoMemory} /\ orphan \in BOOLEAN
BY NumbersAssumption DEF IInv, Types, TypeOK

-----------------------------------------------------------------------------
(* The actions.                                                            *)

\* What the query goes to connect to is in the pool.
LEMMA ChosenFits ==
  ASSUME IInv, NEW p \in Threads, NEW n, NEW what \in Queries, NEW frames \in Chosen(what)
  PROVE  Fitting(p, n, frames)
<1>1. CASE frames = <<>> BY <1>1, NoFrame
<1>2. CASE frames # <<>>
  <2>1. PICK o \in InPool : frames = <<Frame("connect", what, o, <<>>)>> BY <1>2, ChosenFacts
  <2> DEFINE f == Frame("connect", what, o, <<>>)
  <2>2. ShapeOK(f) BY PoolFacts DEF ShapeOK, Frame
  <2>3. Fits(p, n, f) BY <2>2, NewFrame DEF Fits, Frame, Sought
  <2>4. ~JournalConnect(f) BY DEF JournalConnect, Frame, Queries
  <2> QED BY <2>1, <2>3, <2>4, OneFrame
<1> QED BY <1>1, <1>2

LEMMA BeginStep == ASSUME IInv, NEW p \in Threads, Begin(p) PROVE IInv'
<1>0. PICK what \in Queries : \E frames \in Chosen(what) : Execute(p, frames) BY DEF Begin
<1>1. PICK frames \in Chosen(what) : Execute(p, frames) BY <1>0
<1>2. Fitting(p, 0, frames) BY ChosenFits
<1>3. Moves(p, 0, frames) BY <1>1, <1>2, ExecuteMoves DEF Fitting, IInv
<1>4. ScAside(p, 0) /\ JournaledOn(p, 0, frames) BY DEF Begin, ScAside, JournaledOn, table, history
<1> QED BY <1>2, <1>3, <1>4, FittingStep, RestTyped DEF Begin, Ordinary, table, history

LEMMA AnsweredStep == ASSUME IInv, NEW p \in Threads, Answered(p) PROVE IInv'
<1>1. stack[p] # <<>> /\ Top(p).at = "connect" BY DEF Answered, At
<1>2. CASE Top(p).mem \in freed BY <1>1, <1>2, UsedFreed DEF Answered, Using
<1>3. CASE Top(p).mem \notin freed
  <2>1. Moves(p, 1, <<>>) BY <1>1, <1>3, ReturnMoves DEF Answered, Using, IInv
  <2>2. dirty' \subseteq Mids
    <3>1. Top(p).mem \in Objects BY <1>1, TopFacts DEF FrameOK, ShapeOK
    <3>2. Top(p).mem.mid \in Mids BY <3>1 DEF Objects
    <3>3. dirty' \in {dirty, dirty \cup {Top(p).mem.mid}} BY <1>3 DEF Answered, Using
    <3> QED BY <3>2, <3>3, RestTyped
  <2>3. ScAside(p, 1) BY <1>1, <1>3 DEF Answered, Using, ScAside, table, history
  <2>4. JournaledOn(p, 1, <<>>)
    <3>1. \/ dirty' = dirty
          \/ Top(p).mem \in ShcMemory /\ dirty' = dirty \cup {Top(p).mem.mid}
      BY <1>3 DEF Answered, Using
    <3>2. \A o \in Of("SHC") : o.mid \in dirty' => o.mid \in dirty \/ o \in ShcMemory
      BY <3>1, PoolFacts, ShcFacts DEF Of
    <3>3. \A o \in Of("SHC") : ~Journals(Top(p), o)
      BY <1>1 DEF Answered, Journals, JournalConnect
    <3> QED BY <3>2, <3>3 DEF JournaledOn
  <2> QED BY <1>1, <1>3, <2>1, <2>2, <2>3, <2>4, NoFrame, FittingStep, RestTyped
          DEF Answered, Using, Ordinary, table, history
<1> QED BY <1>2, <1>3

\* A frame that goes on with what it has.
LEMMA SameFrame ==
  ASSUME IInv, NEW p \in Threads, stack[p] # <<>>, NEW label \in Labels \ {"random"},
         NEW f, f = [Top(p) EXCEPT !.at = label],
         ShapeOK(f), label \notin {"each", "createHome"},
         label \in {"removed", "again", "destroy"} => Top(p).mem \notin InPool
  PROVE  /\ Fits(p, 1, f)
         /\ f.at = label /\ f.mem = Top(p).mem /\ f.job = Top(p).job /\ f.rest = Top(p).rest
<1>1. Top(p) \in FrameType /\ FrameOK(Top(p), InPool, shared, events) BY TopFacts
<1>2. /\ f \in FrameType /\ f.at = label
      /\ f.mem = Top(p).mem /\ f.job = Top(p).job /\ f.rest = Top(p).rest
  BY <1>1 DEF FrameType
<1>3. \A o : Refers(f, o) <=> Refers(Top(p), o) BY <1>2 DEF Refers
<1>4. FrameOK(f, InPool, shared, events) BY <1>1, <1>2, <1>3 DEF FrameOK
<1> QED BY <1>2, <1>3, <1>4 DEF Fits, Sought

LEMMA TableCreateStep == ASSUME IInv, NEW p \in Threads, TableCreate(p) PROVE IInv'
<1>1. stack[p] # <<>> /\ Top(p).at = "connect" BY DEF TableCreate, At
<1>2. CASE Top(p).mem \in freed BY <1>1, <1>2, UsedFreed DEF TableCreate, Using
<1>3. CASE Top(p).mem \notin freed
  <2> DEFINE rest == Filter(memories, Of("SC"))
             f    == IF Of("SC") = {} THEN Frame("addTable", "any", NoMemory, <<>>)
                     ELSE Frame("createHome", "any", NoMemory, rest)
  <2>1. Becomes(p, <<f>>) BY <1>3 DEF TableCreate, Using
  <2>2. ASSUME Of("SC") = {} PROVE Fitting(p, 1, <<f>>)
    <3> DEFINE g == Frame("addTable", "any", NoMemory, <<>>)
    <3>1. ShapeOK(g) BY DEF ShapeOK, Frame
    <3>2. Fits(p, 1, g) BY <3>1, NewFrame DEF Fits, Frame, Queries, Sought
    <3>3. Fitting(p, 1, <<g>>) BY <3>2, OneFrame DEF JournalConnect, Frame
    <3>4. f = g BY <2>2
    <3> HIDE DEF f, g
    <3> QED BY <3>3, <3>4
  <2>3. ASSUME Of("SC") # {} PROVE Fitting(p, 1, <<f>>)
    <3>1. /\ rest \in Seq(Objects) /\ IsInjective(rest)
          /\ Range(rest) = Range(memories) \cap Of("SC")
      BY PoolFacts, FilterKeeps
    <3>2. Range(rest) \subseteq InPool /\ \E o \in Range(rest) : "SC" \in consTypes[o]
      BY <2>3, <3>1 DEF Of, InPool
    <3> HIDE DEF rest
    <3> DEFINE g == Frame("createHome", "any", NoMemory, rest)
    <3>3. /\ g.at = "createHome" /\ g.job = "any" /\ g.mem = NoMemory /\ g.rest = rest
          /\ g \in FrameType
      BY <3>1 DEF Frame, FrameType, Labels, Queries
    <3>8. f = g BY <2>3
    <3> HIDE DEF f, g
    <3>4. \A o \in Objects : Refers(g, o) => o \in InPool
      BY <3>2, <3>3, MidsAssumption DEF Refers
    <3>5. FrameOK(g, InPool, shared, events)
      BY <3>1, <3>2, <3>3, <3>4 DEF FrameOK, ShapeOK, IInv, AgesInv
    <3>6. Fits(p, 1, g) /\ ~JournalConnect(g)
      BY <3>2, <3>3, <3>4, <3>5 DEF Fits, Sought, JournalConnect
    <3>7. Fitting(p, 1, <<g>>) BY <3>6, OneFrame
    <3> QED BY <3>7, <3>8
  <2> HIDE DEF f
  <2>5. Fitting(p, 1, <<f>>) BY <2>2, <2>3
  <2>6. Moves(p, 1, <<f>>) BY <1>1, <2>1, <2>5, BecomesMoves DEF IInv, Fitting
  <2>7. ScAside(p, 1) /\ JournaledOn(p, 1, <<f>>)
    BY <1>1, <1>3
       DEF TableCreate, Using, ScAside, JournaledOn, Journals, JournalConnect, table, history
  <2> QED BY <1>1, <1>3, <2>5, <2>6, <2>7, FittingStep, RestTyped
          DEF TableCreate, Using, Ordinary, table, history
<1> QED BY <1>2, <1>3

LEMMA RandomHomeStep == ASSUME IInv, NEW p \in Threads, RandomHome(p) PROVE IInv'
<1>1. stack[p] # <<>> /\ Top(p).at = "createHome" BY DEF RandomHome, At
<1>2. CASE Of("SC") = {}
  <2>1. PICK o \in Range(Top(p).rest) : "SC" \in consTypes[o]
    BY <1>1, TopFacts DEF IInv, SoughtInv, Sought
  <2>2. o \in InPool \cup shared BY <1>1, TopFacts DEF FrameOK
  <2>3. o \in shared BY <1>2, <2>1, <2>2 DEF Of
  <2> QED BY <1>2, <2>3, Deadly DEF RandomHome
<1>3. CASE Of("SC") # {}
  <2>1. PICK o \in Of("SC") : Becomes(p, <<Frame("homeOf", "any", o, <<>>)>>)
    BY <1>3 DEF RandomHome
  <2> DEFINE f == Frame("homeOf", "any", o, <<>>)
  <2>2. o \in InPool BY DEF Of
  <2>3. ShapeOK(f) BY <2>2, PoolFacts DEF ShapeOK, Frame
  <2>4. Fits(p, 1, f) BY <2>2, <2>3, NewFrame DEF Fits, Frame, Queries, Sought
  <2>5. Fitting(p, 1, <<f>>) BY <2>4, OneFrame DEF JournalConnect, Frame
  <2>6. Moves(p, 1, <<f>>) BY <1>1, <2>1, <2>5, BecomesMoves DEF IInv, Fitting
  <2>7. ScAside(p, 1) /\ JournaledOn(p, 1, <<f>>)
    BY <1>1, <1>3
       DEF RandomHome, ScAside, JournaledOn, Journals, JournalConnect, table, history
  <2> QED BY <1>1, <1>3, <2>5, <2>6, <2>7, FittingStep, RestTyped
          DEF RandomHome, Ordinary, table, history
<1> QED BY <1>2, <1>3

LEMMA HomeOfStep == ASSUME IInv, NEW p \in Threads, HomeOf(p) PROVE IInv'
<1>1. stack[p] # <<>> /\ Top(p).at = "homeOf" BY DEF HomeOf, At
<1>2. CASE Top(p).mem \in freed BY <1>1, <1>2, UsedFreed DEF HomeOf, Using
<1>3. CASE Top(p).mem \notin freed
  <2> DEFINE f == [Top(p) EXCEPT !.at = "addTable"]
  <2>1. Top(p).rest = <<>> BY <1>1, TopFacts DEF FrameOK, ShapeOK
  <2>2. f.at = "addTable" /\ f.rest = Top(p).rest BY <1>1, TopFacts DEF FrameType
  <2>3. ShapeOK(f) BY <2>1, <2>2 DEF ShapeOK
  <2>4. Fits(p, 1, f) BY <1>1, <2>3, SameFrame DEF Labels
  <2>5. ~JournalConnect(f) BY <2>2 DEF JournalConnect
  <2>6. Moves(p, 1, <<f>>) BY <1>1, <1>3, GotoMoves DEF HomeOf, Using, Labels, IInv
  <2> HIDE DEF f
  <2>7. Fitting(p, 1, <<f>>) BY <2>4, <2>5, OneFrame
  <2>8. ScAside(p, 1) /\ JournaledOn(p, 1, <<f>>)
    BY <1>1, <1>3
       DEF HomeOf, Using, ScAside, JournaledOn, Journals, JournalConnect, table, history
  <2> QED BY <1>1, <1>3, <2>6, <2>7, <2>8, FittingStep, RestTyped
          DEF HomeOf, Using, Ordinary, table, history
<1> QED BY <1>2, <1>3

LEMMA AddTableStep == ASSUME IInv, NEW p \in Threads, AddTable(p) PROVE IInv'
<1>1. stack[p] # <<>> /\ Top(p).at = "addTable" BY DEF AddTable, At
<1>2. Moves(p, 1, <<>>) BY <1>1, ReturnMoves DEF AddTable, IInv
<1>3. home' \in Mids \cup {NoMemory}
  <2>1. Top(p) \in FrameType BY <1>1, TopFacts
  <2>2. Top(p).mem \in Objects \cup {NoMemory} BY <2>1 DEF FrameType
  <2>3. \A o \in Objects : o.mid \in Mids BY DEF Objects
  <2> QED BY <2>2, <2>3, RestTyped DEF AddTable
<1>4. orphan' \in BOOLEAN BY RestTyped DEF AddTable, Misplaced
<1>5. ScInv' \/ ScAside(p, 1)
  <2>1. CASE known BY <1>1, <2>1 DEF AddTable, ScAside
  <2>2. CASE ~known
    <3>1. Homes' = Homes /\ orphan' = Misplaced(home')
      BY <2>2 DEF AddTable, Homes, Of, InPool
    <3> QED BY <3>1 DEF ScInv, Misplaced
  <2> QED BY <2>1, <2>2
<1>6. JournaledOn(p, 1, <<>>) BY <1>1 DEF AddTable, JournaledOn, Journals, JournalConnect
<1> QED BY <1>1, <1>2, <1>3, <1>4, <1>5, <1>6, NoFrame, FittingStep, RestTyped
        DEF AddTable, Ordinary

LEMMA NothingToAddStep == ASSUME IInv, NEW p \in Threads, NothingToAdd(p) PROVE IInv'
<1>1. stack[p] # <<>> /\ Top(p).at = "connect" BY DEF NothingToAdd, At
<1>2. CASE Top(p).mem \in freed BY <1>1, <1>2, UsedFreed DEF NothingToAdd, Using
<1>3. CASE Top(p).mem \notin freed
  <2>1. Moves(p, 1, <<>>) BY <1>1, <1>3, ReturnMoves DEF NothingToAdd, Using, IInv
  <2>2. ScAside(p, 1) /\ JournaledOn(p, 1, <<>>)
    BY <1>1, <1>3
       DEF NothingToAdd, Using, ScAside, JournaledOn, Journals, JournalConnect, table, history
  <2> QED BY <1>1, <1>3, <2>1, <2>2, NoFrame, FittingStep, RestTyped
          DEF NothingToAdd, Using, Ordinary, table, history
<1> QED BY <1>2, <1>3

LEMMA JournaledStep == ASSUME IInv, NEW p \in Threads, Journaled(p) PROVE IInv'
<1>1. stack[p] # <<>> /\ Top(p).at = "connect" BY DEF Journaled, At
<1>2. CASE Top(p).mem \in freed BY <1>1, <1>2, UsedFreed DEF Journaled, Using
<1>3. CASE Top(p).mem \notin freed
  <2>1. Moves(p, 1, <<>>) BY <1>1, <1>3, ReturnMoves DEF Journaled, Using, IInv
  <2>2. dirty' \subseteq Mids BY <1>3, RestTyped DEF Journaled, Using
  <2>3. ScAside(p, 1) BY <1>1, <1>3 DEF Journaled, Using, ScAside, table, history
  <2>4. JournaledOn(p, 1, <<>>)
    <3>1. dirty' = dirty \ {Top(p).mem.mid} BY <1>3 DEF Journaled, Using
    <3> QED BY <1>1, <3>1 DEF JournaledOn, Journals, JournalConnect
  <2> QED BY <1>1, <1>3, <2>1, <2>2, <2>3, <2>4, NoFrame, FittingStep, RestTyped
          DEF Journaled, Using, Ordinary, table, history
<1> QED BY <1>2, <1>3

\* Two frames, put together.
LEMMA Pair == ASSUME NEW T, NEW f \in T, NEW g \in T PROVE <<f>> \o <<g>> = <<f, g>>
<1> DEFINE a == <<f>> \o <<g>>
           b == <<f, g>>
<1>1. a \in Seq(T) /\ Len(a) = 2 /\ a[1] = f /\ a[2] = g OBVIOUS
<1>2. b \in Seq(T) /\ Len(b) = 2 /\ b[1] = f /\ b[2] = g OBVIOUS
<1> HIDE DEF a, b
<1>3. DOMAIN a = {1, 2} /\ DOMAIN b = {1, 2} BY <1>1, <1>2
<1>4. a = [i \in DOMAIN a |-> a[i]] /\ b = [i \in DOMAIN b |-> b[i]] BY <1>1, <1>2
<1>5. a = b BY <1>1, <1>2, <1>3, <1>4
<1> QED BY <1>5 DEF a, b

LEMMA AgainStep == ASSUME IInv, NEW p \in Threads, Again(p) PROVE IInv'
<1>1. stack[p] # <<>> /\ Top(p).at = "again" BY DEF Again, At
<1>2. /\ Top(p).job \in Queries /\ Top(p).mem \in Objects /\ Top(p).mem \notin InPool
      /\ Top(p).rest = <<>>
  BY <1>1, TopFacts DEF FrameOK, ShapeOK
<1> DEFINE g == [Top(p) EXCEPT !.at = "destroy"]
<1>3. PICK frames \in Chosen(Top(p).job) : Becomes(p, frames \o <<g>>) BY DEF Again
<1>4. Fits(p, 1, g)
  <2>1. g.at = "destroy" /\ g.mem = Top(p).mem /\ g.rest = Top(p).rest
    BY <1>1, TopFacts DEF FrameType
  <2>2. ShapeOK(g) BY <1>2, <2>1 DEF ShapeOK
  <2> HIDE DEF g
  <2> QED BY <1>1, <1>2, <2>2, SameFrame DEF Labels, g
<1>7. ~JournalConnect(g)
  <2>1. g.at = "destroy" BY <1>1, TopFacts DEF FrameType
  <2> QED BY <2>1 DEF JournalConnect
<1>5. Fitting(p, 1, frames \o <<g>>)
  <2> HIDE DEF g
  <2>1. CASE frames = <<>>
    <3>1. frames \o <<g>> = <<g>> BY <1>4, <2>1 DEF Fits
    <3> QED BY <1>4, <1>7, <3>1, OneFrame
  <2>2. CASE frames # <<>>
    <3>1. PICK o \in InPool : frames = <<Frame("connect", Top(p).job, o, <<>>)>>
      BY <1>2, <2>2, ChosenFacts
    <3> DEFINE f == Frame("connect", Top(p).job, o, <<>>)
    <3>2. ShapeOK(f) BY <1>2, PoolFacts DEF ShapeOK, Frame
    <3>3. Fits(p, 1, f) /\ \A b \in Objects : Refers(f, b) => b \in InPool
      BY <1>2, <3>2, NewFrame DEF Fits, Frame, Sought
    <3>4. frames = <<f>> BY <3>1
    <3>6. ~JournalConnect(f) BY <1>2 DEF JournalConnect, Frame, Queries
    <3> HIDE DEF f
    <3>5. frames \o <<g>> = <<f, g>> BY <1>4, <3>3, <3>4, Pair DEF Fits
    <3> QED BY <1>4, <1>7, <3>3, <3>5, <3>6, TwoFrames
  <2> QED BY <2>1, <2>2
<1>6. Moves(p, 1, frames \o <<g>>) BY <1>1, <1>3, <1>5, BecomesMoves DEF Fitting, IInv
<1>8. ScAside(p, 1) /\ JournaledOn(p, 1, frames \o <<g>>)
  BY <1>1 DEF Again, ScAside, JournaledOn, Journals, JournalConnect, table, history
<1> QED BY <1>1, <1>5, <1>6, <1>8, FittingStep, RestTyped DEF Again, Ordinary, table, history

\* While MUTEX_TABLES is free nobody is about to take a random memory.
LEMMA NobodyRandom ==
  ASSUME IInv, holder = NoMemory, NEW x \in Threads, NEW i \in DOMAIN stack[x]
  PROVE  stack[x][i].at # "random"
BY MidsAssumption DEF IInv, RandomInv

\* A step that leaves all but the tables and a stack.
LEMMA TableStep ==
  ASSUME IInv, NEW p \in Threads, NEW n, NEW fs, Moves(p, n, fs),
         UNCHANGED <<memories, consTypes, freed, dirty, status, events, shared, mistaken>>,
         known' \in BOOLEAN, home' \in Mids \cup {NoMemory}, orphan' \in BOOLEAN,
         holder' \in Threads \cup {NoMemory},
         \A k \in DOMAIN fs : FrameOK(fs[k], InPool, shared, events),
         \A k \in DOMAIN fs : \A o \in Objects : Refers(fs[k], o) =>
           o \in InPool \/ (n = 1 /\ stack[p] # <<>> /\ Refers(Top(p), o)),
         \A k, l \in DOMAIN fs : \A o \in Objects :
           Refers(fs[k], o) /\ Refers(fs[l], o) => o \in InPool \/ k = l,
         n = 1 => stack[p] # <<>>, JournaledOn(p, n, fs),
         \A k \in DOMAIN fs : ~JournalConnect(fs[k]),
         \A k \in DOMAIN fs : Sought(fs[k], consTypes),
         RandomInv', ScInv'
  PROVE  IInv'
<1>6. UnderInv' BY QuietUnder
<1>8. SoughtInv' BY QuietSought
<1>7. ShcInv'
  <2>1. Of("SHC")' = Of("SHC") BY DEF Of, InPool
  <2>2. ShcMemories' = ShcMemories BY <2>1 DEF ShcMemories
  <2>3. ShcMemory' = ShcMemory BY <2>2 DEF ShcMemory
  <2> QED BY <2>1, <2>3, QuietShc
<1> USE DEF IInv
<1>1. FramesInv' /\ OwnedInv' BY QuietMove
<1>2. InPool' = InPool BY DEF InPool
<1>3. stack' \in [Threads -> Seq(FrameType)] BY DEF Moves
<1>4. Types' BY <1>3 DEF Types, TypeOK
<1>5. AgesInv' BY <1>2 DEF AgesInv
<1> QED BY <1>1, <1>4, <1>5, <1>6, <1>7, <1>8 DEF NobodyDiesUnlessShared

LEMMA IfScStep == ASSUME IInv, NEW p \in Threads, IfSc(p) PROVE IInv'
<1>1. stack[p] # <<>> /\ Top(p).at = "removed" BY DEF IfSc, At
<1>2. CASE Top(p).mem \in freed BY <1>1, <1>2, UsedFreed DEF IfSc, Using
<1>3. CASE Top(p).mem \notin freed
  <2> DEFINE label == IF Top(p).job \in Queries THEN "again" ELSE "destroy"
             f     == [Top(p) EXCEPT !.at = label]
             u     == Frame("updateSc", "none", NoMemory, <<>>)
  <2>1. /\ Top(p).mem \in Objects /\ Top(p).mem \notin InPool /\ Top(p).rest = <<>>
    BY <1>1, TopFacts DEF FrameOK, ShapeOK
  <2>2. label \in {"again", "destroy"} /\ (label = "again" => Top(p).job \in Queries) OBVIOUS
  <2>3. f.at = label /\ f.mem = Top(p).mem /\ f.rest = Top(p).rest /\ f.job = Top(p).job
    BY <1>1, TopFacts DEF FrameType
  <2> HIDE DEF label
  <2>4. ShapeOK(f) BY <2>1, <2>2, <2>3 DEF ShapeOK
  <2>5. Fits(p, 1, f) BY <1>1, <2>1, <2>2, <2>4, SameFrame DEF Labels
  <2> HIDE DEF f
  <2>6. CASE "SC" \in consTypes[Top(p).mem]
    <3>1. /\ holder = NoMemory /\ home' = IF home = Top(p).mem.mid THEN NoMemory ELSE home
          /\ Becomes(p, <<u, f>>)
          /\ UNCHANGED <<memories, consTypes, freed, known, holder, dirty, status, events, history>>
      BY <1>3, <2>6 DEF IfSc, Using, f, label
    <3>2. ShapeOK(u) BY DEF ShapeOK, Frame
    <3>3. Fits(p, 1, u) BY <3>2, NewFrame DEF Fits, Frame, Sought
    <3>4. \A o \in Objects : ~Refers(u, o) BY MidsAssumption DEF Refers, Frame, Range
    <3>5. Fitting(p, 1, <<u, f>>)
      <4>1. ~JournalConnect(f) /\ ~JournalConnect(u) BY <2>2, <2>3 DEF JournalConnect, Frame
      <4> HIDE DEF u
      <4> QED BY <2>5, <3>3, <3>4, <4>1, TwoFrames
    <3> DEFINE fs == <<u, f>>
    <3>6. Moves(p, 1, fs) BY <1>1, <3>1, <3>5, BecomesMoves DEF IInv, Fitting
    <3>7. \A k \in DOMAIN fs : Fits(p, 1, fs[k]) BY <3>5 DEF Fitting
    <3>8. \A k, l \in DOMAIN fs : \A o \in Objects :
            Refers(fs[k], o) /\ Refers(fs[l], o) => o \in InPool \/ k = l
      BY <3>5 DEF Fitting
    <3>12. 1 \in DOMAIN fs /\ fs[1].at = "updateSc" BY DEF Frame
    <3>13. \A k \in DOMAIN fs : ~JournalConnect(fs[k]) BY <2>2, <2>3 DEF JournalConnect, Frame
    <3> HIDE DEF fs, u
    <3>9. RandomInv'
      <4> SUFFICES ASSUME NEW x \in Threads, NEW i \in DOMAIN stack'[x]
                   PROVE  stack'[x][i].at # "random"
        BY DEF RandomInv
      <4> QED BY <3>1, <3>6, <3>7, NobodyRandom, Origin DEF Fits
    <3>10. home' \in Mids \cup {NoMemory} BY <3>1, RestTyped
    <3>11. holder' \in Threads \cup {NoMemory} BY <3>1
    <3>14. JournaledOn(p, 1, fs)
      BY <1>1, <3>1 DEF JournaledOn, Journals, JournalConnect
    <3>15. ScInv'
      <4>1. CASE home' = NoMemory
        <5>1. 1 \in DOMAIN stack'[p] /\ stack'[p][1].at = "updateSc" BY <3>6, <3>12 DEF Moves
        <5> QED BY <4>1, <5>1 DEF ScInv, Brings
      <4>2. CASE home' # NoMemory
        <5>1. home' = home /\ home # Top(p).mem.mid BY <3>1, <4>2
        <5>2. ~Brings(Top(p), home, consTypes) BY <4>2, <5>1 DEF Brings
        <5>3. Misplaced(home)' => Misplaced(home) BY <3>1, <5>1 DEF Homes, Of, InPool, Misplaced
        <5> QED BY <1>1, <3>1, <3>6, <5>1, <5>2, <5>3, QuietSc DEF history
      <4> QED BY <4>1, <4>2
    <3>16. /\ \A k \in DOMAIN fs : FrameOK(fs[k], InPool, shared, events)
           /\ \A k \in DOMAIN fs : Sought(fs[k], consTypes)
           /\ \A k \in DOMAIN fs : \A o \in Objects : Refers(fs[k], o) =>
                o \in InPool \/ (1 = 1 /\ stack[p] # <<>> /\ Refers(Top(p), o))
      BY <1>1, <3>7 DEF Fits
    <3> QED BY <1>1, <3>1, <3>6, <3>8, <3>9, <3>10, <3>11, <3>13, <3>14, <3>15, <3>16, TableStep,
               RestTyped DEF history
  <2>7. CASE "SC" \notin consTypes[Top(p).mem]
    <3>1. /\ Becomes(p, <<f>>)
          /\ UNCHANGED <<memories, consTypes, freed, known, home, holder, dirty, status, events,
                         history>>
      BY <1>3, <2>7 DEF IfSc, Using, f, label
    <3>4. ~JournalConnect(f) BY <2>2, <2>3 DEF JournalConnect
    <3>2. Fitting(p, 1, <<f>>) BY <2>5, <3>4, OneFrame
    <3>3. Moves(p, 1, <<f>>) BY <1>1, <3>1, <3>2, BecomesMoves DEF IInv, Fitting
    <3>5. ScAside(p, 1) /\ JournaledOn(p, 1, <<f>>)
      BY <1>1, <3>1 DEF ScAside, JournaledOn, Journals, JournalConnect, history
    <3> QED BY <1>1, <2>7, <3>1, <3>2, <3>3, <3>5, FittingStep, RestTyped DEF Ordinary, history
  <2> QED BY <2>6, <2>7
<1> QED BY <1>2, <1>3

LEMMA UpdateScStep == ASSUME IInv, NEW p \in Threads, UpdateSc(p) PROVE IInv'
<1>1. stack[p] # <<>> /\ Top(p).at = "updateSc" /\ holder = NoMemory BY DEF UpdateSc, At
<1>2. CASE known /\ home = NoMemory /\ Of("SC") # {}
  <2> DEFINE f  == [Top(p) EXCEPT !.at = "random"]
             fs == <<f>>
  <2>1. Moves(p, 1, fs) BY <1>1, <1>2, GotoMoves DEF UpdateSc, Labels, IInv
  <2>2. f.at = "random" /\ f.mem = Top(p).mem /\ f.rest = Top(p).rest
    BY <1>1, TopFacts DEF FrameType
  <2>3. /\ DOMAIN fs = {1} /\ fs[1] = f OBVIOUS
  <2> HIDE DEF f
  <2>4. \A o : Refers(f, o) <=> Refers(Top(p), o) BY <2>2 DEF Refers
  <2>5. FrameOK(f, InPool, shared, events)
    BY <1>1, <2>2, <2>4, TopFacts DEF FrameOK, ShapeOK
  <2> HIDE DEF fs
  <2>6. Homes' # {} /\ holder' = p
    <3>1. Of("SC")' = Of("SC") BY DEF UpdateSc, Of, InPool
    <3> QED BY <1>2, <3>1 DEF UpdateSc, Homes
  <2>7. RandomInv'
    <3> SUFFICES ASSUME NEW x \in Threads, NEW i \in DOMAIN stack'[x], stack'[x][i].at = "random"
                 PROVE  i = 1 /\ holder' = x
      BY <2>6 DEF RandomInv
    <3>1. x = p /\ i \in DOMAIN fs BY <1>1, <2>1, NobodyRandom, Origin
    <3> QED BY <2>3, <2>6, <3>1
  <2>8. UNCHANGED <<memories, consTypes, freed, known, home, dirty, status, events, shared,
                    mistaken, orphan>>
    BY DEF UpdateSc, table, history
  <2>9. ScInv'
    <3>1. 1 \in DOMAIN stack'[p] /\ stack'[p][1].at = "random" BY <2>1, <2>2, <2>3 DEF Moves
    <3> QED BY <1>2, <2>8, <3>1 DEF ScInv, Brings
  <2>10. JournaledOn(p, 1, fs) BY <1>1, <2>8 DEF JournaledOn, Journals, JournalConnect
  <2>11. \A k \in DOMAIN fs : ~JournalConnect(fs[k]) /\ Sought(fs[k], consTypes)
    BY <2>2, <2>3 DEF JournalConnect, Sought
  <2> QED BY <1>1, <2>1, <2>3, <2>4, <2>5, <2>6, <2>7, <2>8, <2>9, <2>10, <2>11,
             TableStep, RestTyped
<1>3. CASE ~(known /\ home = NoMemory /\ Of("SC") # {})
  <2>1. Moves(p, 1, <<>>) BY <1>1, <1>3, ReturnMoves DEF UpdateSc, IInv
  <2> DEFINE fs == <<>>
  <2>2. Fitting(p, 1, fs) /\ Moves(p, 1, fs) BY <2>1, NoFrame
  <2> HIDE DEF fs
  <2>3. UNCHANGED <<memories, consTypes, freed, known, home, holder, dirty, status, events, shared,
                    mistaken, orphan>>
    BY <1>3 DEF UpdateSc, table, history
  <2>4. JournaledOn(p, 1, fs) BY <1>1, <2>3 DEF JournaledOn, Journals, JournalConnect
  <2>5. Homes' = Homes BY <2>3 DEF Homes, Of, InPool
  <2>6. ScInv'
    <3>1. CASE ~known BY <2>3, <3>1 DEF ScInv
    <3>2. CASE home # NoMemory
      <4>1. ~Brings(Top(p), home, consTypes) BY <1>1, <3>2 DEF Brings
      <4>2. Misplaced(home)' => Misplaced(home) BY <2>3, <2>5 DEF Misplaced
      <4> QED BY <1>1, <2>2, <2>3, <4>1, <4>2, QuietSc
    <3>3. CASE home = NoMemory /\ Of("SC") = {}
      <4>1. Homes' = {} BY <2>5, <3>3 DEF Homes
      <4> QED BY <2>3, <3>3, <4>1 DEF ScInv, Misplaced
    <3> QED BY <1>3, <3>1, <3>2, <3>3
  <2> QED BY <1>1, <2>2, <2>3, <2>4, <2>6, FittingStep, RestTyped DEF Ordinary
<1> QED BY <1>2, <1>3

LEMMA RandomScMemoryStep == ASSUME IInv, NEW p \in Threads, RandomScMemory(p) PROVE IInv'
<1>1. stack[p] # <<>> /\ Top(p).at = "random" BY DEF RandomScMemory, At
<1>2. holder = p /\ (Homes # {} \/ mistaken \/ ScRemoved(p))
  BY <1>1, TopFacts DEF IInv, RandomInv
<1>3. CASE Homes = {} BY <1>2, <1>3, Deadly DEF RandomScMemory
<1>4. CASE Homes # {}
  <2>1. /\ home' \in Homes /\ holder' = NoMemory /\ orphan' = FALSE /\ Return(p)
        /\ UNCHANGED <<memories, consTypes, freed, known, dirty, status, events, shared, mistaken>>
    BY <1>4 DEF RandomScMemory
  <2> DEFINE fs == <<>>
  <2>2. Moves(p, 1, fs) BY <1>1, <2>1, ReturnMoves DEF IInv
  <2>3. DOMAIN fs = {} OBVIOUS
  <2> HIDE DEF fs
  <2>4. RandomInv'
    <3> SUFFICES ASSUME NEW x \in Threads, NEW i \in DOMAIN stack'[x], stack'[x][i].at = "random"
                 PROVE  FALSE
      BY DEF RandomInv
    <3>1. PICK j \in DOMAIN stack[x] : (x = p => j > 1) /\ stack[x][j].at = "random"
      BY <2>2, <2>3, Origin
    <3> QED BY <1>2, <3>1 DEF IInv, RandomInv
  <2>5. home' \in Mids
    <3>1. \A o \in InPool : o.mid \in Mids BY PoolFacts DEF Objects
    <3> QED BY <2>1, <3>1 DEF Homes, Of
  <2>6. ScInv'
    <3>1. Homes' = Homes BY <2>1 DEF Homes, Of, InPool
    <3> QED BY <2>1, <2>5, <3>1, MidsAssumption DEF ScInv, Misplaced
  <2>7. JournaledOn(p, 1, fs) BY <1>1, <2>1 DEF JournaledOn, Journals, JournalConnect
  <2> QED BY <1>1, <2>1, <2>2, <2>3, <2>4, <2>5, <2>6, <2>7, TableStep, RestTyped
<1> QED BY <1>3, <1>4

\* The head of a list that has its elements once, and the rest.
LEMMA HeadTail ==
  ASSUME NEW T, NEW s \in Seq(T), s # <<>>, IsInjective(s)
  PROVE  /\ Head(s) \in T /\ Head(s) \in Range(s)
         /\ Tail(s) \in Seq(T) /\ IsInjective(Tail(s)) /\ Range(Tail(s)) \subseteq Range(s)
         /\ Head(s) \notin Range(Tail(s)) /\ Range(s) \subseteq {Head(s)} \cup Range(Tail(s))
<1>1. /\ Len(s) \in Nat /\ Len(s) >= 1 /\ DOMAIN s = 1 .. Len(s)
      /\ Head(s) = s[1] /\ Tail(s) \in Seq(T) /\ DOMAIN Tail(s) = 1 .. (Len(s) - 1)
      /\ \A i \in 1 .. (Len(s) - 1) : Tail(s)[i] = s[i + 1]
  OBVIOUS
<1>2. Head(s) \in T /\ Head(s) \in Range(s) BY <1>1 DEF Range
<1>3. IsInjective(Tail(s)) BY <1>1 DEF IsInjective
<1>4. Range(Tail(s)) \subseteq Range(s) /\ Head(s) \notin Range(Tail(s))
  <2> SUFFICES ASSUME NEW i \in DOMAIN Tail(s) PROVE Tail(s)[i] \in Range(s) /\ Tail(s)[i] # Head(s)
    BY DEF Range
  <2>1. i + 1 \in DOMAIN s /\ Tail(s)[i] = s[i + 1] /\ i + 1 # 1 BY <1>1
  <2> QED BY <1>1, <2>1 DEF Range, IsInjective
<1>5. ASSUME NEW i \in DOMAIN s PROVE s[i] \in {Head(s)} \cup Range(Tail(s))
  <2>1. i = 1 \/ (i - 1 \in DOMAIN Tail(s) /\ Tail(s)[i - 1] = s[i]) BY <1>1
  <2> QED BY <1>1, <2>1 DEF Range
<1> QED BY <1>1, <1>2, <1>3, <1>4, <1>5 DEF Range

\* A new frame that journals, or walks, memories of the pool.
LEMMA EachFits ==
  ASSUME IInv, NEW p \in Threads, NEW n, NEW job \in {"none", "walk"}, NEW rest \in Seq(Objects),
         IsInjective(rest), Range(rest) \subseteq InPool
  PROVE  Fitting(p, n, <<Frame("each", job, NoMemory, rest)>>)
<1> DEFINE f == Frame("each", job, NoMemory, rest)
<1>1. f.at = "each" /\ f.job = job /\ f.mem = NoMemory /\ f.rest = rest BY DEF Frame
<1>2. f \in FrameType BY DEF Frame, FrameType, Labels
<1>3. \A o \in Objects : Refers(f, o) => o \in InPool BY <1>1, MidsAssumption DEF Refers
<1> HIDE DEF f
<1>4. FrameOK(f, InPool, shared, events) BY <1>1, <1>3 DEF FrameOK, ShapeOK, IInv, AgesInv
<1>5. Fits(p, n, f) /\ ~JournalConnect(f)
  BY <1>1, <1>2, <1>3, <1>4 DEF Fits, JournalConnect, Sought
<1> QED BY <1>5, OneFrame DEF f

LEMMA UpdateShcStep == ASSUME IInv, NEW p \in Threads, UpdateShc(p) PROVE IInv'
<1>1. stack[p] # <<>> /\ Top(p).at = "updateShc" BY DEF UpdateShc, At
<1> DEFINE rest == IF Len(ShcMemories) > 1 THEN ShcMemories ELSE <<>>
           fs   == <<Frame("each", "none", NoMemory, rest)>>
<1>2. rest \in Seq(Objects) /\ IsInjective(rest) /\ Range(rest) \subseteq InPool
  BY ShcFacts DEF Of, IsInjective, Range
<1>3. Becomes(p, fs) BY DEF UpdateShc
<1>6. ASSUME NEW o \in Of("SHC") PROVE o \in ShcMemory \/ o \in Range(rest)
  <2>1. /\ Len(ShcMemories) \in Nat /\ DOMAIN ShcMemories = 1 .. Len(ShcMemories)
        /\ Range(ShcMemories) = Of("SHC")
    BY ShcFacts
  <2>2. CASE Len(ShcMemories) > 1 BY <2>1, <2>2
  <2>3. CASE ~(Len(ShcMemories) > 1)
    <3>1. PICK i \in DOMAIN ShcMemories : ShcMemories[i] = o BY <2>1 DEF Range
    <3>2. Len(ShcMemories) = 1 /\ i = 1 /\ ShcMemories # <<>> BY <2>1, <2>3, <3>1
    <3>3. (Key % Len(ShcMemories)) + 1 = 1 BY <3>2, NumbersAssumption
    <3> QED BY <3>1, <3>2, <3>3 DEF ShcMemory
  <2> QED BY <2>2, <2>3
<1> HIDE DEF rest
<1>4. Fitting(p, 1, fs) BY <1>2, EachFits
<1>7. 1 \in DOMAIN fs /\ fs[1].at = "each" /\ fs[1].rest = rest BY DEF Frame
<1> HIDE DEF fs
<1>8. ScAside(p, 1) /\ JournaledOn(p, 1, fs)
  BY <1>1, <1>6, <1>7 DEF UpdateShc, ScAside, JournaledOn, Journals, table, history
<1>5. Moves(p, 1, fs) BY <1>1, <1>3, <1>4, BecomesMoves DEF IInv, Fitting
<1> QED BY <1>1, <1>4, <1>5, <1>8, FittingStep, RestTyped DEF UpdateShc, Ordinary, table, history

LEMMA JournalStep == ASSUME IInv, NEW p \in Threads, Journal(p) PROVE IInv'
<1> DEFINE fs == <<Frame("each", "walk", NoMemory, memories)>>
<1>1. Execute(p, fs) BY DEF Journal
<1>2. Fitting(p, 0, fs) BY PoolFacts, EachFits DEF InPool
<1> HIDE DEF fs
<1>3. Moves(p, 0, fs) BY <1>1, <1>2, ExecuteMoves DEF IInv, Fitting
<1>4. ScAside(p, 0) /\ JournaledOn(p, 0, fs) BY DEF Journal, ScAside, JournaledOn, table, history
<1> QED BY <1>2, <1>3, <1>4, FittingStep, RestTyped DEF Journal, Ordinary, table, history

\* The call of update_shc or update_sc an ADD ends in.
LEMMA UpdatedFits ==
  ASSUME IInv, NEW p \in Threads, NEW n, NEW criterion
  PROVE  LET f == Frame(Updated(criterion), "none", NoMemory, <<>>)
         IN  Fits(p, n, f) /\ ~JournalConnect(f)
<1> DEFINE label == Updated(criterion)
           f     == Frame(label, "none", NoMemory, <<>>)
<1>1. label \in {"updateShc", "updateSc"} BY DEF Updated
<1> HIDE DEF label
<1>2. ShapeOK(f) BY <1>1 DEF ShapeOK, Frame
<1>3. Fits(p, n, f) BY <1>1, <1>2, NewFrame DEF Fits, Frame, Sought
<1>4. ~JournalConnect(f) BY <1>1 DEF JournalConnect, Frame
<1> QED BY <1>3, <1>4 DEF label

LEMMA AddStep ==
  ASSUME IInv, NEW p \in Threads, NEW m \in Mids, NEW criterion \in Criteria, Add(p, m, criterion)
  PROVE  IInv'
<1>1. PICK f : Execute(p, <<f>>) /\ Fits(p, 0, f) /\ ~JournalConnect(f)
  <2>1. CASE \E o \in InPool : o.mid = m
    <3>1. PICK o \in InPool : Execute(p, <<Frame("addConsType", criterion, o, <<>>)>>)
      BY <2>1 DEF Add
    <3> DEFINE g == Frame("addConsType", criterion, o, <<>>)
    <3>2. ShapeOK(g) BY PoolFacts DEF ShapeOK, Frame
    <3>3. Fits(p, 0, g) BY <3>2, NewFrame DEF Fits, Frame, Sought
    <3>4. ~JournalConnect(g) BY DEF JournalConnect, Frame
    <3> QED BY <3>1, <3>3, <3>4
  <2>2. CASE ~ \E o \in InPool : o.mid = m
    <3> DEFINE g == Frame(Updated(criterion), "none", NoMemory, <<>>)
    <3>1. Execute(p, <<g>>) BY <2>2 DEF Add
    <3>2. Fits(p, 0, g) /\ ~JournalConnect(g) BY UpdatedFits
    <3> QED BY <3>1, <3>2
  <2> QED BY <2>1, <2>2
<1>4. Fitting(p, 0, <<f>>) BY <1>1, OneFrame
<1>5. Moves(p, 0, <<f>>) BY <1>1, <1>4, ExecuteMoves DEF IInv, Fitting
<1>6. events' = events + 1 /\ events' <= MaxEvents
  BY NumbersAssumption DEF Add, IInv, Types, TypeOK
<1>7. ScAside(p, 0) /\ JournaledOn(p, 0, <<f>>) BY DEF Add, ScAside, JournaledOn, table, history
<1> QED BY <1>4, <1>5, <1>6, <1>7, FittingStep, RestTyped DEF Add, Ordinary, table, history

LEMMA JournalEachStep == ASSUME IInv, NEW p \in Threads, JournalEach(p) PROVE IInv'
<1> DEFINE f    == Top(p)
           next == [f EXCEPT !.rest = Tail(@)]
           c    == Frame("connect", "journal", Head(f.rest), <<>>)
<1>1. stack[p] # <<>> /\ f.at = "each" BY DEF JournalEach, At
<1>2. /\ f \in FrameType /\ FrameOK(f, InPool, shared, events)
      /\ f.mem = NoMemory /\ f.rest \in Seq(Objects) /\ IsInjective(f.rest)
  BY <1>1, TopFacts DEF FrameOK, ShapeOK, FrameType
<1>3. CASE f.rest # <<>> /\ f.job = "walk" /\ Head(f.rest) \notin InPool
  <2>1. Head(f.rest) \in shared BY <1>1, <1>2, <1>3, HeadTail DEF FrameOK
  <2> QED BY <1>3, <2>1, Deadly DEF JournalEach
<1>4. CASE f.rest = <<>>
  <2>1. Moves(p, 1, <<>>) BY <1>1, <1>4, ReturnMoves DEF JournalEach, IInv
  <2>2. ScAside(p, 1) /\ JournaledOn(p, 1, <<>>)
    BY <1>1, <1>4
       DEF JournalEach, ScAside, JournaledOn, Journals, JournalConnect, Range, table, history
  <2> QED BY <1>1, <1>4, <2>1, <2>2, NoFrame, FittingStep, RestTyped
          DEF JournalEach, Ordinary, table, history
<1>5. CASE f.rest # <<>> /\ ~(f.job = "walk" /\ Head(f.rest) \notin InPool)
  <2> DEFINE o == Head(f.rest)
  <2>1. /\ Becomes(p, <<c, next>>)
        /\ UNCHANGED <<memories, consTypes, freed, table, holder, dirty, status, events, history>>
    BY <1>5 DEF JournalEach
  <2>2. /\ o \in Objects /\ o \in Range(f.rest) /\ Tail(f.rest) \in Seq(Objects)
        /\ IsInjective(Tail(f.rest)) /\ Range(Tail(f.rest)) \subseteq Range(f.rest)
        /\ o \notin Range(Tail(f.rest)) /\ Range(f.rest) \subseteq {o} \cup Range(Tail(f.rest))
    BY <1>2, <1>5, HeadTail
  <2>3. /\ c.at = "connect" /\ c.job = "journal" /\ c.mem = o /\ c.rest = <<>>
        /\ c \in FrameType
    BY <2>2 DEF Frame, FrameType, Labels
  <2>4. /\ next.at = "each" /\ next.job = f.job /\ next.mem = NoMemory
        /\ next.rest = Tail(f.rest) /\ next \in FrameType
    BY <1>1, <1>2, <2>2 DEF FrameType
  <2> HIDE DEF c, next
  <2>5. \A b \in Objects : Refers(c, b) <=> b = o BY <2>3 DEF Refers, Range
  <2>6. \A b \in Objects : Refers(next, b) <=> b \in Range(Tail(f.rest))
    BY <2>4, MidsAssumption DEF Refers
  <2>7. \A b \in Range(f.rest) : Refers(f, b) BY DEF Refers
  <2>8. FrameOK(c, InPool, shared, events)
    BY <1>2, <2>2, <2>3, <2>5, <2>7 DEF FrameOK, ShapeOK
  <2>9. FrameOK(next, InPool, shared, events)
    <3>1. ShapeOK(next) BY <2>2, <2>4 DEF ShapeOK
    <3> QED BY <1>1, <1>2, <2>2, <2>4, <2>6, <2>7, <3>1 DEF FrameOK
  <2>18. Sought(c, consTypes) /\ Sought(next, consTypes) BY <2>3, <2>4 DEF Sought
  <2>10. Fits(p, 1, c) BY <1>1, <2>2, <2>3, <2>5, <2>7, <2>8, <2>18 DEF Fits
  <2>11. Fits(p, 1, next) BY <1>1, <2>2, <2>4, <2>6, <2>7, <2>9, <2>18 DEF Fits
  <2>12. Fitting(p, 1, <<c, next>>)
    <3>1. ~JournalConnect(next) BY <2>4 DEF JournalConnect
    <3> QED BY <2>2, <2>4, <2>5, <2>6, <2>10, <2>11, <3>1, TwoFrames
  <2>13. Moves(p, 1, <<c, next>>) BY <1>1, <2>1, <2>12, BecomesMoves DEF IInv, Fitting
  <2> DEFINE fs == <<c, next>>
  <2>14. 1 \in DOMAIN fs /\ 2 \in DOMAIN fs /\ fs[1] = c /\ fs[2] = next OBVIOUS
  <2>17. Fitting(p, 1, fs) /\ Moves(p, 1, fs) BY <2>12, <2>13
  <2> HIDE DEF fs
  <2>15. ASSUME NEW b, Journals(Top(p), b) PROVE \E k \in DOMAIN fs : Journals(fs[k], b)
    <3>1. b \in Range(f.rest) BY <1>1, <2>15 DEF Journals, JournalConnect
    <3>2. Journals(c, b) \/ Journals(next, b)
      BY <2>2, <2>3, <2>4, <3>1 DEF Journals, JournalConnect
    <3> QED BY <2>14, <3>2
  <2>16. ScAside(p, 1) /\ JournaledOn(p, 1, fs)
    BY <1>1, <2>1, <2>15 DEF ScAside, JournaledOn, table, history
  <2> QED BY <1>1, <2>1, <2>16, <2>17, FittingStep, RestTyped DEF Ordinary, table, history
<1> QED BY <1>3, <1>4, <1>5

LEMMA AddConsTypeStep == ASSUME IInv, NEW p \in Threads, AddConsType(p) PROVE IInv'
<1>1. stack[p] # <<>> /\ Top(p).at = "addConsType" BY DEF AddConsType, At
<1>2. CASE Top(p).mem \in freed BY <1>1, <1>2, UsedFreed DEF AddConsType, Using
<1>3. CASE Top(p).mem \notin freed
  <2> DEFINE o     == Top(p).mem
             label == Updated(Top(p).job)
             f     == Frame(label, "none", NoMemory, <<>>)
             fs    == <<f>>
  <2>1. /\ o \in Objects /\ o.gen <= events /\ Top(p).job \in Criteria /\ Top(p).rest = <<>>
    BY <1>1, TopFacts DEF FrameOK, ShapeOK, Refers
  <2>2. /\ consTypes' = [consTypes EXCEPT ![o] = @ \cup {Top(p).job}]
        /\ Becomes(p, fs)
        /\ UNCHANGED <<memories, freed, known, home, holder, dirty, status, events, shared,
                       mistaken, orphan>>
    BY <1>3, <2>1 DEF AddConsType, Using, table, history
  <2>3. label \in {"updateShc", "updateSc"} BY DEF Updated
  <2>6. Fits(p, 1, f) /\ ~JournalConnect(f) BY UpdatedFits
  <2> HIDE DEF label
  <2>4. f.at = label BY DEF Frame
  <2>8. Fitting(p, 1, fs)
    <3> HIDE DEF f
    <3> QED BY <2>6, OneFrame
  <2>7. Moves(p, 1, fs) BY <1>1, <2>2, <2>8, BecomesMoves DEF Fitting, IInv
  <2>16. 1 \in DOMAIN fs /\ fs[1].at = label
    <3>1. f.at = label BY <2>4
    <3> HIDE DEF f
    <3> QED BY <3>1
  <2> HIDE DEF fs, f
  <2>17. 1 \in DOMAIN stack'[p] /\ stack'[p][1].at = label BY <2>7, <2>16 DEF Moves
  <2>9. FramesInv' /\ OwnedInv' BY <2>2, <2>7, <2>8, QuietMove DEF Fitting, Fits
  <2>10. /\ consTypes' \in [Objects -> SUBSET Criteria]
         /\ \A b \in Objects : consTypes[b] \subseteq consTypes'[b]
         /\ \A b \in Objects \ {o} : consTypes'[b] = consTypes[b]
    BY <2>1, <2>2 DEF IInv, Types, TypeOK
  <2>11. InPool' = InPool BY <2>2 DEF InPool
  <2>12. Homes \subseteq Homes' BY <2>10, <2>11, PoolFacts DEF Homes, Of
  <2>13. RandomInv' BY <1>1, <2>2, <2>7, <2>8, <2>10, <2>12, QuietRandom DEF Fitting, Fits
  <2>14. AgesInv'
    <3>1. \A b \in Objects : b.gen \in Nat BY NumbersAssumption DEF Objects
    <3>2. events \in Nat BY DEF IInv, Types, TypeOK
    <3> QED BY <2>1, <2>2, <2>10, <2>11, <3>1, <3>2 DEF IInv, AgesInv
  <2>15. Types' BY <2>2, <2>7, <2>10 DEF IInv, Types, TypeOK, Moves
  <2>18. \A k \in DOMAIN fs : JournalConnect(fs[k]) => k + 1 \in DOMAIN fs /\ fs[k + 1].at = "each"
    BY <2>8 DEF Fitting
  <2>19. UnderInv' /\ SoughtInv'
    BY <2>7, <2>8, <2>10, <2>18, QuietUnder, QuietSought DEF Fitting, Fits
  <2>20. CASE Top(p).job = "SHC"
    <3>1. label = "updateShc" BY <2>20 DEF label, Updated
    <3>2. ShcInv' BY <2>17, <3>1 DEF ShcInv, Journals
    <3>3. Homes' = Homes
      <4>1. \A b \in Objects : "SC" \in consTypes'[b] <=> "SC" \in consTypes[b]
        BY <2>1, <2>2, <2>20 DEF IInv, Types, TypeOK
      <4> QED BY <2>11, <4>1, PoolFacts DEF Homes, Of
    <3>4. Misplaced(home)' => Misplaced(home) BY <2>2, <3>3 DEF Misplaced
    <3>5. ~Brings(Top(p), home, consTypes) BY <1>1 DEF Brings
    <3>6. ScInv' BY <1>1, <2>2, <2>7, <2>10, <3>4, <3>5, QuietSc
    <3> QED BY <2>2, <2>9, <2>13, <2>14, <2>15, <2>19, <3>2, <3>6 DEF IInv, NobodyDiesUnlessShared
  <2>21. CASE Top(p).job = "SC"
    <3>1. label = "updateSc" BY <2>21 DEF label, Updated
    <3>2. ScInv'
      <4>1. CASE home = NoMemory BY <2>2, <2>17, <3>1, <4>1 DEF ScInv, Brings
      <4>2. CASE home # NoMemory
        <5>1. Misplaced(home)' => Misplaced(home) BY <2>2, <2>12, <4>2 DEF Misplaced
        <5>2. ~Brings(Top(p), home, consTypes) BY <1>1, <4>2 DEF Brings
        <5> QED BY <1>1, <2>2, <2>7, <2>10, <5>1, <5>2, QuietSc
      <4> QED BY <4>1, <4>2
    <3>3. Of("SHC")' = Of("SHC")
      <4>1. \A b \in Objects : "SHC" \in consTypes'[b] <=> "SHC" \in consTypes[b]
        BY <2>1, <2>2, <2>21 DEF IInv, Types, TypeOK
      <4> QED BY <2>11, <4>1, PoolFacts DEF Of
    <3>4. ShcMemory' = ShcMemory
      <4>1. ShcMemories' = ShcMemories BY <2>2, <3>3 DEF ShcMemories
      <4> QED BY <4>1 DEF ShcMemory
    <3>5. JournaledOn(p, 1, fs) BY <1>1, <2>2 DEF JournaledOn, Journals, JournalConnect
    <3>6. ShcInv' BY <1>1, <2>2, <2>7, <3>3, <3>4, <3>5, QuietShc
    <3> QED BY <2>2, <2>9, <2>13, <2>14, <2>15, <2>19, <3>2, <3>6 DEF IInv, NobodyDiesUnlessShared
  <2> QED BY <2>1, <2>20, <2>21 DEF Criteria
<1> QED BY <1>2, <1>3

LEMMA MemoryDestroyStep == ASSUME IInv, NEW p \in Threads, MemoryDestroy(p) PROVE IInv'
<1>1. stack[p] # <<>> /\ Top(p).at = "destroy" BY DEF MemoryDestroy, At
<1>2. CASE Top(p).mem \in freed BY <1>1, <1>2, UsedFreed DEF MemoryDestroy, Using
<1>3. CASE Top(p).mem \notin freed
  <2> DEFINE o  == Top(p).mem
             fs == <<>>
  <2>1. /\ o \in Objects /\ o \notin InPool /\ o.gen <= events /\ Refers(stack[p][1], o)
        /\ 1 \in DOMAIN stack[p]
    BY <1>1, TopFacts DEF FrameOK, ShapeOK, Refers
  <2>2. /\ freed' = freed \cup {o} /\ Return(p)
        /\ UNCHANGED <<memories, consTypes, known, home, holder, dirty, status, events, shared,
                       mistaken, orphan>>
    BY <1>3 DEF MemoryDestroy, Using, table, history
  <2>3. Moves(p, 1, fs) BY <1>1, <2>2, ReturnMoves DEF IInv
  <2>4. DOMAIN fs = {} OBVIOUS
  <2> HIDE DEF fs
  <2>5. InPool' = InPool /\ Homes' = Homes /\ shared' = shared BY <2>2 DEF InPool, Homes, Of
  <2>6. FramesInv' BY <2>2, <2>3, <2>4, <2>5, MoveFrames DEF IInv, FramesInv
  <2>7. RandomInv' BY <1>1, <2>2, <2>3, <2>4, <2>5, QuietRandom
  <2>8. Types'
    <3>1. memories \in Seq(Objects \ freed') /\ freed' \subseteq Objects
      <4>1. memories \in Seq(Objects \ freed) /\ freed \subseteq Objects BY DEF IInv, Types, TypeOK
      <4>2. \A i \in 1 .. Len(memories) : memories[i] \in Objects \ freed'
        BY <2>1, <2>2, <4>1 DEF InPool, Range
      <4> QED BY <2>1, <2>2, <4>1, <4>2
    <3> QED BY <2>2, <2>3, <3>1 DEF IInv, Types, TypeOK, Moves
  <2>9. AgesInv' BY <2>1, <2>2, <2>5 DEF IInv, AgesInv
  <2>10. ASSUME NEW b \in Objects \ (InPool' \cup shared')
         PROVE  OneHolder(stack', b) /\ (b \in freed' => NoHolder(stack', b))
    <3>1. OneHolder(stack, b) /\ (b \in freed => NoHolder(stack, b))
      BY <2>5, <2>10 DEF IInv, OwnedInv
    <3>2. /\ OneHolder(stack, b) => OneHolder(stack', b)
          /\ NoHolder(stack, b) => NoHolder(stack', b)
      BY <2>3, <2>4, MoveHolders DEF IInv
    <3>3. ASSUME b = o, NEW x \in Threads, NEW i \in DOMAIN stack'[x] PROVE ~Refers(stack'[x][i], b)
      <4>1. PICK j \in DOMAIN stack[x] : (x = p => j > 1) /\ stack'[x][i] = stack[x][j]
        BY <2>3, <2>4, Origin
      <4>2. j \in Nat BY DEF IInv, Types
      <4> QED BY <2>1, <3>1, <3>3, <4>1, <4>2 DEF OneHolder
    <3> QED BY <2>2, <3>1, <3>2, <3>3 DEF NoHolder
  <2>11. OwnedInv' BY <2>10 DEF OwnedInv
  <2>12. ScInv'
    <3>1. ~Brings(Top(p), home, consTypes) BY <1>1 DEF Brings
    <3>2. Misplaced(home)' => Misplaced(home) BY <2>2, <2>5 DEF Misplaced
    <3> QED BY <1>1, <2>2, <2>3, <3>1, <3>2, QuietSc
  <2>13. ShcInv'
    <3>1. Of("SHC")' = Of("SHC") BY <2>2, <2>5 DEF Of
    <3>2. ShcMemories' = ShcMemories BY <2>2, <3>1 DEF ShcMemories
    <3>3. ShcMemory' = ShcMemory BY <3>2 DEF ShcMemory
    <3>4. JournaledOn(p, 1, fs) BY <1>1, <2>2 DEF JournaledOn, Journals, JournalConnect
    <3> QED BY <1>1, <2>2, <2>3, <3>1, <3>3, <3>4, QuietShc
  <2>14. UnderInv' /\ SoughtInv' BY <2>2, <2>3, <2>4, QuietUnder, QuietSought
  <2> QED BY <2>2, <2>6, <2>7, <2>8, <2>9, <2>11, <2>12, <2>13, <2>14
          DEF IInv, NobodyDiesUnlessShared
<1> QED BY <1>2, <1>3

\* What the removal of a number does to the list.
LEMMA Removal ==
  ASSUME IInv, NEW m, memories' = Filter(memories, {x \in InPool : x.mid # m})
  PROVE  /\ memories' \in Seq(Objects \ freed)
         /\ InPool' = {x \in InPool : x.mid # m}
         /\ IsInjective([i \in DOMAIN memories' |-> memories'[i].mid])
         /\ \A S \in SUBSET InPool' : Filter(memories', S) = Filter(memories, S)
<1> DEFINE A == {x \in InPool : x.mid # m}
<1>1. memories \in Seq(Objects \ freed) BY DEF IInv, Types, TypeOK
<1>2. /\ memories' \in Seq(Objects \ freed) /\ InPool' = InPool \cap A
      /\ IsInjective(memories')
  <2> HIDE DEF A
  <2>1. memories' = Filter(memories, A) BY DEF A
  <2>2. /\ Filter(memories, A) \in Seq(Objects \ freed)
        /\ Range(Filter(memories, A)) = Range(memories) \cap A
        /\ IsInjective(memories) => IsInjective(Filter(memories, A))
    BY <1>1, FilterKeeps
  <2> QED BY <2>1, <2>2, PoolFacts DEF InPool
<1>3. \A i, j \in DOMAIN memories' : memories'[i].mid = memories'[j].mid => i = j
  <2> SUFFICES ASSUME NEW i \in DOMAIN memories', NEW j \in DOMAIN memories',
                      memories'[i].mid = memories'[j].mid
               PROVE  i = j
    OBVIOUS
  <2>1. memories'[i] \in InPool' /\ memories'[j] \in InPool' BY DEF InPool, Range
  <2>2. memories'[i] = memories'[j] BY <1>2, <2>1, PoolFacts
  <2> QED BY <1>2, <2>2 DEF IsInjective
<1>4. IsInjective([i \in DOMAIN memories' |-> memories'[i].mid]) BY <1>3 DEF IsInjective
<1>5. ASSUME NEW S \in SUBSET InPool' PROVE Filter(memories', S) = Filter(memories, S)
  <2>1. S \subseteq A BY <1>2
  <2>2. memories' = Filter(memories, A) OBVIOUS
  <2> HIDE DEF A
  <2>3. Filter(Filter(memories, A), S) = Filter(memories, A \cap S) BY <1>1, FilterTwice
  <2>4. A \cap S = S BY <2>1
  <2> QED BY <2>2, <2>3, <2>4
<1> QED BY <1>2, <1>4, <1>5

LEMMA ConnectFailsStep == ASSUME IInv, NEW p \in Threads, ConnectFails(p) PROVE IInv'
<1>1. stack[p] # <<>> /\ Top(p).at = "connect" /\ events < MaxEvents BY DEF ConnectFails, At
<1>2. CASE Top(p).mem \in freed BY <1>1, <1>2, UsedFreed DEF ConnectFails, Using
<1>3. CASE Top(p).mem \notin freed
  <2> DEFINE o  == Top(p).mem
             f  == [Top(p) EXCEPT !.at = "removed"]
             u  == Frame("updateShc", "none", NoMemory, <<>>)
             fs == IF "SHC" \in consTypes[o] THEN <<u, f>> ELSE <<f>>
  <2>1. /\ o \in Objects /\ o.gen <= events /\ Top(p).rest = <<>>
        /\ Top(p) \in FrameType
    BY <1>1, TopFacts DEF FrameOK, ShapeOK, Refers
  <2>2. /\ events' = events + 1
        /\ memories' = Filter(memories, {x \in InPool : x.mid # o.mid})
        /\ mistaken' = (mistaken \/ \E x \in InPool : x.mid = o.mid /\ x # o)
        /\ shared' = shared \cup {x \in Objects : x.mid = o.mid /\ HeldElsewhere(x, p)}
        /\ Becomes(p, fs)
        /\ UNCHANGED <<consTypes, freed, known, home, holder, dirty, status, orphan>>
    BY <1>3 DEF ConnectFails, Using, table
  <2>3. /\ memories' \in Seq(Objects \ freed)
        /\ InPool' = {x \in InPool : x.mid # o.mid}
        /\ IsInjective([i \in DOMAIN memories' |-> memories'[i].mid])
        /\ \A S \in SUBSET InPool' : Filter(memories', S) = Filter(memories, S)
    BY <2>2, Removal
  <2>4. /\ events \in Nat /\ events' \in Nat /\ events' \in 0 .. MaxEvents
    BY <1>1, <2>2, NumbersAssumption DEF IInv, Types, TypeOK
  <2>5. /\ f.at = "removed" /\ f.mem = o /\ f.rest = <<>> /\ f.job = Top(p).job /\ f \in FrameType
    BY <2>1 DEF FrameType, Labels
  <2>6. /\ u.at = "updateShc" /\ u.mem = NoMemory /\ u.rest = <<>> /\ u \in FrameType
    BY DEF Frame, FrameType, Labels
  <2> HIDE DEF f, u
  <2>7. \A b \in Objects : (Refers(f, b) <=> b = o) /\ ~Refers(u, b)
    BY <2>5, <2>6, MidsAssumption DEF Refers, Range
  <2>8. \A b \in Objects : b = o => Refers(Top(p), b) BY DEF Refers
  <2>9. /\ fs \in Seq(FrameType)
        /\ \A k \in DOMAIN fs : fs[k] = f \/ fs[k] = u
        /\ \E k \in DOMAIN fs : fs[k] = f
        /\ \A k, l \in DOMAIN fs : fs[k] = f /\ fs[l] = f => k = l
        /\ "SHC" \in consTypes[o] => \E k \in DOMAIN fs : fs[k] = u
    <3>0. f # u BY <2>5, <2>6
    <3>1. CASE "SHC" \in consTypes[o]
      <4> DEFINE g == <<u, f>>
      <4>1. g \in Seq(FrameType) /\ DOMAIN g = {1, 2} /\ g[1] = u /\ g[2] = f BY <2>5, <2>6
      <4> HIDE DEF g
      <4>2. fs = g BY <3>1 DEF g
      <4> HIDE DEF fs
      <4> QED BY <3>0, <4>1, <4>2
    <3>2. CASE "SHC" \notin consTypes[o]
      <4> DEFINE g == <<f>>
      <4>1. g \in Seq(FrameType) /\ DOMAIN g = {1} /\ g[1] = f BY <2>5
      <4> HIDE DEF g
      <4>2. fs = g BY <3>2 DEF g
      <4> HIDE DEF fs
      <4> QED BY <3>2, <4>1, <4>2
    <3> QED BY <3>1, <3>2
  <2>10. Moves(p, 1, fs)
    <3> HIDE DEF fs
    <3> QED BY <1>1, <2>2, <2>9, BecomesMoves DEF IInv
  <2> HIDE DEF fs
  <2>11. FrameOK(f, InPool', shared', events')
    BY <2>1, <2>2, <2>3, <2>4, <2>5, <2>7, NumbersAssumption DEF FrameOK, ShapeOK, Objects
  <2>12. FrameOK(u, InPool', shared', events') BY <2>6, <2>7 DEF FrameOK, ShapeOK
  <2>13. ASSUME NEW x \in Threads, NEW j \in DOMAIN stack[x], x = p => j > 1
         PROVE  FrameOK(stack[x][j], InPool', shared', events')
    <3> DEFINE g == stack[x][j]
    <3>1. FrameOK(g, InPool, shared, events) BY DEF IInv, FramesInv
    <3>2. ASSUME NEW b \in Range(g.rest), b \in InPool
          PROVE  b \in InPool' \cup shared'
      <4>1. CASE b.mid # o.mid BY <2>3, <3>2, <4>1
      <4>2. CASE b.mid = o.mid
        <5>1. Refers(g, b) BY DEF Refers
        <5>2. <<x, j>> # <<p, 1>> BY <2>13
        <5>3. HeldElsewhere(b, p) BY <5>1, <5>2 DEF HeldElsewhere
        <5>4. b \in Objects BY <3>2, PoolFacts
        <5> QED BY <2>2, <4>2, <5>3, <5>4
      <4> QED BY <4>1, <4>2
    <3>3. shared \subseteq shared' /\ events <= events' /\ InPool' \subseteq InPool
      BY <2>2, <2>3, <2>4
    <3> HIDE DEF g
    <3>4. \A b \in InPool' : b \in InPool \/ (b \in Objects /\ b.gen > events) BY <3>3
    <3>5. \A b \in Range(g.rest) : b \in InPool => b \in InPool' \cup shared'
      BY <3>2
    <3>6. FrameOK(g, InPool', shared', events') BY <2>4, <3>1, <3>3, <3>4, <3>5, FrameLater
    <3> QED BY <3>6 DEF g
  <2>14. FramesInv' BY <2>9, <2>10, <2>11, <2>12, <2>13, MoveFrames
  <2>15. ASSUME NEW b \in Objects \ (InPool' \cup shared')
         PROVE  OneHolder(stack', b) /\ (b \in freed' => NoHolder(stack', b))
    <3>1. OneHolder(stack, b) /\ (b \in freed => NoHolder(stack, b))
      <4>1. CASE b \in InPool
        <5>1. ~HeldElsewhere(b, p) BY <2>2, <2>3, <2>15, <4>1
        <5>2. OneHolder(stack, b) BY <5>1 DEF HeldElsewhere, OneHolder
        <5> QED BY <4>1, <5>2, PoolFacts
      <4>2. CASE b \notin InPool BY <2>2, <2>15, <4>2 DEF IInv, OwnedInv
      <4> QED BY <4>1, <4>2
    <3>2. /\ \A k \in DOMAIN fs : Refers(fs[k], b) => 1 = 1 /\ stack[p] # <<>> /\ Refers(Top(p), b)
          /\ \A k, l \in DOMAIN fs : Refers(fs[k], b) /\ Refers(fs[l], b) => k = l
      BY <1>1, <2>7, <2>8, <2>9
    <3>3. /\ OneHolder(stack, b) => OneHolder(stack', b)
          /\ NoHolder(stack, b) => NoHolder(stack', b)
      BY <2>10, <3>2, MoveHolders DEF IInv
    <3> QED BY <2>2, <3>1, <3>3
  <2>16. OwnedInv' BY <2>15 DEF OwnedInv
  <2>17. AgesInv'
    <3>1. \A b \in Objects : b.gen \in Nat BY NumbersAssumption DEF Objects
    <3>2. InPool \cup freed \subseteq Objects BY PoolFacts DEF IInv, Types, TypeOK
    <3> QED BY <2>2, <2>3, <2>4, <3>1, <3>2 DEF IInv, AgesInv
  <2>18. ASSUME Homes # {}, Homes' = {}, ~mistaken', NEW x \in Threads \ {p} PROVE ScRemoved(x)'
    <3>1. PICK h \in InPool : "SC" \in consTypes[h] BY <2>18 DEF Homes, Of
    <3>2. h \notin InPool' BY <2>2, <2>18, <3>1 DEF Homes, Of
    <3>3. h = o BY <2>2, <2>3, <2>18, <3>1, <3>2
    <3>4. PICK k \in DOMAIN fs : fs[k] = f BY <2>9
    <3>5. k \in DOMAIN stack'[p] /\ stack'[p][k] = f BY <2>10, <3>4 DEF Moves
    <3> QED BY <2>2, <2>5, <3>1, <3>3, <3>5 DEF ScRemoved
  <2>19. RandomInv'
    <3>1. \A k \in DOMAIN fs : fs[k].at # "random" BY <2>5, <2>6, <2>9
    <3>2. mistaken => mistaken' BY <2>2
    <3>3. Homes # {} => Homes' # {} \/ mistaken' \/ \A x \in Threads \ {p} : ScRemoved(x)'
      BY <2>18
    <3>4. holder' = holder /\ \A b \in Objects : consTypes[b] \subseteq consTypes'[b] BY <2>2
    <3> QED BY <1>1, <2>10, <3>1, <3>2, <3>3, <3>4, QuietRandom
  <2>20. Types'
    <3>1. mistaken' \in BOOLEAN /\ shared' \subseteq Objects BY <2>2 DEF IInv, Types, TypeOK
    <3> QED BY <2>2, <2>3, <2>4, <2>10, <3>1 DEF IInv, Types, TypeOK, Moves
  <2>21. UnderInv'
    <3>1. \A k \in DOMAIN fs : ~JournalConnect(fs[k]) BY <2>5, <2>6, <2>9 DEF JournalConnect
    <3> QED BY <2>10, <3>1, QuietUnder
  <2>24. SoughtInv'
    <3>1. \A k \in DOMAIN fs : Sought(fs[k], consTypes) BY <2>5, <2>6, <2>9 DEF Sought
    <3> QED BY <2>2, <2>10, <3>1, QuietSought
  <2>22. ScInv'
    <3> SUFFICES ASSUME ~mistaken' PROVE ScInv' BY DEF ScInv
    <3>1. CASE Misplaced(home)' => Misplaced(home)
      <4>1. ~Brings(Top(p), home, consTypes) BY <1>1, MidsAssumption, RestTyped DEF Brings
      <4>2. mistaken => mistaken' BY <2>2
      <4> QED BY <1>1, <2>2, <2>10, <3>1, <4>1, <4>2, QuietSc
    <3>2. CASE Misplaced(home)' /\ ~Misplaced(home)
      <4>1. Homes' \subseteq Homes BY <2>2, <2>3 DEF Homes, Of
      <4>2. home # NoMemory /\ home \in Homes /\ home \notin Homes'
        BY <2>2, <3>2, <4>1 DEF Misplaced
      <4>3. PICK h \in InPool : "SC" \in consTypes[h] /\ h.mid = home BY <4>2 DEF Homes, Of
      <4>4. h \notin InPool' BY <2>2, <4>2, <4>3 DEF Homes, Of
      <4>5. h = o BY <2>2, <2>3, <4>3, <4>4
      <4>6. PICK k \in DOMAIN fs : fs[k] = f BY <2>9
      <4>7. k \in DOMAIN stack'[p] /\ stack'[p][k] = f BY <2>10, <4>6 DEF Moves
      <4>8. Brings(f, home', consTypes') BY <2>2, <2>5, <4>2, <4>3, <4>5 DEF Brings
      <4> QED BY <4>7, <4>8 DEF ScInv
    <3> QED BY <3>1, <3>2
  <2>23. ShcInv'
    <3> SUFFICES ASSUME ~mistaken' PROVE ShcInv' BY DEF ShcInv
    <3>1. CASE "SHC" \in consTypes[o]
      <4>1. PICK k \in DOMAIN fs : fs[k] = u BY <2>9, <3>1
      <4>2. k \in DOMAIN stack'[p] /\ stack'[p][k] = u BY <2>10, <4>1 DEF Moves
      <4> QED BY <2>6, <4>2 DEF ShcInv, Journals
    <3>2. CASE "SHC" \notin consTypes[o]
      <4>1. Of("SHC")' = Of("SHC") /\ Of("SHC") \subseteq InPool'
        BY <2>2, <2>3, <3>2 DEF Of
      <4>2. ShcMemories' = ShcMemories BY <2>3, <4>1 DEF ShcMemories
      <4>3. ShcMemory' = ShcMemory BY <4>2 DEF ShcMemory
      <4>4. JournaledOn(p, 1, fs)
        BY <1>1, <2>2, <3>2 DEF JournaledOn, Journals, JournalConnect, Of
      <4>5. mistaken => mistaken' BY <2>2
      <4> QED BY <1>1, <2>10, <4>1, <4>3, <4>4, <4>5, QuietShc
    <3> QED BY <3>1, <3>2
  <2> QED BY <2>2, <2>14, <2>16, <2>17, <2>19, <2>20, <2>21, <2>22, <2>23, <2>24
          DEF IInv, NobodyDiesUnlessShared
<1> QED BY <1>2, <1>3

LEMMA RejoinStep == ASSUME IInv, NEW m \in Mids, Rejoin(m) PROVE IInv'
<1> DEFINE b == [mid |-> m, gen |-> events + 1]
<1> USE DEF IInv
<1>1. /\ \A x \in InPool : x.mid # m
      /\ events' = events + 1 /\ memories' = Append(memories, b)
      /\ UNCHANGED <<consTypes, freed, known, home, holder, stack, dirty, status, shared,
                     mistaken, orphan>>
  BY DEF Rejoin, table, history
<1>2. events \in Nat /\ events' \in 0 .. MaxEvents /\ events' \in Nat
  BY NumbersAssumption DEF Rejoin, Types, TypeOK
<1>3. b \in Objects /\ b.mid = m /\ b.gen = events + 1 BY <1>1, <1>2 DEF Objects
<1> HIDE DEF b
<1>4. b \notin freed /\ b \notin InPool BY <1>1, <1>2, <1>3 DEF AgesInv
<1>5. consTypes[b] = {} BY <1>2, <1>3 DEF AgesInv
<1>6. memories \in Seq(Objects \ freed) BY DEF Types, TypeOK
<1>7. /\ memories' \in Seq(Objects \ freed) /\ Len(memories') = Len(memories) + 1
      /\ memories'[Len(memories) + 1] = b
      /\ \A i \in 1 .. Len(memories) : memories'[i] = memories[i]
      /\ Len(memories) \in Nat /\ DOMAIN memories = 1 .. Len(memories)
      /\ DOMAIN memories' = 1 .. (Len(memories) + 1)
  BY <1>1, <1>3, <1>4, <1>6
<1>8. InPool' = InPool \cup {b}
  <2>1. ASSUME NEW x \in InPool' PROVE x \in InPool \cup {b} BY <1>7, <2>1 DEF InPool, Range
  <2>2. ASSUME NEW x \in InPool PROVE x \in InPool' BY <1>7, <2>2 DEF InPool, Range
  <2>3. b \in InPool' BY <1>7 DEF InPool, Range
  <2> QED BY <2>1, <2>2, <2>3
<1>9. IsInjective([i \in DOMAIN memories' |-> memories'[i].mid])
  <2>1. \A i, j \in DOMAIN memories : memories[i].mid = memories[j].mid => i = j
    BY DEF Types, TypeOK, IsInjective
  <2>2. \A i \in DOMAIN memories : memories[i].mid # m BY <1>1 DEF InPool, Range
  <2>3. \A i, j \in DOMAIN memories' : memories'[i].mid = memories'[j].mid => i = j
    BY <1>3, <1>7, <2>1, <2>2
  <2> QED BY <2>3 DEF IsInjective
<1>10. Types' BY <1>1, <1>2, <1>7, <1>9 DEF Types, TypeOK
<1>11. FramesInv'
  <2> SUFFICES ASSUME NEW x \in Threads, NEW i \in DOMAIN stack[x]
               PROVE  FrameOK(stack[x][i], InPool', shared', events')
    BY <1>1 DEF FramesInv
  <2> DEFINE g == stack[x][i]
  <2>1. FrameOK(g, InPool, shared, events) BY DEF FramesInv
  <2>2. \A c \in InPool' : c \in InPool \/ (c \in Objects /\ c.gen > events)
    BY <1>2, <1>3, <1>8
  <2>3. \A c \in Range(g.rest) : c \in InPool => c \in InPool' \cup shared'
    BY <1>8
  <2> HIDE DEF g
  <2>4. FrameOK(g, InPool', shared', events') BY <1>1, <1>2, <2>1, <2>2, <2>3, FrameLater
  <2> QED BY <2>4 DEF g
<1>12. AgesInv'
  <2>1. \A c \in Objects : c.gen \in Nat BY NumbersAssumption DEF Objects
  <2>2. InPool \cup freed \subseteq Objects BY PoolFacts DEF Types, TypeOK
  <2> QED BY <1>1, <1>2, <1>3, <1>8, <2>1, <2>2 DEF AgesInv
<1>13. OwnedInv' BY <1>1, <1>8 DEF OwnedInv
<1>14. Homes \subseteq Homes' BY <1>1, <1>8 DEF Homes, Of
<1>15. RandomInv' BY <1>1, <1>14 DEF RandomInv, ScRemoved
<1>16. Of("SHC")' = Of("SHC") /\ Homes' = Homes /\ b \notin Of("SHC")
  BY <1>1, <1>5, <1>8 DEF Homes, Of
<1>17. ScInv' BY <1>1, <1>16 DEF ScInv, Misplaced
<1>18. ShcMemories' = ShcMemories
  <2> DEFINE S == Of("SHC")
  <2>1. S' = S /\ b \notin S BY <1>16
  <2>2. memories \in Seq(Objects) BY PoolFacts
  <2> HIDE DEF S
  <2>3. Filter(Append(memories, b), S) = Kept(Filter(memories, S), b, S)
    BY <1>3, <2>2, FilterAppend
  <2>4. Filter(memories', S') = Filter(memories, S) BY <1>1, <2>1, <2>3 DEF Kept
  <2> QED BY <2>4 DEF ShcMemories, S
<1>19. ShcInv'
  <2>1. ShcMemory' = ShcMemory BY <1>18 DEF ShcMemory
  <2> QED BY <1>1, <1>16, <2>1 DEF ShcInv
<1>20. UnderInv' /\ SoughtInv' BY <1>1 DEF UnderInv, SoughtInv, Sought
<1> QED BY <1>1, <1>10, <1>11, <1>12, <1>13, <1>15, <1>17, <1>19, <1>20
        DEF NobodyDiesUnlessShared

-----------------------------------------------------------------------------
(* The theorems.                                                           *)

\* A finite set listed has its elements once each.
LEMMA Listed ==
  ASSUME NEW T, IsFiniteSet(T)
  PROVE  SetToSeq(T) \in Seq(T) /\ IsInjective(SetToSeq(T))
<1> DEFINE n == Cardinality(T)
<1>1. n \in Nat /\ Injection(1 .. n, T) # {}
  BY FS_CardinalityType DEF ExistsBijection, Bijection
<1>2. \E f \in [1 .. n -> T] : IsInjective(f) BY <1>1 DEF Injection, IsInjective
<1>3. SetToSeq(T) = CHOOSE f \in [1 .. n -> T] : IsInjective(f) BY DEF SetToSeq
<1>4. SetToSeq(T) \in [1 .. n -> T] /\ IsInjective(SetToSeq(T)) BY <1>2, <1>3
<1> QED BY <1>1, <1>4

\* It holds at first, ...
LEMMA Initial == Init => IInv
<1> SUFFICES ASSUME Init PROVE IInv OBVIOUS
<1> DEFINE T == {First(m) : m \in Mids}
<1>1. IsFiniteSet(T)
  <2> DEFINE f == [m \in Mids |-> First(m)]
  <2>1. f \in Surjection(Mids, T) BY DEF Surjection
  <2> QED BY <2>1, FS_Surjection, MidsAssumption DEF ExistsSurjection
<1>2. T \subseteq Objects /\ \A o \in T : o.gen = 0 /\ o = First(o.mid)
  BY NumbersAssumption DEF First, Objects
<1> HIDE DEF T
<1>3. memories \in Seq(T) /\ IsInjective(memories) BY <1>1, Listed DEF Init, T
<1>4. InPool \subseteq T BY <1>3 DEF InPool, Range
<1>5. memories \in Seq(Objects \ freed) BY <1>2, <1>3 DEF Init
<1>6. IsInjective([i \in DOMAIN memories |-> memories[i].mid])
  <2> SUFFICES ASSUME NEW i \in DOMAIN memories, NEW j \in DOMAIN memories,
                      memories[i].mid = memories[j].mid
               PROVE  i = j
    BY DEF IsInjective
  <2>1. memories[i] \in T /\ memories[j] \in T BY <1>3
  <2>2. memories[i] = memories[j] BY <1>2, <2>1
  <2> QED BY <1>3, <2>2 DEF IsInjective
<1>7. /\ freed = {} /\ known \in BOOLEAN /\ holder = NoMemory /\ dirty = {} /\ status = "up"
      /\ events = 0 /\ shared = {} /\ mistaken = FALSE /\ orphan = FALSE
      /\ stack \in [Threads -> Seq(FrameType)]
      /\ \A x \in Threads : stack[x] = <<>> /\ DOMAIN stack[x] = {}
      /\ home \in IF known /\ Homes # {} THEN Homes ELSE {NoMemory}
  BY DEF Init
<1>8. consTypes \in [Objects -> SUBSET Criteria]
  BY GivenAssumption DEF Init, Objects
<1>9. Homes \subseteq Mids BY <1>2, <1>4 DEF Homes, Of, Objects
<1>10. home \in Mids \cup {NoMemory} BY <1>7, <1>9
<1>11. Types
  <2>1. \A x \in Threads : stack[x] \in Seq(FrameType) BY <1>7
  <2>2. /\ freed \subseteq Objects /\ holder \in Threads \cup {NoMemory} /\ dirty \subseteq Mids
        /\ status \in {"up", "raced", "died"} /\ events \in 0 .. MaxEvents
        /\ shared \subseteq Objects /\ mistaken \in BOOLEAN /\ orphan \in BOOLEAN
    <3>1. events = 0 /\ 0 \in 0 .. MaxEvents BY <1>7, NumbersAssumption
    <3>2. mistaken = FALSE /\ orphan = FALSE BY <1>7
    <3>3. freed = {} /\ shared = {} /\ dirty = {} /\ holder = NoMemory /\ status = "up" BY <1>7
    <3> QED BY <3>1, <3>2, <3>3
  <2>3. known \in BOOLEAN /\ stack \in [Threads -> Seq(FrameType)] BY <1>7
  <2> QED BY <1>5, <1>6, <1>8, <1>10, <2>1, <2>2, <2>3 DEF Types, TypeOK
<1>12. AgesInv
  <2>1. \A o \in Objects : o.gen \in Nat /\ (o.gen > 0 => consTypes[o] = {})
    BY NumbersAssumption DEF Init, Objects
  <2> QED BY <1>2, <1>4, <1>7, <2>1 DEF AgesInv
<1>13. ScInv BY <1>7, <1>9, MidsAssumption DEF ScInv, Misplaced
<1>14. FramesInv /\ RandomInv /\ UnderInv /\ SoughtInv
  BY <1>7 DEF FramesInv, RandomInv, UnderInv, SoughtInv
<1>15. OwnedInv BY <1>7 DEF OwnedInv, OneHolder, NoHolder
<1>16. ShcInv BY <1>7 DEF ShcInv
<1> QED BY <1>7, <1>11, <1>12, <1>13, <1>14, <1>15, <1>16 DEF IInv, NobodyDiesUnlessShared

\* ... nothing changes it when nothing happens, ...
LEMMA Stuttering == ASSUME IInv, UNCHANGED vars PROVE IInv'
<1>1. UNCHANGED <<memories, consTypes, freed, known, home, holder, stack, dirty, status, events,
                  shared, mistaken, orphan>>
  BY DEF vars, table, history
<1>2. InPool' = InPool BY <1>1 DEF InPool
<1>3. Of("SHC")' = Of("SHC") /\ Homes' = Homes BY <1>1, <1>2 DEF Of, Homes
<1>4. ShcMemories' = ShcMemories BY <1>1, <1>3 DEF ShcMemories
<1>5. ShcMemory' = ShcMemory BY <1>4 DEF ShcMemory
<1>6. Types' /\ NobodyDiesUnlessShared'
  BY <1>1 DEF IInv, Types, TypeOK, NobodyDiesUnlessShared
<1>7. FramesInv' /\ AgesInv' /\ OwnedInv' BY <1>1, <1>2 DEF IInv, FramesInv, AgesInv, OwnedInv
<1>8. RandomInv' /\ ScInv'
  BY <1>1, <1>3 DEF IInv, RandomInv, ScRemoved, ScInv, Misplaced
<1>9. ShcInv' /\ UnderInv' /\ SoughtInv'
  BY <1>1, <1>3, <1>5 DEF IInv, ShcInv, UnderInv, SoughtInv, Sought
<1> QED BY <1>6, <1>7, <1>8, <1>9 DEF IInv

\* ... and no step ends it.
LEMMA Inductive == IInv /\ [Next]_vars => IInv'
<1> SUFFICES ASSUME IInv, [Next]_vars PROVE IInv' OBVIOUS
<1>1. ASSUME NEW p \in Threads, QueryStep(p) PROVE IInv'
  <2>1. CASE Begin(p) BY <2>1, BeginStep
  <2>2. CASE Answered(p) BY <2>2, AnsweredStep
  <2>3. CASE TableCreate(p) BY <2>3, TableCreateStep
  <2>7. CASE RandomHome(p) BY <2>7, RandomHomeStep
  <2>8. CASE HomeOf(p) BY <2>8, HomeOfStep
  <2>4. CASE AddTable(p) BY <2>4, AddTableStep
  <2>5. CASE Described(p) BY <2>5, NothingToAddStep DEF Described
  <2>6. CASE Dropped(p) BY <2>6, NothingToAddStep DEF Dropped
  <2> QED BY <1>1, <2>1, <2>2, <2>3, <2>4, <2>5, <2>6, <2>7, <2>8 DEF QueryStep
<1>2. ASSUME NEW p \in Threads, FailureStep(p) PROVE IInv'
  <2>1. CASE ConnectFails(p) BY <2>1, ConnectFailsStep
  <2>2. CASE IfSc(p) BY <2>2, IfScStep
  <2>3. CASE Again(p) BY <2>3, AgainStep
  <2>4. CASE MemoryDestroy(p) BY <2>4, MemoryDestroyStep
  <2> QED BY <1>2, <2>1, <2>2, <2>3, <2>4 DEF FailureStep
<1>3. ASSUME NEW p \in Threads, PoolStep(p) PROVE IInv'
  <2>1. CASE UpdateSc(p) BY <2>1, UpdateScStep
  <2>2. CASE RandomScMemory(p) BY <2>2, RandomScMemoryStep
  <2>3. CASE UpdateShc(p) BY <2>3, UpdateShcStep
  <2>4. CASE Journal(p) BY <2>4, JournalStep
  <2>5. CASE JournalEach(p) BY <2>5, JournalEachStep
  <2>6. CASE Journaled(p) BY <2>6, JournaledStep
  <2>7. CASE AddConsType(p) BY <2>7, AddConsTypeStep
  <2>8. CASE \E m \in Mids, criterion \in Criteria : Add(p, m, criterion) BY <2>8, AddStep
  <2> QED BY <1>3, <2>1, <2>2, <2>3, <2>4, <2>5, <2>6, <2>7, <2>8 DEF PoolStep
<1>4. ASSUME NEW m \in Mids, Rejoin(m) PROVE IInv' BY <1>4, RejoinStep
<1>5. CASE UNCHANGED vars BY <1>5, Stuttering
<1> QED BY <1>1, <1>2, <1>3, <1>4, <1>5 DEF Next

\* The inductive invariant holds in every execution, for any memories, threads,
\* criteria given and number of events.
THEOREM Pool == Spec => []IInv
BY Initial, Inductive, PTL DEF Spec

\* What is in the list of memories has not been freed, and no number is there
\* twice: memory_search_create looks before it adds, and remove_memory leaves
\* before memory_destroy frees.
THEOREM Typing == Spec => []TypeOK
<1>1. IInv => TypeOK BY DEF IInv, Types
<1> QED BY <1>1, Pool, PTL

\* No thread uses or frees a freed memory, unless another frame had a pointer to
\* it when it was removed; nor does update_sc fail to find an SC memory, unless
\* another thread is removing one or the wrong object was removed, or table_create
\* the second time it looks, unless what it had found was removed in between.
THEOREM NobodyDies == Spec => []NobodyDiesUnlessShared
<1>1. IInv => NobodyDiesUnlessShared BY DEF IInv
<1> QED BY <1>1, Pool, PTL

\* Between the removal of an SC memory and the end of update_sc the SC table may
\* have no home; when nobody is there it has one of those there are.
THEOREM ScHome == Spec => []ScTableHasItsHome
<1>1. IInv => ScTableHasItsHome
  BY DEF IInv, ScInv, ScTableHasItsHome, Somewhere, Brings
<1> QED BY <1>1, Pool, PTL

\* What was written to an SHC memory is journaled, or is where the key belongs,
\* when nobody is at a change of the SHC memories.
THEOREM ShcFound == Spec => []ShcWritesAreFound
<1>1. IInv => ShcWritesAreFound
  <2> SUFFICES ASSUME IInv, ~Somewhere({"updateShc", "each"}), ~mistaken,
                      NEW o \in Range(ShcMemories), o.mid \in dirty
               PROVE  o \in ShcMemory
    BY DEF ShcWritesAreFound
  <2>1. o \in Of("SHC") BY ShcFacts
  <2>2. ASSUME NEW x \in Threads, NEW i \in DOMAIN stack[x] PROVE ~Journals(stack[x][i], o)
    <3>1. stack[x][i].at \notin {"updateShc", "each"} BY DEF Somewhere
    <3>2. ~JournalConnect(stack[x][i]) BY DEF IInv, UnderInv, Somewhere
    <3> QED BY <3>1, <3>2 DEF Journals
  <2> QED BY <2>1, <2>2 DEF IInv, ShcInv
<1> QED BY <1>1, Pool, PTL
=============================================================================
