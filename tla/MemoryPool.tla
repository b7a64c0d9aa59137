----------------------------- MODULE MemoryPool -----------------------------
(***************************************************************************)
(* The Kernel's pool of memories: the list `memories', the criteria ADD    *)
(* gives them, and how a query is routed by the criterion of its table,    *)
(* and finds another memory when the one it chose does not answer.         *)
(*                                                                         *)
(* A thread that cannot connect to its memory removes it from the list,    *)
(* has the SHC memories journaled and the SC tables given another memory,  *)
(* runs its query again (from the inside) and frees the memory.  Nothing   *)
(* keeps a memory another thread has a pointer to.  The calls nest, so     *)
(* each thread has a stack of frames.  Reading a list is one step.         *)
(*                                                                         *)
(* Two tables are modelled, that keep their criterion: one is SHC, and has *)
(* one key, the other SC.  Of a memory's data only whether it has the SHC  *)
(* key modified and not journaled matters.  EC is left out: its queries    *)
(* only pick a memory, as CREATE and DESCRIBE do.  A memory that accepts   *)
(* the connection answers, and its JOURNAL reaches the file system.        *)
(***************************************************************************)
EXTENDS Naturals, FiniteSets, Sequences, SequencesExt, Functions

CONSTANTS
  Mids,         \* numbers of the memories
  Threads,      \* processors, refreshMetadata and the console
  Key,          \* the key of the SHC table
  Given,        \* Given[m]: the criteria of memory m at first
  MaxEvents,    \* bound: connections that fail, ADDs, and memories gossip brings back
  NoMemory      \* NULL, or an empty list of memories

Criteria == {"SC", "SHC"}
Objects  == [mid : Mids, gen : 0 .. MaxEvents]   \* a t_memory

ASSUME NumbersAssumption == Key \in Nat /\ MaxEvents \in Nat
ASSUME GivenAssumption   == Given \in [Mids -> SUBSET Criteria]
ASSUME MidsAssumption    == IsFiniteSet(Mids) /\ NoMemory \notin Mids \cup Objects \cup Threads

VARIABLES
  memories,   \* the list, of objects
  consTypes,  \* consTypes[o]: criteria of object o
  freed,      \* objects memory_destroy has freed
  known,      \* the kernel has an entry for the SC table
  home,       \* its memories[0]
  holder,     \* the thread that has MUTEX_TABLES
  stack,      \* stack[p]: the frames of thread p, innermost first
  dirty,      \* the memories that have the SHC key modified, by a write that was
              \* sent where the key belonged when it came
  status,     \* "up", or how the process ended
  events,     \* counter, for the bound and the gen of an object
  shared,     \* history: objects others also had when they were removed
  mistaken,   \* history: an object was removed in the place of an older one
  orphan      \* history: the table got, or kept, a home update_sc did not give it

table   == <<known, home>>
history == <<shared, mistaken, orphan>>
vars    == <<memories, consTypes, freed, table, holder, stack, dirty, status, events,
             history>>

\* job: the query, the criterion of an ADD, or whose journal it is.  mem: the memory.
\* rest: the memories still to be journaled, or the SC memories table_create found.
Frame(label, job, mem, rest) == [at |-> label, job |-> job, mem |-> mem, rest |-> rest]

InPool       == Range(memories)
Of(criterion) == {o \in InPool : criterion \in consTypes[o]}
Homes        == {o.mid : o \in Of("SC")}

First(m) == [mid |-> m, gen |-> 0]

\* list_filter: what there is of S in the list, in its order.
FilterUpTo(list, S) ==
  LET kept[n \in 0 .. Len(list)] ==
        IF n = 0 THEN <<>>
        ELSE IF list[n] \in S THEN Append(kept[n - 1], list[n]) ELSE kept[n - 1]
  IN  kept
Filter(list, S) == FilterUpTo(list, S)[Len(list)]

\* After init_memory: the memories of the pool, with the criteria of the ADDs done,
\* and the table the first DESCRIBE found.
Init ==
  /\ memories = SetToSeq({First(m) : m \in Mids})
  /\ consTypes = [o \in Objects |-> IF o.gen = 0 THEN Given[o.mid] ELSE {}]
  /\ freed = {}
  /\ known \in BOOLEAN
  /\ home \in IF known /\ Homes # {} THEN Homes ELSE {NoMemory}
  /\ holder = NoMemory
  /\ stack = [p \in Threads |-> <<>>]
  /\ dirty = {}
  /\ status = "up"
  /\ events = 0
  /\ shared = {}
  /\ mistaken = FALSE
  /\ orphan = FALSE

-----------------------------------------------------------------------------
(* Frames.                                                                 *)

Top(p)   == Head(stack[p])
At(p, label) == status = "up" /\ stack[p] # <<>> /\ Top(p).at = label

Becomes(p, frames) == stack' = [stack EXCEPT ![p] = frames \o Tail(@)]
Goto(p, label)     == stack' = [stack EXCEPT ![p][1].at = label]
Return(p)          == Becomes(p, <<>>)

\* A frame has a pointer to o.
Refers(f, o) == f.mem = o \/ o \in Range(f.rest)

\* The process dies, of a freed memory or of NULL.
Dies(how) ==
  /\ status' = how
  /\ UNCHANGED <<memories, consTypes, freed, table, holder, stack, dirty, events, history>>

\* The top frame uses its memory, which must not be freed.
Using(p, Then) ==
  IF Top(p).mem \in freed
    THEN Dies(IF Top(p).mem \in shared THEN "raced" ELSE "died")
    ELSE Then

Execute(p, frames) ==
  /\ status = "up"
  /\ stack[p] = <<>>
  /\ stack' = [stack EXCEPT ![p] = frames]

-----------------------------------------------------------------------------
(* Queries.                                                                *)

Queries == {"write", "access", "any"}

ShcMemories == Filter(memories, Of("SHC"))

\* get_shc_memory_for_table: by key, in the order of the list.
ShcMemory ==
  IF ShcMemories = <<>> THEN {} ELSE {ShcMemories[(Key % Len(ShcMemories)) + 1]}

\* get_memory_for_query, or get_any_memory.
Candidates(what) ==
  CASE what = "write" -> ShcMemory
    [] what = "access" -> {o \in Of("SC") : known /\ o.mid = home}
    [] what = "any" -> InPool

\* A query picks its memory and goes to connect to it; without one it fails.
Chosen(what) ==
  IF Candidates(what) = {} THEN {<<>>}
  ELSE {<<Frame("connect", what, o, <<>>)>> : o \in Candidates(what)}

\* An INSERT of the SHC table ("write"), a SELECT or INSERT of the SC table ("access"),
\* a CREATE, DESCRIBE or DROP ("any").
Begin(p) ==
  /\ \E what \in Queries : \E frames \in Chosen(what) : Execute(p, frames)
  /\ UNCHANGED <<memories, consTypes, freed, table, holder, dirty, status, events, history>>

\* The memory executes the query, or answers that it could not.  (totalOperations,
\* which is only shown, is left out.)
Answered(p) ==
  /\ At(p, "connect")
  /\ Top(p).job \in {"write", "access"}
  /\ Using(p,
       /\ dirty' \in IF Top(p).job = "write" /\ Top(p).mem \in ShcMemory
                     THEN {dirty, dirty \cup {Top(p).mem.mid}} ELSE {dirty}
       /\ Return(p)
       /\ UNCHANGED <<memories, consTypes, freed, table, holder, status, events, history>>)

\* Not the home an SC table should have.
Misplaced(m) == IF m = NoMemory THEN Homes # {} ELSE m \notin Homes

\* A CREATE, or a DESCRIBE of a table not known: table_create looks for the SC memories.
\* It holds no mutex; the list it got has the memories until it has its random one.
TableCreate(p) ==
  /\ At(p, "connect")
  /\ Top(p).job = "any"
  /\ Using(p,
       /\ Becomes(p, IF Of("SC") = {} THEN <<Frame("addTable", "any", NoMemory, <<>>)>>
                     ELSE <<Frame("createHome", "any", NoMemory, Filter(memories, Of("SC")))>>)
       /\ UNCHANGED <<memories, consTypes, freed, table, holder, dirty, status, events,
                      history>>)

\* If there were any it looks again, get_random_sc_memory, which may give NULL by now ...
RandomHome(p) ==
  /\ At(p, "createHome")
  /\ IF Of("SC") = {}
       THEN Dies(IF Range(Top(p).rest) \cap shared # {} THEN "raced" ELSE "died")
       ELSE /\ \E o \in Of("SC") : Becomes(p, <<Frame("homeOf", "any", o, <<>>)>>)
            /\ UNCHANGED <<memories, consTypes, freed, table, holder, dirty, status, events,
                           history>>

\* ... ->mid ...
HomeOf(p) ==
  /\ At(p, "homeOf")
  /\ Using(p,
       /\ Goto(p, "addTable")
       /\ UNCHANGED <<memories, consTypes, freed, table, holder, dirty, status, events,
                      history>>)

\* ... and add_table puts it in the list.  get_table will find the older entry, if any.
AddTable(p) ==
  /\ At(p, "addTable")
  /\ holder = NoMemory
  /\ known' = TRUE
  /\ home' = IF known THEN home
             ELSE IF Top(p).mem = NoMemory THEN NoMemory ELSE Top(p).mem.mid
  /\ orphan' = IF known THEN orphan ELSE Misplaced(home')
  /\ Return(p)
  /\ UNCHANGED <<memories, consTypes, freed, holder, dirty, status, events, shared, mistaken>>

\* The query was refused, or has nothing to change here.
NothingToAdd(p) ==
  /\ At(p, "connect")
  /\ Top(p).job = "any"
  /\ Using(p,
       /\ Return(p)
       /\ UNCHANGED <<memories, consTypes, freed, table, holder, dirty, status, events,
                      history>>)

\* A DESCRIBE of a table there is: its criterion, which does not change, is assigned.
Described(p) == known /\ NothingToAdd(p)

\* A DROP: drop_table removes nothing, for it looks for a table only when it found none.
Dropped(p) == NothingToAdd(p)

-----------------------------------------------------------------------------
(* A memory that does not answer.                                          *)

\* A frame other than the top one of p has a pointer to o.
HeldElsewhere(o, p) ==
  \E x \in Threads : \E i \in DOMAIN stack[x] :
    <<x, i>> # <<p, 1>> /\ Refers(stack[x][i], o)

\* Mutant: the memory stays in the list.
ConnectFailsKeeps(p) ==
  /\ At(p, "connect")
  /\ events < MaxEvents
  /\ Using(p,
       LET o == Top(p).mem IN
       /\ events' = events + 1
       /\ LET f == [Top(p) EXCEPT !.at = "removed"] IN
          Becomes(p, IF "SHC" \in consTypes[o]
                     THEN <<Frame("updateShc", "none", NoMemory, <<>>), f>> ELSE <<f>>)
       /\ UNCHANGED <<memories, consTypes, freed, table, holder, dirty, status, history>>)

\* remove_memory takes out whatever has the number: the object it could not
\* connect to, or one that gossip brought back since another thread removed it.
\* memory_is_shc: update_shc.
ConnectFails(p) ==
  /\ At(p, "connect")
  /\ events < MaxEvents
  /\ Using(p,
       LET o == Top(p).mem IN
       /\ events' = events + 1
       /\ memories' = Filter(memories, {x \in InPool : x.mid # o.mid})
       /\ mistaken' = (mistaken \/ \E x \in InPool : x.mid = o.mid /\ x # o)
       /\ shared' = shared \cup {x \in Objects : x.mid = o.mid /\ HeldElsewhere(x, p)}
       /\ LET f == [Top(p) EXCEPT !.at = "removed"] IN
          Becomes(p, IF "SHC" \in consTypes[o]
                     THEN <<Frame("updateShc", "none", NoMemory, <<>>), f>> ELSE <<f>>)
       /\ UNCHANGED <<consTypes, freed, table, holder, dirty, status, orphan>>)

\* Mutant: the SC tables keep the number.
IfScKeeps(p) ==
  /\ At(p, "removed")
  /\ Using(p,
       /\ LET f == [Top(p) EXCEPT !.at = IF Top(p).job \in Queries THEN "again" ELSE "destroy"] IN
          Becomes(p, IF "SC" \in consTypes[Top(p).mem]
                     THEN <<Frame("updateSc", "none", NoMemory, <<>>), f>> ELSE <<f>>)
       /\ UNCHANGED <<memories, consTypes, freed, table, holder, dirty, status, events,
                      history>>)

\* memory_is_sc: remove_sc and update_sc.
IfSc(p) ==
  /\ At(p, "removed")
  /\ Using(p,
       /\ LET f == [Top(p) EXCEPT !.at = IF Top(p).job \in Queries THEN "again" ELSE "destroy"] IN
          IF "SC" \in consTypes[Top(p).mem]
            THEN /\ holder = NoMemory
                 /\ home' = IF home = Top(p).mem.mid THEN NoMemory ELSE home
                 /\ Becomes(p, <<Frame("updateSc", "none", NoMemory, <<>>), f>>)
            ELSE Becomes(p, <<f>>) /\ UNCHANGED home
       /\ UNCHANGED <<memories, consTypes, freed, known, holder, dirty, status,
                      events, history>>)

\* The query calls itself.
Again(p) ==
  /\ At(p, "again")
  /\ \E frames \in Chosen(Top(p).job) :
       Becomes(p, frames \o <<[Top(p) EXCEPT !.at = "destroy"]>>)
  /\ UNCHANGED <<memories, consTypes, freed, table, holder, dirty, status, events,
                 history>>

MemoryDestroy(p) ==
  /\ At(p, "destroy")
  /\ Using(p,
       /\ freed' = freed \cup {Top(p).mem}
       /\ Return(p)
       /\ UNCHANGED <<memories, consTypes, table, holder, dirty, status, events,
                      history>>)

-----------------------------------------------------------------------------
(* update_sc: under MUTEX_TABLES, but the pool may change meanwhile.       *)

UpdateSc(p) ==
  /\ At(p, "updateSc")
  /\ holder = NoMemory
  /\ IF known /\ home = NoMemory /\ Of("SC") # {}
       THEN holder' = p /\ Goto(p, "random")
       ELSE Return(p) /\ UNCHANGED holder
  /\ UNCHANGED <<memories, consTypes, freed, table, dirty, status, events, history>>

\* Another thread has removed an SC memory, and has not updated the tables.
ScRemoved(p) ==
  \E x \in Threads \ {p} : \E i \in DOMAIN stack[x] :
    stack[x][i].at = "removed" /\ "SC" \in consTypes[stack[x][i].mem]

\* get_random_sc_memory()->mid
RandomScMemory(p) ==
  /\ At(p, "random")
  /\ IF Homes = {} THEN Dies(IF mistaken \/ ScRemoved(p) THEN "raced" ELSE "died")
     ELSE /\ home' \in Homes
          /\ holder' = NoMemory
          /\ orphan' = FALSE
          /\ Return(p)
          /\ UNCHANGED <<memories, consTypes, freed, known, dirty, status,
                         events, shared, mistaken>>

-----------------------------------------------------------------------------
(* update_shc: the SHC memories, if more than one, are journaled.  JOURNAL *)
(* journals every memory, walking `memories' itself without its mutex: a   *)
(* node that has left the list is freed.                                   *)

\* Mutant: two memories are thought not to need it.
UpdateShcOfThree(p) ==
  /\ At(p, "updateShc")
  /\ Becomes(p, <<Frame("each", "none", NoMemory,
                        IF Len(ShcMemories) > 2 THEN ShcMemories ELSE <<>>)>>)
  /\ UNCHANGED <<memories, consTypes, freed, table, holder, dirty, status, events,
                 history>>

UpdateShc(p) ==
  /\ At(p, "updateShc")
  /\ Becomes(p, <<Frame("each", "none", NoMemory,
                        IF Len(ShcMemories) > 1 THEN ShcMemories ELSE <<>>)>>)
  /\ UNCHANGED <<memories, consTypes, freed, table, holder, dirty, status, events,
                 history>>

Journal(p) ==
  /\ Execute(p, <<Frame("each", "walk", NoMemory, memories)>>)
  /\ UNCHANGED <<memories, consTypes, freed, table, holder, dirty, status, events, history>>

JournalEach(p) ==
  /\ At(p, "each")
  /\ LET f == Top(p) IN
     IF f.rest # <<>> /\ f.job = "walk" /\ Head(f.rest) \notin InPool
     THEN Dies(IF Head(f.rest) \in shared THEN "raced" ELSE "died")
     ELSE /\ IF f.rest = <<>> THEN Return(p)
             ELSE Becomes(p, <<Frame("connect", "journal", Head(f.rest), <<>>),
                               [f EXCEPT !.rest = Tail(@)]>>)
          /\ UNCHANGED <<memories, consTypes, freed, table, holder, dirty, status,
                         events, history>>

Journaled(p) ==
  /\ At(p, "connect")
  /\ Top(p).job = "journal"
  /\ Using(p,
       /\ dirty' = dirty \ {Top(p).mem.mid}
       /\ Return(p)
       /\ UNCHANGED <<memories, consTypes, freed, table, holder, status, events,
                      history>>)

-----------------------------------------------------------------------------
(* ADD MEMORY m TO a criterion, and the memories gossip brings.            *)

\* The lists that follow the criterion are updated, whether the memory is there or not.
Updated(criterion) == IF criterion = "SHC" THEN "updateShc" ELSE "updateSc"

\* The memory is found under the mutex, and gets its criterion after it.
Add(p, m, criterion) ==
  /\ events < MaxEvents
  /\ events' = events + 1
  /\ IF \E o \in InPool : o.mid = m
       THEN \E o \in InPool :
              o.mid = m /\ Execute(p, <<Frame("addConsType", criterion, o, <<>>)>>)
       ELSE Execute(p, <<Frame(Updated(criterion), "none", NoMemory, <<>>)>>)
  /\ UNCHANGED <<memories, consTypes, freed, table, holder, dirty, status, history>>

AddConsType(p) ==
  /\ At(p, "addConsType")
  /\ Using(p,
       /\ consTypes' = [consTypes EXCEPT ![Top(p).mem] = @ \cup {Top(p).job}]
       /\ Becomes(p, <<Frame(Updated(Top(p).job), "none", NoMemory, <<>>)>>)
       /\ UNCHANGED <<memories, freed, table, holder, dirty, status, events, history>>)

\* Mutant: it does not look whether the memory is there.
RejoinTwice(m) ==
  /\ status = "up"
  /\ events < MaxEvents
  /\ events' = events + 1
  /\ memories' = Append(memories, [mid |-> m, gen |-> events'])
  /\ UNCHANGED <<consTypes, freed, table, holder, stack, dirty, status, history>>

\* memory_search_create, for a memory the kernel had removed.
Rejoin(m) ==
  /\ status = "up"
  /\ m \notin {o.mid : o \in InPool}
  /\ events < MaxEvents
  /\ events' = events + 1
  /\ memories' = Append(memories, [mid |-> m, gen |-> events'])
  /\ UNCHANGED <<consTypes, freed, table, holder, stack, dirty, status,
                 history>>

-----------------------------------------------------------------------------
QueryStep(p) ==
  \/ Begin(p) \/ Answered(p) \/ Described(p) \/ Dropped(p)
  \/ TableCreate(p) \/ RandomHome(p) \/ HomeOf(p) \/ AddTable(p)

FailureStep(p) ==
  \/ ConnectFails(p) \/ IfSc(p) \/ Again(p) \/ MemoryDestroy(p)

PoolStep(p) ==
  \/ UpdateSc(p) \/ RandomScMemory(p)
  \/ UpdateShc(p) \/ Journal(p) \/ JournalEach(p) \/ Journaled(p)
  \/ AddConsType(p) \/ \E m \in Mids, criterion \in Criteria : Add(p, m, criterion)

Next ==
  \/ \E p \in Threads : QueryStep(p) \/ FailureStep(p) \/ PoolStep(p)
  \/ \E m \in Mids : Rejoin(m)

Spec == Init /\ [][Next]_vars

-----------------------------------------------------------------------------
(* Properties.                                                             *)

Labels == {"connect", "createHome", "homeOf", "addTable", "removed", "again",
           "destroy", "updateSc", "random", "updateShc", "each", "addConsType"}
FrameType == [at : Labels, mem : Objects \cup {NoMemory}, rest : Seq(Objects),
              job : Queries \cup Criteria \cup {"none", "journal", "walk"}]

\* What is in the list has not been freed, and no number is there twice.
TypeOK ==
  /\ memories \in Seq(Objects \ freed)
  /\ IsInjective([i \in DOMAIN memories |-> memories[i].mid])
  /\ consTypes \in [Objects -> SUBSET Criteria]
  /\ freed \subseteq Objects
  /\ known \in BOOLEAN
  /\ home \in Mids \cup {NoMemory}
  /\ holder \in Threads \cup {NoMemory}
  /\ \A p \in Threads : stack[p] \in Seq(FrameType)
  /\ dirty \subseteq Mids
  /\ status \in {"up", "raced", "died"}
  /\ events \in 0 .. MaxEvents
  /\ shared \subseteq Objects
  /\ mistaken \in BOOLEAN
  /\ orphan \in BOOLEAN

Somewhere(labels) ==
  \E p \in Threads : \E i \in DOMAIN stack[p] : stack[p][i].at \in labels

\* An SC table has its home among the SC memories of the pool whenever there is
\* one, and none when there is not, while no thread is bringing this about.
\* Excepted are a table created behind the back of update_sc, and a memory removed in
\* the place of an older object with its number.
ScTableHasItsHome ==
  known /\ ~Somewhere({"removed", "updateSc", "random"}) =>
    mistaken \/ orphan \/ ~Misplaced(home)

\* What an SHC memory has modified and not journaled is where the next SELECT or
\* INSERT of the key looks for it, whenever no thread is at a change of the SHC
\* memories: none is left in a memory the key belonged to before.  Excepted is a
\* write that had chosen its memory before the change and came after it.
ShcWritesAreFound ==
  ~Somewhere({"updateShc", "each"}) /\ ~mistaken =>
    \A o \in Range(ShcMemories) : o.mid \in dirty => o \in ShcMemory

\* A memory is freed once, and not used after it, unless some other frame had a
\* pointer to the memory when it was removed: that of another thread, or of the
\* update_shc a journal failed in.  And update_sc finds an SC memory, unless another
\* thread is removing one, or a memory was removed in the place of an older object.
NobodyDiesUnlessShared == status # "died"
=============================================================================
