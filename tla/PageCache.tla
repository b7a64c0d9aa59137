----------------------------- MODULE PageCache ------------------------------
(***************************************************************************)
(* The memory pool of a Memory process: a cache of pages, one per key of a *)
(* table, in front of the file system.  An INSERT is acknowledged once it  *)
(* is in a page; a journal sends the modified pages to the file system and *)
(* empties the cache.  A SELECT that misses loads a page.  When no frame   *)
(* is free a clean page is replaced, or, if every page is modified, the    *)
(* cache is journaled first.                                               *)
(*                                                                         *)
(* Every operation runs under MUTEX_JOURNAL from beginning to end and is   *)
(* one step here, except the SELECT that hits: it releases the mutex and   *)
(* only then follows its pointer to the page and copies the value.         *)
(*                                                                         *)
(* The pages are one sequence, in the order they were added: the page list *)
(* of a segment is the subsequence of its table.  The file system is the   *)
(* environment: for each key it keeps the newest records it was sent.      *)
(* One memory is modelled, the only one that serves these keys (the        *)
(* criteria SC and SHC of the Kernel send every query of a key to one).    *)
(***************************************************************************)
EXTENDS Integers, Sequences, FiniteSets, SequencesExt, Functions

CONSTANTS
  Tables, Keys,
  Values,      \* what clients insert
  NFrames,     \* total_frames: TAM_MEM over the size of a frame
  Clients,     \* threads attending a SELECT
  Preloaded,   \* <<table, key>> the file system knows from before
  OldValue,    \* and the value it has for them
  NoKey,       \* what an unused frame holds
  NoValue,     \* a key without a value
  Garbage,     \* bytes that are no value anyone inserted
  MaxTime      \* bound: milliseconds that may go by

Frames == 0 .. NFrames - 1
Known  == Values \cup {OldValue}
Stamps == 0 .. MaxTime

ASSUME NFramesAssumption == NFrames \in Nat \ {0}
ASSUME MaxTimeAssumption == MaxTime \in Nat
ASSUME ValuesAssumption  ==
  /\ NoKey \notin Keys
  /\ NoValue \notin Values \cup {OldValue}
  /\ Garbage \notin Values \cup {OldValue, NoValue}
  /\ Preloaded \subseteq Tables \X Keys

\* create_bitmap fills each whole byte of the bitmap with the character '0',
\* 0x30: the frames of bits 4 and 5 are marked in use though no page has them.
StartMarks == {f \in Frames : f \div 8 < NFrames \div 8 /\ f % 8 \in {4, 5}}

VARIABLES
  segments,   \* the tables that have a segment, in the order of segmentList
  pages,      \* the pages of all segments
  frames,     \* main_memory: what each frame holds
  bitmap,     \* the frames marked in use
  now,        \* get_timestamp, in milliseconds
  fsTables,   \* environment: the tables of the file system
  store,      \* environment: store[t][k], its newest records of the key
  reading,    \* reading[c]: the SELECT that client c has running after a hit
  expected,   \* history: the last value of the key a client was told of, or
              \* Garbage when the key may have lost it
  confused    \* history: a replacement discarded another page than it chose

cache   == <<segments, pages, frames, bitmap>>
fs      == <<fsTables, store>>
history == <<expected, confused>>
vars    == <<cache, now, fs, reading, history>>

Page == [table : Tables, page_num : Nat, frame_num : Frames, isModified : BOOLEAN,
         last_time_used : Stamps,
         heldBy : SUBSET Clients]   \* the SELECTs with a pointer to this page

Idle == [pc |-> "idle", frame |-> 0, first |-> NoValue, want |-> {}, overtaken |-> FALSE]

-----------------------------------------------------------------------------
(* Finding pages.                                                          *)

Modified == {i \in DOMAIN pages : pages[i].isModified}
Holding  == {pages[i].frame_num : i \in DOMAIN pages}

\* search_page compares the key stored in the frame, not one kept in the page.
Hits(t, k) == {i \in DOMAIN pages :
                 pages[i].table = t /\ frames[pages[i].frame_num].key = k}
IsHit(i, t, k) == i \in Hits(t, k) /\ \A j \in Hits(t, k) : i <= j

FrameAvailable == bitmap # Frames
MemoryFull     == \A i \in DOMAIN pages : pages[i].isModified
FirstFree(f, bits) == f \in Frames \ bits /\ \A g \in Frames \ bits : f <= g

\* Mutant: the segment is created without looking for it.
EnsuredUnsearched(t) == Append(segments, t)

\* The segment of a table, created at the end of the list when there is none.
Ensured(t) == IF Contains(segments, t) THEN segments ELSE Append(segments, t)

\* list_size of the page list of a segment.
PageCount(t, pgs) == Cardinality({i \in DOMAIN pgs : pgs[i].table = t})

-----------------------------------------------------------------------------
(* What the clients were told.                                             *)

Became(t, k, v) == expected' = [expected EXCEPT ![t][k] = v]

\* Client c has a SELECT of table t running, and nothing overtook it.
Follows(c, t) ==
  reading[c].pc # "idle" /\ ~reading[c].overtaken /\ reading[c].table = t

\* Every SELECT of the key that is running may answer the new value as well.
Offer(t, k, v) ==
  reading' = [c \in Clients |->
                IF Follows(c, t) /\ reading[c].key = k
                THEN [reading[c] EXCEPT !.want = @ \cup {v}] ELSE reading[c]]

-----------------------------------------------------------------------------
(* load_page_to_segment: into the first free frame of bits, as the last    *)
(* page of the segment.  Its number is the length of the page list.        *)

\* Mutant: the number is that of the last page there was.
LoadNumbersFromLast(t, k, v, modified, pgs, bits) ==
  \E f \in Frames :
    /\ FirstFree(f, bits)
    /\ pages' = Append(pgs, [table |-> t, page_num |-> PageCount(t, pgs) - 1,
                             frame_num |-> f, isModified |-> modified,
                             last_time_used |-> now, heldBy |-> {}])
    /\ bitmap' = bits \cup {f}
    /\ frames' = [frames EXCEPT ![f] = [key |-> k, ts |-> now, value |-> v]]

Load(t, k, v, modified, pgs, bits) ==
  \E f \in Frames :
    /\ FirstFree(f, bits)
    /\ pages' = Append(pgs, [table |-> t, page_num |-> PageCount(t, pgs), frame_num |-> f,
                             isModified |-> modified, last_time_used |-> now, heldBy |-> {}])
    /\ bitmap' = bits \cup {f}
    /\ frames' = [frames EXCEPT ![f] = [key |-> k, ts |-> now, value |-> v]]

(* execute_replacement.  The victim is the clean page used least recently, *)
(* the first in the lists among equals, and used before this millisecond.  *)
(* Its frame is freed; the page removed from the list is the first of its  *)
(* segment with the same page number.                                      *)

\* Mutant: a modified page is as good a victim as a clean one.
EvictableUnsent == {i \in DOMAIN pages : pages[i].last_time_used < now}

Evictable == {i \in DOMAIN pages : ~pages[i].isModified /\ pages[i].last_time_used < now}

Position(i) == CHOOSE n \in DOMAIN segments : segments[n] = pages[i].table
Earlier(i, j) == \/ Position(i) < Position(j)
                 \/ Position(i) = Position(j) /\ i <= j
IsVictim(i) ==
  /\ i \in Evictable
  /\ \A j \in Evictable :
       \/ pages[i].last_time_used < pages[j].last_time_used
       \/ pages[i].last_time_used = pages[j].last_time_used /\ Earlier(i, j)

SameNumber(i) == {j \in DOMAIN pages :
                    pages[j].table = pages[i].table /\ pages[j].page_num = pages[i].page_num}
IsRemoved(j, i) == j \in SameNumber(i) /\ \A n \in SameNumber(i) : j <= n

\* Mutant: the victim's page stays in its list.
ReplaceKeepsPage(t, k, v, modified) ==
  \E i \in DOMAIN pages :
    /\ IsVictim(i)
    /\ UNCHANGED confused
    /\ Load(t, k, v, modified, pages, bitmap \ {pages[i].frame_num})

Replace(t, k, v, modified) ==
  \E i, j \in DOMAIN pages :
    /\ IsVictim(i)
    /\ IsRemoved(j, i)
    /\ confused' = (confused \/ i # j)
    /\ Load(t, k, v, modified, RemoveAt(pages, j), bitmap \ {pages[i].frame_num})

-----------------------------------------------------------------------------
(* journalM.  Each modified page is sent over a connection of its own.  It *)
(* fails only when it cannot connect, and the page stays modified.  Any    *)
(* other outcome counts as sent: also an error (the table is not in the    *)
(* file system) and a connection that breaks before the answer.            *)

Newest(S) == {r \in S : \A q \in S : q.ts <= r.ts}

Record(i) == LET c == frames[pages[i].frame_num] IN [ts |-> c.ts, value |-> c.value]

Stored(t, k, sent) ==
  Newest(store[t][k] \cup {Record(i) : i \in sent \cap Hits(t, k)})

Send(sent, broken) ==
  /\ store' = [t \in Tables |-> [k \in Keys |->
                 IF t \in fsTables THEN Stored(t, k, sent \ broken) ELSE store[t][k]]]
  /\ UNCHANGED fsTables

Unstored(t, k, sent, broken) ==
  (IF t \in fsTables THEN broken ELSE sent) \cap Hits(t, k) # {}

\* Keys whose page was marked clean, or discarded, without being stored.
Excuses(sent, broken) ==
  [t \in Tables |-> [k \in Keys |->
     IF Unstored(t, k, sent, broken) THEN Garbage ELSE expected[t][k]]]

\* Mutant: a page that could not be sent is marked clean like the rest.
JournalFailsCleansAll(broken) ==
  \E failed \in (SUBSET Modified) \ {{}} :
    LET sent == Modified \ failed IN
    /\ broken \subseteq sent
    /\ Send(sent, broken)
    /\ pages' = [i \in DOMAIN pages |-> [pages[i] EXCEPT !.isModified = FALSE]]
    /\ expected' = Excuses(sent, broken)
    /\ UNCHANGED <<frames, bitmap, confused, reading>>

\* A page could not be sent: what was sent is clean, nothing is discarded.
JournalFails(broken) ==
  \E failed \in (SUBSET Modified) \ {{}} :
    LET sent == Modified \ failed IN
    /\ broken \subseteq sent
    /\ Send(sent, broken)
    /\ pages' = [i \in DOMAIN pages |->
                   IF i \in sent THEN [pages[i] EXCEPT !.isModified = FALSE] ELSE pages[i]]
    /\ expected' = Excuses(sent, broken)
    /\ UNCHANGED <<frames, bitmap, confused, reading>>

\* Every page was sent: no segment, no page and no mark is left.
JournalEmpties(broken) == Send(Modified, broken)

\* Mutant: the marks of the bitmap outlive the pages.
JournalKeepsMarks(broken) ==
  /\ JournalEmpties(broken)
  /\ segments' = <<>>
  /\ pages' = <<>>
  /\ expected' = Excuses(Modified, broken)
  /\ UNCHANGED <<frames, bitmap, now, confused, reading>>

Journal(broken) ==
  /\ \/ JournalFails(broken) /\ UNCHANGED segments
     \/ /\ JournalEmpties(broken)
        /\ segments' = <<>>
        /\ pages' = <<>>
        /\ bitmap' = {}
        /\ expected' = Excuses(Modified, broken)
        /\ UNCHANGED <<frames, confused, reading>>
  /\ UNCHANGED now

-----------------------------------------------------------------------------
(* insertM.                                                                *)

\* The key has a page: modify_in_frame.
InsertHit(t, k, v) ==
  \E i \in DOMAIN pages :
    /\ IsHit(i, t, k)
    /\ frames' = [frames EXCEPT ![pages[i].frame_num].ts = now,
                                ![pages[i].frame_num].value = v]
    /\ pages' = [pages EXCEPT ![i].isModified = TRUE, ![i].last_time_used = now]
    /\ Became(t, k, v)
    /\ Offer(t, k, v)
    /\ UNCHANGED <<segments, bitmap, now, fs, confused>>

InsertFree(t, k, v) ==
  /\ Hits(t, k) = {}
  /\ FrameAvailable
  /\ Load(t, k, v, TRUE, pages, bitmap)
  /\ segments' = Ensured(t)
  /\ Became(t, k, v)
  /\ Offer(t, k, v)
  /\ UNCHANGED <<now, fs, confused>>

\* Every page is modified: journal, and try again with the empty cache.
InsertAfterJournal(t, k, v, broken) ==
  /\ Hits(t, k) = {}
  /\ ~FrameAvailable /\ MemoryFull
  /\ JournalEmpties(broken)
  /\ Load(t, k, v, TRUE, <<>>, {})
  /\ segments' = <<t>>
  /\ expected' = [Excuses(Modified, broken) EXCEPT ![t][k] = v]
  /\ Offer(t, k, v)
  /\ UNCHANGED <<now, confused>>

\* The journal fails: insertM returns -1 and the client gets no answer.  The
\* segment stays.
InsertCancelled(t, k, broken) ==
  /\ Hits(t, k) = {}
  /\ ~FrameAvailable /\ MemoryFull
  /\ JournalFails(broken)
  /\ segments' = Ensured(t)
  /\ UNCHANGED now

InsertReplacing(t, k, v) ==
  /\ Hits(t, k) = {}
  /\ ~FrameAvailable /\ ~MemoryFull
  /\ Replace(t, k, v, TRUE)
  /\ segments' = Ensured(t)
  /\ Became(t, k, v)
  /\ Offer(t, k, v)
  /\ UNCHANGED <<now, fs>>

\* No page qualifies: every clean page was used in this very millisecond.  The
\* value is not kept, and insertM returns 0.
InsertNoVictim(t, k, v) ==
  /\ Hits(t, k) = {}
  /\ ~FrameAvailable /\ ~MemoryFull
  /\ Evictable = {}
  /\ segments' = Ensured(t)
  /\ expected' = [expected EXCEPT ![t][k] = Garbage]
  /\ UNCHANGED <<pages, frames, bitmap, now, fs, reading, confused>>

Insert(t, k, v) ==
  \/ InsertHit(t, k, v)
  \/ InsertFree(t, k, v)
  \/ InsertReplacing(t, k, v)
  \/ InsertNoVictim(t, k, v)

-----------------------------------------------------------------------------
(* selectM, the key not in the cache: the value v comes from the file      *)
(* system.  (Without a value, or without a connection, nothing changes: a  *)
(* segment created for the SELECT is removed again.)                       *)

Miss(t, k, v) ==
  /\ Hits(t, k) = {}
  /\ \E r \in store[t][k] : r.value = v

SelectFree(t, k, v) ==
  /\ Miss(t, k, v)
  /\ FrameAvailable
  /\ Load(t, k, v, FALSE, pages, bitmap)
  /\ segments' = Ensured(t)
  /\ Became(t, k, v)
  /\ UNCHANGED <<now, fs, reading, confused>>

\* The page goes into segmentDup, the copy of the segment made before the
\* journal.  (segment_duplicate has no return statement; built as the makefile
\* says, without optimisation, the copy is what its caller finds.)
SelectAfterJournal(t, k, v, broken) ==
  /\ Miss(t, k, v)
  /\ ~FrameAvailable /\ MemoryFull
  /\ JournalEmpties(broken)
  /\ Load(t, k, v, FALSE, <<>>, {})
  /\ segments' = <<t>>
  /\ expected' = [Excuses(Modified, broken) EXCEPT ![t][k] = v]
  /\ UNCHANGED <<now, reading, confused>>

SelectCancelled(t, k, v, broken) ==
  /\ Miss(t, k, v)
  /\ ~FrameAvailable /\ MemoryFull
  /\ JournalFails(broken)
  /\ segments' = Ensured(t)
  /\ UNCHANGED now

SelectReplacing(t, k, v) ==
  /\ Miss(t, k, v)
  /\ ~FrameAvailable /\ ~MemoryFull
  /\ Replace(t, k, v, FALSE)
  /\ segments' = Ensured(t)
  /\ Became(t, k, v)
  /\ UNCHANGED <<now, fs, reading>>

\* The value is answered without being cached.  The segment stays.
SelectNoVictim(t, k, v) ==
  /\ Miss(t, k, v)
  /\ ~FrameAvailable /\ ~MemoryFull
  /\ Evictable = {}
  /\ segments' = Ensured(t)
  /\ Became(t, k, v)
  /\ UNCHANGED <<pages, frames, bitmap, now, fs, reading, confused>>

SelectMiss(t, k, v) ==
  \/ SelectFree(t, k, v)
  \/ SelectReplacing(t, k, v)
  \/ SelectNoVictim(t, k, v)

-----------------------------------------------------------------------------
(* selectM, the key in the cache: from here without MUTEX_JOURNAL.         *)

SelectHit(c, t, k) ==
  /\ reading[c].pc = "idle"
  /\ \E i \in DOMAIN pages :
       /\ IsHit(i, t, k)
       /\ pages' = [pages EXCEPT ![i].last_time_used = now, ![i].heldBy = @ \cup {c}]
  /\ reading' = [reading EXCEPT ![c] =
       [pc |-> "found", table |-> t, key |-> k, frame |-> 0, first |-> NoValue,
        want |-> {expected[t][k]}, overtaken |-> expected[t][k] = Garbage]]
  /\ UNCHANGED <<segments, frames, bitmap, now, fs, history>>

Held(c) == {i \in DOMAIN pages : c \in pages[i].heldBy}

Overtaken(r) == [r EXCEPT !.first = Garbage, !.want = {}, !.overtaken = TRUE]

\* pageFound->frame_num, and the first byte of the value.  When the page was
\* freed meanwhile the number is whatever its memory holds now, and the value
\* anything: Garbage.
BeginRead(c) ==
  /\ reading[c].pc = "found"
  /\ IF Held(c) = {} \/ reading[c].overtaken
     THEN reading' = [reading EXCEPT ![c] = Overtaken([@ EXCEPT !.pc = "copying"])]
     ELSE \E i \in Held(c) :
            reading' = [reading EXCEPT
                          ![c].pc = "copying", ![c].frame = pages[i].frame_num,
                          ![c].first = frames[pages[i].frame_num].value]
  /\ pages' = [i \in DOMAIN pages |-> [pages[i] EXCEPT !.heldBy = @ \ {c}]]
  /\ UNCHANGED <<segments, frames, bitmap, now, fs, history>>

\* The rest of the value: string_duplicate takes no lock, and the frame may
\* have been written since.
EndRead(c) ==
  /\ reading[c].pc = "copying"
  /\ LET answer == [reading[c] EXCEPT !.pc = "done", !.frame = 0] IN
     reading' = [reading EXCEPT ![c] =
                   IF answer.first = frames[reading[c].frame].value THEN answer
                   ELSE Overtaken(answer)]
  /\ UNCHANGED <<cache, now, fs, history>>

Answer(c) ==
  /\ reading[c].pc = "done"
  /\ reading' = [reading EXCEPT ![c] = Idle]
  /\ UNCHANGED <<cache, now, fs, history>>

-----------------------------------------------------------------------------
(* createM and dropM.                                                      *)

Create(t) ==
  /\ t \notin fsTables
  /\ fsTables' = fsTables \cup {t}
  /\ UNCHANGED <<cache, now, store, reading, history>>

\* remove_delete_segment: the first in the list.
RemoveSegment(t) ==
  \/ ~Contains(segments, t) /\ UNCHANGED segments
  \/ \E n \in DOMAIN segments :
       /\ segments[n] = t /\ \A m \in 1 .. n - 1 : segments[m] # t
       /\ segments' = RemoveAt(segments, n)

\* The members of a finite set of positions, in order.
InOrder(S) ==
  {f \in Bijection(1 .. Cardinality(S), S) : \A m, n \in DOMAIN f : m < n => f[m] < f[n]}

\* The file system has the table, and drops it.
DroppedInFS(t) ==
  /\ t \in fsTables
  /\ fsTables' = fsTables \ {t}
  /\ store' = [store EXCEPT ![t] = [k \in Keys |-> {}]]

\* The file system says so: the segment of the table, if there is one, goes too.
Drop(t) ==
  /\ DroppedInFS(t)
  /\ RemoveSegment(t)
  /\ \E kept \in InOrder({i \in DOMAIN pages : pages[i].table # t}) :
       pages' = [n \in DOMAIN kept |-> pages[kept[n]]]
  /\ bitmap' = bitmap \ {pages[i].frame_num : i \in {n \in DOMAIN pages : pages[n].table = t}}
  /\ expected' = [expected EXCEPT ![t] = [k \in Keys |-> NoValue]]
  /\ reading' = [c \in Clients |->
                   IF Follows(c, t)
                   THEN [reading[c] EXCEPT !.want = @ \cup {NoValue}] ELSE reading[c]]
  /\ UNCHANGED <<frames, now, confused>>

\* The connection breaks before the answer comes, which send_drop_to_FS cannot tell
\* from a refusal: the segment outlives its table, with all its pages, and dropM tells
\* the client that it was dropped.  (When it was refused nothing has changed.)
DropUnanswered(t) ==
  /\ DroppedInFS(t)
  /\ expected' = [expected EXCEPT ![t] =
                    [k \in Keys |-> IF Hits(t, k) = {} THEN NoValue ELSE Garbage]]
  /\ UNCHANGED <<cache, now, reading, confused>>

Tick ==
  /\ now < MaxTime
  /\ now' = now + 1
  /\ UNCHANGED <<cache, fs, reading, history>>

-----------------------------------------------------------------------------
Init ==
  /\ segments = <<>>
  /\ pages = <<>>
  /\ frames = [f \in Frames |-> [key |-> NoKey, ts |-> 0, value |-> Garbage]]
  /\ bitmap = StartMarks
  /\ now = 0
  /\ fsTables = {p[1] : p \in Preloaded}
  /\ store = [t \in Tables |-> [k \in Keys |->
                IF <<t, k>> \in Preloaded THEN {[ts |-> 0, value |-> OldValue]} ELSE {}]]
  /\ reading = [c \in Clients |-> Idle]
  /\ expected = [t \in Tables |-> [k \in Keys |->
                   IF <<t, k>> \in Preloaded THEN OldValue ELSE NoValue]]
  /\ confused = FALSE

Next ==
  \/ \E t \in Tables, k \in Keys, v \in Values :
       \/ Insert(t, k, v)
       \/ \E broken \in SUBSET Modified : InsertAfterJournal(t, k, v, broken)
  \/ \E t \in Tables, k \in Keys, v \in Known :
       \/ SelectMiss(t, k, v)
       \/ \E broken \in SUBSET Modified :
            \/ SelectAfterJournal(t, k, v, broken)
            \/ SelectCancelled(t, k, v, broken)
  \/ \E t \in Tables, k \in Keys, broken \in SUBSET Modified : InsertCancelled(t, k, broken)
  \/ \E broken \in SUBSET Modified : Journal(broken)
  \/ \E c \in Clients :
       \/ \E t \in Tables, k \in Keys : SelectHit(c, t, k)
       \/ BeginRead(c)
       \/ EndRead(c)
       \/ Answer(c)
  \/ \E t \in Tables : Create(t) \/ Drop(t) \/ DropUnanswered(t)
  \/ Tick

Spec == Init /\ [][Next]_vars
-----------------------------------------------------------------------------
(* Properties.                                                             *)

Records == [ts : Stamps, value : Known]
Frame   == [key : Keys \cup {NoKey}, ts : Stamps, value : Known \cup {Garbage}]
Read    == [pc : {"found", "copying", "done"}, table : Tables, key : Keys, frame : Frames,
            first : Known \cup {NoValue, Garbage}, want : SUBSET (Known \cup {NoValue, Garbage}),
            overtaken : BOOLEAN]

TypeOK ==
  /\ segments \in Seq(Tables)
  /\ pages \in Seq(Page)
  /\ frames \in [Frames -> Frame]
  /\ bitmap \subseteq Frames
  /\ now \in Stamps
  /\ fsTables \subseteq Tables
  /\ store \in [Tables -> [Keys -> SUBSET Records]]
  /\ reading \in [Clients -> Read \cup {Idle}]
  /\ expected \in [Tables -> [Keys -> Known \cup {NoValue, Garbage}]]
  /\ confused \in BOOLEAN

\* The bitmap and the pages agree: no two pages share a frame, every page's
\* frame is marked, and a mark without a page is one create_bitmap left.  Loads,
\* replacements, journals and drops each keep their own part of this.
FramesAccounted ==
  ~confused =>
    /\ \A i, j \in DOMAIN pages : pages[i].frame_num = pages[j].frame_num => i = j
    /\ Holding \subseteq bitmap
    /\ bitmap \ Holding \subseteq StartMarks

\* search_page finds the page there is: no key of a table has two pages, no
\* table two segments, and a page's segment is in the list.
OnePagePerKey ==
  /\ \A m, n \in DOMAIN segments : segments[m] = segments[n] => m = n
  /\ \A i \in DOMAIN pages : Contains(segments, pages[i].table)
  /\ ~confused => \A t \in Tables, k \in Keys : \A i, j \in Hits(t, k) : i = j

\* What a SELECT of the key could be answered now.  Records sent with equal
\* timestamps are all newest: the file system answers any of them.
Answers(t, k) ==
  IF Hits(t, k) # {} THEN {frames[pages[i].frame_num].value : i \in Hits(t, k)}
  ELSE IF store[t][k] = {} THEN {NoValue}
  ELSE {r.value : r \in store[t][k]}

\* What a client was told of a key last (its own INSERT, a SELECT, or the DROP of the
\* table) is what the next SELECT may answer, through every replacement, journal and
\* failed journal.  The keys excepted are those whose value a journal took for sent
\* without the file system having it, those an INSERT found no page for, and those
\* that had a page when the answer to a DROP was lost: only they outlive their table.
ReadsOwnWrites ==
  ~confused => \A t \in Tables, k \in Keys :
    expected[t][k] # Garbage => expected[t][k] \in Answers(t, k)

\* A SELECT that hit, and whose page was neither freed nor rewritten until it
\* had copied the value, answers a value its key had while it ran.
SelectAnswersItsKey ==
  ~confused => \A c \in Clients :
    reading[c].pc = "done" /\ ~reading[c].overtaken => reading[c].first \in reading[c].want

\* "Se remueve la key %d del segmento %s" (Memory.c:764): the page a replacement
\* removes is the page it chose.
RemovesThePageItLogs == ~confused
=============================================================================
