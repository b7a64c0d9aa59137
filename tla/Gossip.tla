------------------------------- MODULE Gossip -------------------------------
(***************************************************************************)
(* How memories learn of one another.  Each memory keeps a list,           *)
(* gossip_table, first of all with itself.  Its gossip thread goes round   *)
(* the seeds of its configuration: a seed it cannot connect to is removed  *)
(* from the list; to the others it sends the list and adds what they       *)
(* answer.  The thread that attends it on the other side adds what it      *)
(* receives and then sends the list there.  A list is sent as a count and  *)
(* an entry at a time; whoever reads on when the sender is gone takes what *)
(* its variables happened to hold (packaging.c:128-154).                   *)
(*                                                                         *)
(* MUTEX_GOSSIP is passed by value (Gossip.c:3 and 57): each call locks a  *)
(* copy, so the threads of a memory are not ordered over its list.  Of     *)
(* list_add and list_remove the steps here are what they read first (the   *)
(* last node, the index) and what they write (the link, elements_count);   *)
(* when two overlap, either write may be lost.                             *)
(*                                                                         *)
(* Left out: the limit of connections (attending a client waits for no     *)
(* other), and a search that is walking a node when it is freed.           *)
(***************************************************************************)
EXTENDS Integers, Sequences, SequencesExt, Functions

CONSTANTS
  Memories,    \* MEMORY_NUMBER of each memory
  Junk,        \* a number no memory has
  Seeds,       \* Seeds[m]: the seeds of m's configuration, in order
  MaxEvents    \* bound: starts of a memory, and entries read where none was sent

ASSUME MemoriesAssumption == Junk \notin Memories
ASSUME SeedsAssumption ==
  /\ Seeds \in [Memories -> Seq(Memories)]
  /\ \A m \in Memories : m \notin Range(Seeds[m])
ASSUME BoundsAssumption == MaxEvents \in Nat

Entries == Memories \cup {Junk}

\* The two ends of a connection: the gossip thread of the client, and the
\* thread of its peer that attends it.
Threads == {"client", "server"} \X Memories

Client(m) == <<"client", m>>
Server(m) == <<"server", m>>

VARIABLES
  status,   \* status[m]: "off", "booting" (no server yet) or "up"
  table,    \* table[m]: the nodes of gossip_table that can be reached, in order
  count,    \* count[m]: its elements_count
  at,       \* at[m]: the position of the seed the gossip thread of m is at
  pc,       \* pc[t]: where a thread is
  wire,     \* wire[m]: entries sent over m's connection and not read yet
  size,     \* size[m]: the count announced over it
  sent,     \* sent[m]: the entries of that count already sent
  cut,      \* cut[m]: the sender was gone before the last of them
  seen,     \* seen[m]: what list_add or list_remove has read of elements_count
            \*   or as index; -1 when the node it read has been freed
  garbage,  \* number of entries read that were not sent
  starts    \* number of starts

vars == <<status, table, count, at, pc, wire, size, sent, cut, seen, garbage, starts>>

Peer(c) == Seeds[c][at[c]]

\* The memory thread t runs in.
Home(t) == IF t[1] = "client" THEN t[2] ELSE Peer(t[2])

\* The threads of m in an exchange.
ThreadsOf(m) == {t \in Threads : pc[t] \notin {"none", "next"} /\ Home(t) = m}

InBounds == garbage + starts < MaxEvents

\* The other end of t's connection.
Other(t) == IF t[1] = "client" THEN Server(t[2]) ELSE Client(t[2])

\* It is there.
Heard(t) == IF t[1] = "client" THEN pc[Other(t)] # "none" ELSE status[t[2]] # "off"

-----------------------------------------------------------------------------

TypeOK ==
  /\ status \in [Memories -> {"off", "booting", "up"}]
  /\ table \in [Memories -> Seq(Entries)]
  /\ count \in [Memories -> Nat]
  /\ at \in [Memories -> Nat]
  /\ \A m \in Memories : at[m] \in DOMAIN Seeds[m] \/ Seeds[m] = <<>>
  /\ pc \in [Threads -> {"none", "next", "remove", "uncount", "send", "wait",
                     "recv", "add", "link", "count"}]
  /\ wire \in [Memories -> Seq(Entries)]
  /\ size \in [Memories -> Nat]
  /\ sent \in [Memories -> Nat]
  /\ cut \in [Memories -> BOOLEAN]
  /\ seen \in [Memories -> Nat \cup {-1}]
  /\ garbage \in Nat /\ starts \in Nat /\ garbage + starts <= MaxEvents

Init ==
  /\ status = [m \in Memories |-> "off"]
  /\ table = [m \in Memories |-> <<>>]
  /\ count = [m \in Memories |-> 0]
  /\ at = [m \in Memories |-> 1]
  /\ pc = [t \in Threads |-> IF t[1] = "client" THEN "next" ELSE "none"]
  /\ wire = [m \in Memories |-> <<>>]
  /\ size = [m \in Memories |-> 0]
  /\ sent = [m \in Memories |-> 0]
  /\ cut = [m \in Memories |-> FALSE]
  /\ seen = [m \in Memories |-> 0]
  /\ garbage = 0
  /\ starts = 0

-----------------------------------------------------------------------------
(* A memory starts and ends.                                               *)

\* Mutant: the seeds are listed from the start.
StartKnowingSeeds(m) ==
  /\ status[m] = "off" /\ pc[Server(m)] = "none"
  /\ InBounds
  /\ starts' = starts + 1
  /\ status' = [status EXCEPT ![m] = "booting"]
  /\ table' = [table EXCEPT ![m] = <<m>> \o Seeds[m]]
  /\ count' = [count EXCEPT ![m] = 1 + Len(Seeds[m])]
  /\ at' = [at EXCEPT ![m] = 1]
  /\ UNCHANGED <<pc, wire, size, sent, cut, seen, garbage>>

\* memory_init, and the gossip thread.  A start takes longer than what the
\* other side has still to do for a connection of the process before.
Start(m) ==
  /\ status[m] = "off" /\ pc[Server(m)] = "none"
  /\ InBounds
  /\ starts' = starts + 1
  /\ status' = [status EXCEPT ![m] = "booting"]
  /\ table' = [table EXCEPT ![m] = <<m>>]
  /\ count' = [count EXCEPT ![m] = 1]
  /\ at' = [at EXCEPT ![m] = 1]
  /\ UNCHANGED <<pc, wire, size, sent, cut, seen, garbage>>

\* listen_client is started after the gossip thread.
Listen(m) ==
  /\ status[m] = "booting"
  /\ status' = [status EXCEPT ![m] = "up"]
  /\ UNCHANGED <<table, count, at, pc, wire, size, sent, cut, seen, garbage, starts>>

\* The connections over which a thread of m is in one of the places ps.
Held(m, ps) == {t[2] : t \in {u \in ThreadsOf(m) : pc[u] \in ps}}

\* Inside recv_gossip_table, and inside list_remove.
Reading == {"recv", "add", "link", "count"}
Removing == {"remove", "uncount"}

\* The process of m is gone, with its threads.  What it has sent can still be
\* read; of what it was sending, only the beginning.
Gone(m) ==
  LET mine == ThreadsOf(m)
      reading == Held(m, Reading)
      sending == Held(m, {"send"})
      adding == Held(m, Reading \cup Removing)
  IN /\ status' = [status EXCEPT ![m] = "off"]
     /\ table' = [table EXCEPT ![m] = <<>>]
     /\ count' = [count EXCEPT ![m] = 0]
     /\ pc' = [t \in Threads |->
                 IF t \notin mine THEN pc[t]
                 ELSE IF t[1] = "client" THEN "next" ELSE "none"]
     /\ wire' = [c \in Memories |-> IF c \in reading THEN <<>> ELSE wire[c]]
     /\ cut' = [c \in Memories |->
                  \/ \E t \in mine : t[2] = c /\ pc[t] = "send" /\ Heard(t)
                  \/ cut[c] /\ c \notin reading]
     /\ size' = [c \in Memories |-> IF c \in sending THEN 0 ELSE size[c]]
     /\ sent' = [c \in Memories |-> IF c \in sending THEN 0 ELSE sent[c]]
     /\ seen' = [c \in Memories |-> IF c \in adding THEN 0 ELSE seen[c]]
     /\ UNCHANGED <<at, garbage, starts>>

\* The console's exit, or a kill.
Stop(m) == status[m] # "off" /\ InBounds /\ Gone(m)

-----------------------------------------------------------------------------
(* send_gossip_table.                                                      *)

\* list_size, and the count goes out.
Announce(c, m) ==
  /\ size' = [size EXCEPT ![c] = count[m]]
  /\ sent' = [sent EXCEPT ![c] = 0]

\* The next entry.  Past the end of the list list_get gives NULL, or walks through
\* one.  With the other end gone a send raises SIGPIPE, or nothing.
Send(t) ==
  LET m == Home(t)
      c == t[2]
      done == /\ pc' = [pc EXCEPT ![t] = IF t[1] = "client" THEN "wait" ELSE "none"]
              /\ size' = [size EXCEPT ![c] = 0]
              /\ sent' = [sent EXCEPT ![c] = 0]
  IN /\ pc[t] = "send"
     /\ \/ /\ Heard(t) /\ sent[c] < size[c]
           /\ sent[c] < count[m] /\ sent[c] < Len(table[m])
           /\ wire' = [wire EXCEPT ![c] = Append(@, table[m][sent[c] + 1])]
           /\ IF sent[c] + 1 = size[c]
                THEN done
                ELSE sent' = [sent EXCEPT ![c] = @ + 1] /\ UNCHANGED <<pc, size>>
           /\ UNCHANGED <<status, table, count, at, cut, seen, garbage, starts>>
        \/ /\ ~Heard(t) \/ size[c] = 0
           /\ done
           /\ UNCHANGED <<status, table, count, at, wire, cut, seen, garbage, starts>>
        \/ ~Heard(t) /\ Gone(m)
        \/ /\ Heard(t) /\ sent[c] < size[c]
           /\ sent[c] >= count[m] \/ sent[c] >= Len(table[m])
           /\ Gone(m)

-----------------------------------------------------------------------------
(* recv_gossip_table.                                                      *)

\* Mutant: memories are told apart by their address only, one for a whole host.
ListedByIp(m, e) == table[m] # <<>>

Listed(m, e) == e \in Range(table[m])

\* list_any_satisfy, for an entry that has come.
Look(t) ==
  LET m == Home(t)
      c == t[2]
  IN /\ pc[t] = "recv" /\ wire[c] # <<>>
     /\ IF Listed(m, Head(wire[c]))
          THEN wire' = [wire EXCEPT ![c] = Tail(@)] /\ UNCHANGED pc
          ELSE pc' = [pc EXCEPT ![t] = "add"] /\ UNCHANGED wire
     /\ UNCHANGED <<status, table, count, at, size, sent, cut, seen, garbage, starts>>

\* list_add walks to the last node, as many as elements_count says.
WalkToLast(t) ==
  /\ pc[t] = "add"
  /\ IF count[Home(t)] > Len(table[Home(t)])
       THEN Gone(Home(t))
       ELSE /\ seen' = [seen EXCEPT ![t[2]] = count[Home(t)]]
            /\ pc' = [pc EXCEPT ![t] = "link"]
            /\ UNCHANGED <<status, table, count, at, wire, size, sent, cut, garbage, starts>>

\* What the other threads of t's memory have read as the node to link to, when the
\* i-th leaves the list: those after it leave too, or come forward.
Moved(t, i, forward) ==
  [c \in Memories |->
     IF c \notin Held(Home(t), {"link"}) \/ c = t[2] \/ seen[c] < i THEN seen[c]
     ELSE IF forward /\ seen[c] > i THEN seen[c] - 1 ELSE -1]

\* It links the entry there, in the place of what has been linked since, and reads
\* elements_count to increment it.
Link(t) ==
  LET m == Home(t)
      c == t[2]
      last == seen[c]
  IN /\ pc[t] = "link"
     /\ IF last \notin 0 .. Len(table[m])
          THEN UNCHANGED table /\ seen' = [seen EXCEPT ![c] = count[m]]
          ELSE /\ table' = [table EXCEPT ![m] = Append(SubSeq(@, 1, last), Head(wire[c]))]
               /\ seen' = [Moved(t, last + 1, FALSE) EXCEPT ![c] = count[m]]
     /\ pc' = [pc EXCEPT ![t] = "count"]
     /\ UNCHANGED <<status, count, at, wire, size, sent, cut, garbage, starts>>

Count(t) ==
  LET m == Home(t)
      c == t[2]
  IN /\ pc[t] = "count"
     /\ count' = [count EXCEPT ![m] = seen[c] + 1]
     /\ seen' = [seen EXCEPT ![c] = 0]
     /\ wire' = [wire EXCEPT ![c] = Tail(@)]
     /\ pc' = [pc EXCEPT ![t] = "recv"]
     /\ UNCHANGED <<status, table, at, size, sent, cut, garbage, starts>>

\* recv at the end of a message that was cut: an entry with whatever number its
\* variables held, or a length no malloc gives.
ReadPastEnd(t) ==
  /\ pc[t] = "recv" /\ wire[t[2]] = <<>> /\ cut[t[2]]
  /\ \/ Gone(Home(t))
     \/ /\ InBounds
        /\ garbage' = garbage + 1
        /\ \E e \in Entries : wire' = [wire EXCEPT ![t[2]] = <<e>>]
        /\ UNCHANGED <<status, table, count, at, pc, size, sent, cut, seen, starts>>

\* All that was announced has been read.  For a message that was cut the loop
\* ends too: what is left of it are entries already listed, or a count of none.
Received(t) == pc[t] = "recv" /\ wire[t[2]] = <<>> /\ pc[Other(t)] # "send"

-----------------------------------------------------------------------------
(* execute_gossip_client, for each seed.                                   *)

\* Mutant: the round does not start again.
NextSeedUnbounded(m) == at[m] + 1

NextSeed(m) == IF at[m] < Len(Seeds[m]) THEN at[m] + 1 ELSE 1

GoOn(m) ==
  /\ pc' = [pc EXCEPT ![Client(m)] = "next"]
  /\ at' = [at EXCEPT ![m] = NextSeed(m)]

InRound(m) == status[m] # "off" /\ Seeds[m] # <<>>

\* connectToServer fails: delete_mem_from_gossip_table looks for the first with
\* that address; one added from a message that was cut has another.
ConnectFails(m) ==
  /\ InRound(m) /\ pc[Client(m)] = "next"
  /\ status[Peer(m)] # "up"
  /\ \/ /\ ~Listed(m, Peer(m)) \/ garbage > 0
        /\ GoOn(m)
        /\ UNCHANGED seen
     \/ \E i \in DOMAIN table[m] :
          /\ table[m][i] = Peer(m)
          /\ \A j \in 1 .. i - 1 : table[m][j] = Peer(m) => garbage > 0
          /\ seen' = [seen EXCEPT ![m] = i]
          /\ pc' = [pc EXCEPT ![Client(m)] = "remove"]
          /\ UNCHANGED at
  /\ UNCHANGED <<status, table, count, wire, size, sent, cut, garbage, starts>>

\* list_remove of that index, by then the node of another perhaps...
Unlink(m) ==
  LET i == seen[m]
  IN /\ pc[Client(m)] = "remove"
     /\ \/ i <= count[m] /\ i > Len(table[m]) /\ Gone(m)
        \/ /\ i > count[m]
           /\ GoOn(m)
           /\ seen' = [seen EXCEPT ![m] = 0]
           /\ UNCHANGED <<status, table, count, wire, size, sent, cut, garbage, starts>>
        \/ /\ i <= count[m] /\ i <= Len(table[m])
           /\ table' = [table EXCEPT ![m] = RemoveAt(@, i)]
           /\ seen' = [Moved(Client(m), i, TRUE) EXCEPT ![m] = count[m]]
           /\ pc' = [pc EXCEPT ![Client(m)] = "uncount"]
           /\ UNCHANGED <<status, count, at, wire, size, sent, cut, garbage, starts>>

\* ... and the decrement of elements_count.
Uncount(m) ==
  /\ pc[Client(m)] = "uncount"
  /\ count' = [count EXCEPT ![m] = seen[m] - 1]
  /\ seen' = [seen EXCEPT ![m] = 0]
  /\ GoOn(m)
  /\ UNCHANGED <<status, table, wire, size, sent, cut, garbage, starts>>

\* It connects and begins to send its list.
Connect(m) ==
  /\ InRound(m) /\ pc[Client(m)] = "next"
  /\ status[Peer(m)] = "up"
  /\ pc' = [pc EXCEPT ![Client(m)] = "send", ![Server(m)] = "recv"]
  /\ Announce(m, m)
  /\ UNCHANGED <<status, table, count, at, wire, cut, seen, garbage, starts>>

\* The other end is gone before it has answered: a send raises SIGPIPE, or
\* what it takes for the answer is no success and it goes on, or is one.
AnswerFails(m) ==
  /\ pc[Client(m)] = "wait" /\ pc[Server(m)] = "none"
  /\ \/ /\ GoOn(m)
        /\ UNCHANGED <<status, table, count, wire, size, sent, cut, seen, garbage, starts>>
     \/ /\ pc' = [pc EXCEPT ![Client(m)] = "recv"]
        /\ cut' = [cut EXCEPT ![m] = TRUE]
        /\ UNCHANGED <<status, table, count, at, wire, size, sent, seen, garbage, starts>>
     \/ Gone(m)

EndExchange(m) ==
  /\ Received(Client(m))
  /\ GoOn(m)
  /\ cut' = [cut EXCEPT ![m] = FALSE]
  /\ UNCHANGED <<status, table, count, wire, size, sent, seen, garbage, starts>>

-----------------------------------------------------------------------------
(* execute_gossip_server, in the thread of c's peer that attends c: the    *)
(* answer, RESPONSE_SUCCESS and its own list.                              *)

Respond(c) ==
  /\ Received(Server(c))
  /\ pc' = [pc EXCEPT ![Server(c)] = "send",
                      ![Client(c)] = IF @ = "wait" THEN "recv" ELSE @]
  /\ cut' = [cut EXCEPT ![c] = FALSE]
  /\ Announce(c, Peer(c))
  /\ UNCHANGED <<status, table, count, at, wire, seen, garbage, starts>>

-----------------------------------------------------------------------------

Exchange(t) ==
  \/ Send(t) \/ Look(t) \/ WalkToLast(t) \/ Link(t) \/ Count(t) \/ ReadPastEnd(t)

GossipThread(m) ==
  \/ ConnectFails(m) \/ Unlink(m) \/ Uncount(m)
  \/ Connect(m) \/ AnswerFails(m) \/ EndExchange(m)
  \/ Exchange(Client(m))

AttendThread(c) == Respond(c) \/ Exchange(Server(c))

Next ==
  \E m \in Memories :
    Start(m) \/ Listen(m) \/ Stop(m) \/ GossipThread(m) \/ AttendThread(m)

\* A thread goes on while it can.  Some memory that has started comes to listen:
\* as starts are bounded, each does.  Without seeds a gossip thread has no step.
Fairness ==
  /\ WF_vars(\E m \in Memories : Listen(m))
  /\ \A m \in {c \in Memories : Seeds[c] # <<>>} :
       WF_vars(GossipThread(m)) /\ WF_vars(AttendThread(m))

Spec == Init /\ [][Next]_vars /\ Fairness

-----------------------------------------------------------------------------
(* Properties.                                                             *)

AllUp == \A m \in Memories : status[m] = "up"

\* A list or a message speaks of e.
Mentioned(e) ==
  \/ \E m \in Memories : e \in Range(table[m])
  \/ \E c \in Memories : e \in Range(wire[c])

\* What no list and no message speaks of, a number no memory has among them, comes
\* into a list by its memory being started, or where a message was cut by the end of
\* its sender: no race over the lists, failed connection or restart does it.
NobodyIsInvented ==
  [][\A e \in Entries :
       ~Mentioned(e) /\ Mentioned(e)' =>
         \/ e \in Memories /\ status[e] = "off" /\ status'[e] = "booting"
         \/ \E c \in Memories : cut[c]]_vars

\* Whatever stopped, was removed, lost or made up before, once every memory is up for
\* good each comes to know all of them, unless a list holds more nodes than its
\* elements_count says: the last of them are never sent.
Reconverges ==
  <>[]AllUp =>
    <>[]( \/ \A m \in Memories : Memories \subseteq Range(table[m])
          \/ \E m \in Memories : count[m] < Len(table[m]))
=============================================================================
