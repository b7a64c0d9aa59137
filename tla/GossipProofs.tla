---------------------------- MODULE GossipProofs ----------------------------
(***************************************************************************)
(* Proofs about gossip, for any number of memories, any seeds, any number  *)
(* of starts and of entries made up: types, and that the lists and the     *)
(* messages only repeat what a list or a message said, but for who is      *)
(* started and for readers of messages that were cut.                      *)
(***************************************************************************)
EXTENDS Gossip, SequenceTheorems, TLAPS

\* With an entry to add.
Adding == {"add", "link", "count"}

\* The two ends of m's connection: who is adding has what to add, only one reads,
\* and the gossip thread of a running memory is alone when it is in no exchange.
Orderly(m) ==
  /\ pc[Client(m)] \in Adding \/ pc[Server(m)] \in Adding => wire[m] # <<>>
  /\ pc[Client(m)] # "none" /\ pc[Server(m)] \in Reading \cup {"none", "send"}
  /\ pc[Client(m)] \in Reading => pc[Server(m)] \notin Reading
  /\ pc[Client(m)] # "next" => status[m] # "off"
  /\ status[m] # "off" /\ pc[Client(m)] \in Removing \cup {"next"} => pc[Server(m)] = "none"
  /\ pc[Client(m)] \in Removing => seen[m] >= 1
  /\ pc[Client(m)] # "next" \/ pc[Server(m)] # "none" => Seeds[m] # <<>>

ThreadsInv == \A m \in Memories : Orderly(m)

IInv == TypeOK /\ ThreadsInv

-----------------------------------------------------------------------------
(* Lists.                                                                  *)

LEMMA HeadTail ==
  ASSUME NEW S, NEW s \in Seq(S), s # <<>>
  PROVE  /\ Head(s) \in Range(s) /\ Head(s) \in S
         /\ Tail(s) \in Seq(S) /\ Range(Tail(s)) \subseteq Range(s)
<1>1. /\ Len(s) \in Nat /\ Len(s) > 0 /\ Head(s) = s[1] /\ 1 \in DOMAIN s
      /\ Tail(s) \in Seq(S) /\ DOMAIN Tail(s) = 1 .. Len(s) - 1
      /\ \A i \in 1 .. Len(s) - 1 : Tail(s)[i] = s[i + 1] /\ i + 1 \in DOMAIN s
  OBVIOUS
<1> QED BY <1>1 DEF Range

\* list_add.
LEMMA AppendRange ==
  ASSUME NEW S, NEW s \in Seq(S), NEW e \in S
  PROVE  /\ Append(s, e) \in Seq(S) /\ Append(s, e) # <<>>
         /\ Range(Append(s, e)) \subseteq Range(s) \cup {e}
BY DEF Range

\* A part of a list.
LEMMA PartRange ==
  ASSUME NEW S, NEW s \in Seq(S), NEW n \in 0 .. Len(s)
  PROVE  SubSeq(s, 1, n) \in Seq(S) /\ Range(SubSeq(s, 1, n)) \subseteq Range(s)
<1>1. 1 \in Int /\ n \in Int /\ \A i \in 1 .. n : s[i] \in S OBVIOUS
<1>2. /\ SubSeq(s, 1, n) \in Seq(S)
      /\ Len(SubSeq(s, 1, n)) = IF 1 <= n THEN n - 1 + 1 ELSE 0
      /\ \A i \in 1 .. n - 1 + 1 : SubSeq(s, 1, n)[i] = s[1 + i - 1]
  BY <1>1, SubSeqProperties
<1>3. \A i \in DOMAIN SubSeq(s, 1, n) : i \in DOMAIN s /\ SubSeq(s, 1, n)[i] = s[i] BY <1>2
<1> QED BY <1>2, <1>3 DEF Range

\* list_remove.
LEMMA RemovalRange ==
  ASSUME NEW S, NEW s \in Seq(S), NEW i \in DOMAIN s
  PROVE  RemoveAt(s, i) \in Seq(S) /\ Range(RemoveAt(s, i)) \subseteq Range(s)
<1>1. i \in 1 .. Len(s) /\ Len(s) \in Nat OBVIOUS
<1>2. i - 1 \in 0 .. Len(s) BY <1>1
<1>3. SubSeq(s, 1, i - 1) \in Seq(S) /\ Range(SubSeq(s, 1, i - 1)) \subseteq Range(s)
  BY <1>2, PartRange
<1>4. SubSeq(s, i + 1, Len(s)) \in Seq(S) /\ Range(SubSeq(s, i + 1, Len(s))) \subseteq Range(s)
  <2>1. i + 1 \in Int /\ Len(s) \in Int /\ \A n \in i + 1 .. Len(s) : s[n] \in S BY <1>1
  <2>2. /\ SubSeq(s, i + 1, Len(s)) \in Seq(S)
        /\ Len(SubSeq(s, i + 1, Len(s))) = IF i + 1 <= Len(s) THEN Len(s) - (i + 1) + 1 ELSE 0
        /\ \A n \in 1 .. Len(s) - (i + 1) + 1 : SubSeq(s, i + 1, Len(s))[n] = s[(i + 1) + n - 1]
    BY <2>1, SubSeqProperties
  <2>3. \A n \in DOMAIN SubSeq(s, i + 1, Len(s)) :
          (i + 1) + n - 1 \in DOMAIN s /\ SubSeq(s, i + 1, Len(s))[n] = s[(i + 1) + n - 1]
    BY <1>1, <2>2
  <2> QED BY <2>2, <2>3 DEF Range
<1> DEFINE a == SubSeq(s, 1, i - 1)
           b == SubSeq(s, i + 1, Len(s))
<1>5. RemoveAt(s, i) = a \o b BY DEF RemoveAt
<1> HIDE DEF a, b
<1>6. a \in Seq(S) /\ b \in Seq(S) /\ Range(a) \subseteq Range(s) /\ Range(b) \subseteq Range(s)
  BY <1>3, <1>4 DEF a, b
<1>7. /\ a \o b \in Seq(S) /\ Len(a \o b) = Len(a) + Len(b)
      /\ \A n \in 1 .. Len(a) + Len(b) : (a \o b)[n] = IF n <= Len(a) THEN a[n] ELSE b[n - Len(a)]
  BY <1>6, ConcatProperties
<1>8. ASSUME NEW n \in DOMAIN (a \o b) PROVE (a \o b)[n] \in Range(s)
  <2>1. n \in 1 .. Len(a) + Len(b) /\ Len(a) \in Nat /\ Len(b) \in Nat BY <1>6, <1>7
  <2>2. CASE n <= Len(a)
    <3>1. n \in DOMAIN a BY <2>1, <2>2, <1>6
    <3> QED BY <1>6, <1>7, <2>1, <2>2, <3>1 DEF Range
  <2>3. CASE ~(n <= Len(a))
    <3>1. n - Len(a) \in DOMAIN b BY <2>1, <2>3, <1>6
    <3> QED BY <1>6, <1>7, <2>1, <2>3, <3>1 DEF Range
  <2> QED BY <2>2, <2>3
<1>9. Range(RemoveAt(s, i)) \subseteq Range(s) BY <1>5, <1>8 DEF Range
<1> QED BY <1>5, <1>7, <1>9

-----------------------------------------------------------------------------
(* Threads.                                                                *)

LEMMA EndsOfThreads ==
  /\ \A m \in Memories :
       /\ Client(m) \in Threads /\ Client(m)[1] = "client" /\ Client(m)[2] = m
       /\ Server(m) \in Threads /\ Server(m)[1] = "server" /\ Server(m)[2] = m
  /\ \A m, n \in Memories :
       /\ Client(m) # Server(n)
       /\ m # n => Client(m) # Client(n) /\ Server(m) # Server(n)
  /\ \A t \in Threads :
       /\ t[2] \in Memories
       /\ \/ t[1] = "client" /\ t = Client(t[2])
          \/ t[1] = "server" /\ t = Server(t[2])
BY DEF Threads, Client, Server

\* A thread in an exchange runs in a memory.
LEMMA HomeType ==
  ASSUME IInv, NEW t \in Threads, pc[t] \notin {"none", "next"}
  PROVE  Home(t) \in Memories /\ t \in ThreadsOf(Home(t))
<1> DEFINE c == t[2]
<1>1. c \in Memories /\ Orderly(c) BY EndsOfThreads DEF IInv, ThreadsInv
<1>2. Seeds[c] # <<>> BY <1>1, EndsOfThreads DEF Orderly
<1>3. Seeds[c] \in Seq(Memories) /\ at[c] \in DOMAIN Seeds[c]
  BY <1>1, <1>2, SeedsAssumption DEF IInv, TypeOK
<1>4. Peer(c) \in Memories BY <1>3 DEF Peer
<1> QED BY <1>1, <1>4 DEF Home, ThreadsOf

\* A step over one connection.
LEMMA OneConnection ==
  ASSUME IInv, NEW c \in Memories, Orderly(c)',
         \A x \in Memories \ {c} :
           /\ pc'[Client(x)] = pc[Client(x)] /\ pc'[Server(x)] = pc[Server(x)]
           /\ status'[x] = status[x] /\ wire'[x] = wire[x]
           /\ seen'[x] = seen[x] \/ pc[Client(x)] = "link" \/ pc[Server(x)] = "link"
  PROVE  ThreadsInv'
<1> SUFFICES ASSUME NEW x \in Memories PROVE Orderly(x)' BY DEF ThreadsInv
<1>1. CASE x = c BY <1>1
<1>2. CASE x # c
  <2>1. Orderly(x) BY DEF IInv, ThreadsInv
  <2>2. /\ pc'[Client(x)] = pc[Client(x)] /\ pc'[Server(x)] = pc[Server(x)]
        /\ status'[x] = status[x] /\ wire'[x] = wire[x]
        /\ seen'[x] = seen[x] \/ pc[Client(x)] = "link" \/ pc[Server(x)] = "link"
    BY <1>2
  <2>3. pc[Client(x)] \in Removing => pc[Client(x)] # "link" /\ pc[Server(x)] # "link"
    BY <2>1 DEF Orderly, Removing
  <2> QED BY <2>1, <2>2, <2>3 DEF Orderly
<1> QED BY <1>1, <1>2

\* Thread t goes from one place to another, alone.
LEMMA Moving ==
  ASSUME IInv, NEW t \in Threads, NEW place, pc' = [pc EXCEPT ![t] = place]
  PROVE  /\ pc'[t] = place
         /\ \A x \in Memories \ {t[2]} :
              pc'[Client(x)] = pc[Client(x)] /\ pc'[Server(x)] = pc[Server(x)]
         /\ \/ /\ t = Client(t[2]) /\ pc'[Client(t[2])] = place
               /\ pc'[Server(t[2])] = pc[Server(t[2])]
            \/ /\ t = Server(t[2]) /\ pc'[Server(t[2])] = place
               /\ pc'[Client(t[2])] = pc[Client(t[2])]
<1>1. /\ pc'[t] = place
      /\ \A u \in Threads \ {t} : pc'[u] = pc[u]
  BY DEF IInv, TypeOK
<1>2. \A x \in Memories \ {t[2]} : Client(x) # t /\ Server(x) # t BY EndsOfThreads
<1>3. \A x \in Memories : Client(x) \in Threads /\ Server(x) \in Threads BY EndsOfThreads
<1>4. t[2] \in Memories /\ (t = Client(t[2]) \/ t = Server(t[2])) BY EndsOfThreads
<1>5. Client(t[2]) # Server(t[2]) BY <1>4, EndsOfThreads
<1> QED BY <1>1, <1>2, <1>3, <1>4, <1>5

\* The next seed is one of the configuration.
LEMMA SeedType ==
  ASSUME IInv, NEW m \in Memories, at' = [at EXCEPT ![m] = NextSeed(m)]
  PROVE  /\ at' \in [Memories -> Nat]
         /\ \A x \in Memories : at'[x] \in DOMAIN Seeds[x] \/ Seeds[x] = <<>>
<1>1. Seeds[m] \in Seq(Memories) /\ at \in [Memories -> Nat] /\ at[m] \in Nat
  BY SeedsAssumption DEF IInv, TypeOK
<1>2. \A x \in Memories : at[x] \in DOMAIN Seeds[x] \/ Seeds[x] = <<>> BY DEF IInv, TypeOK
<1>3. NextSeed(m) \in Nat /\ (NextSeed(m) \in DOMAIN Seeds[m] \/ Seeds[m] = <<>>)
  <2>1. DOMAIN Seeds[m] = 1 .. Len(Seeds[m]) /\ Len(Seeds[m]) \in Nat BY <1>1
  <2>2. CASE at[m] < Len(Seeds[m]) BY <1>1, <2>1, <2>2 DEF NextSeed
  <2>3. CASE ~(at[m] < Len(Seeds[m]))
    <3>1. NextSeed(m) = 1 BY <2>3 DEF NextSeed
    <3>2. Seeds[m] # <<>> => Len(Seeds[m]) >= 1 BY <1>1, <2>1
    <3> QED BY <2>1, <3>1, <3>2
  <2> QED BY <2>2, <2>3
<1> QED BY <1>1, <1>2, <1>3

-----------------------------------------------------------------------------
(* What a step may say.                                                    *)

Said == {e \in Entries : Mentioned(e)}

\* Who is started, and anything when a message was cut.
Made ==
  {e \in Entries :
     \/ e \in Memories /\ status[e] = "off" /\ status'[e] = "booting"
     \/ \E c \in Memories : cut[c]}

\* Lists and messages repeat what was said.
Repeats ==
  /\ \A x \in Memories : Range(table'[x]) \subseteq Said \cup Made
  /\ \A c \in Memories : Range(wire'[c]) \subseteq Said \cup Made

LEMMA SaidFacts ==
  ASSUME TypeOK
  PROVE  \A x \in Memories : Range(table[x]) \subseteq Said /\ Range(wire[x]) \subseteq Said
<1>1. \A s \in Seq(Entries) : Range(s) \subseteq Entries BY DEF Range
<1>2. \A x \in Memories : table[x] \in Seq(Entries) /\ wire[x] \in Seq(Entries)
  BY DEF TypeOK
<1> QED BY <1>1, <1>2 DEF Said, Mentioned

LEMMA NothingSaid == <<>> \in Seq(Entries) /\ Range(<<>>) = {}
BY DEF Range

\* The process of a memory is gone.
LEMMA GoneInv == ASSUME IInv, NEW m \in Memories, Gone(m) PROVE IInv' /\ Repeats
<1> USE DEF IInv
<1>1. \A t \in Threads : pc'[t] = pc[t] \/ pc'[t] \in {"none", "next"} BY DEF Gone
<1>2. TypeOK'
  <2>1. pc' \in [Threads -> {"none", "next", "remove", "uncount", "send", "wait",
                             "recv", "add", "link", "count"}]
    BY DEF Gone, TypeOK
  <2>2. wire' \in [Memories -> Seq(Entries)] BY NothingSaid DEF Gone, TypeOK
  <2>3. cut' \in [Memories -> BOOLEAN]
    <3>1. \A c \in Memories : cut[c] \in BOOLEAN BY DEF TypeOK
    <3> QED BY Zenon, <3>1 DEF Gone
  <2>4. /\ size' \in [Memories -> Nat] /\ sent' \in [Memories -> Nat]
        /\ seen' \in [Memories -> Nat \cup {-1}]
    BY DEF Gone, TypeOK
  <2>5. /\ status' \in [Memories -> {"off", "booting", "up"}]
        /\ table' \in [Memories -> Seq(Entries)] /\ count' \in [Memories -> Nat]
    BY NothingSaid DEF Gone, TypeOK
  <2>6. UNCHANGED <<at, garbage, starts>> BY DEF Gone
  <2> QED BY <2>1, <2>2, <2>3, <2>4, <2>5, <2>6 DEF TypeOK
<1>3. ThreadsInv'
  <2> SUFFICES ASSUME NEW x \in Memories PROVE Orderly(x)' BY DEF ThreadsInv
  <2>1. Orderly(x) BY DEF ThreadsInv
  <2>2. /\ pc'[Client(x)] = IF Client(x) \in ThreadsOf(m) THEN "next" ELSE pc[Client(x)]
        /\ pc'[Server(x)] = IF Server(x) \in ThreadsOf(m) THEN "none" ELSE pc[Server(x)]
    BY EndsOfThreads DEF Gone
  <2>3. Client(x) \in ThreadsOf(m) <=> x = m /\ pc[Client(x)] \notin {"none", "next"}
    BY EndsOfThreads DEF ThreadsOf, Home
  <2>4. status'[x] = IF x = m THEN "off" ELSE status[x] BY DEF Gone, TypeOK
  <2>5. pc'[Client(x)] \in Adding \/ pc'[Server(x)] \in Adding => wire'[x] # <<>>
    <3>1. SUFFICES ASSUME NEW t \in {Client(x), Server(x)}, pc'[t] \in Adding
                   PROVE  wire'[x] # <<>>
      OBVIOUS
    <3>2. t \notin ThreadsOf(m) /\ pc[t] \in Adding /\ wire[x] # <<>>
      BY <2>1, <2>2, <3>1 DEF Orderly, Adding
    <3>3. ASSUME x \in Held(m, Reading) PROVE FALSE
      <4>1. PICK u \in ThreadsOf(m) : u[2] = x /\ pc[u] \in Reading BY <3>3 DEF Held
      <4>2. u \in {Client(x), Server(x)} BY <4>1, EndsOfThreads DEF ThreadsOf
      <4>3. u # t BY <3>2
      <4> QED BY <2>1, <3>2, <4>1, <4>2, <4>3 DEF Orderly, Adding, Reading
    <3>4. wire'[x] = wire[x] BY <3>3 DEF Gone
    <3> QED BY <3>2, <3>4
  <2>6. pc'[Client(x)] \in Removing => seen'[x] >= 1
    <3>1. SUFFICES ASSUME pc'[Client(x)] \in Removing PROVE seen'[x] >= 1 OBVIOUS
    <3>2. Client(x) \notin ThreadsOf(m) /\ pc[Client(x)] \in Removing /\ seen[x] >= 1
      BY <2>1, <2>2, <3>1 DEF Orderly, Removing
    <3>3. ASSUME x \in Held(m, Reading \cup Removing) PROVE FALSE
      <4>1. PICK u \in ThreadsOf(m) : u[2] = x /\ pc[u] \in Reading \cup Removing
        BY <3>3 DEF Held
      <4>2. u \in {Client(x), Server(x)} /\ u # Client(x)
        BY <3>2, <4>1, EndsOfThreads DEF ThreadsOf
      <4>3. pc[Server(x)] = "none" BY <2>1, <3>2 DEF Orderly, Removing
      <4> QED BY <4>1, <4>2, <4>3 DEF Reading, Removing
    <3>4. seen'[x] = seen[x] BY <3>3 DEF Gone
    <3> QED BY <3>2, <3>4
  <2>7. pc'[Client(x)] # "next" => pc[Client(x)] # "next" /\ status'[x] # "off"
    <3>1. pc[Client(x)] # "none" BY <2>1 DEF Orderly
    <3> QED BY <2>1, <2>2, <2>3, <2>4, <3>1 DEF Orderly
  <2> QED BY <2>1, <2>2, <2>3, <2>4, <2>5, <2>6, <2>7 DEF Orderly, Reading, Removing
<1>4. Repeats
  <2>1. \A x \in Memories : table'[x] = table[x] \/ table'[x] = <<>> BY DEF Gone, TypeOK
  <2>2. \A x \in Memories : wire'[x] = wire[x] \/ wire'[x] = <<>> BY DEF Gone
  <2> QED BY <2>1, <2>2, NothingSaid, SaidFacts DEF Repeats
<1> QED BY <1>2, <1>3, <1>4

-----------------------------------------------------------------------------
(* A memory starts.                                                        *)

LEMMA StartInv == ASSUME IInv, NEW m \in Memories, Start(m) PROVE IInv' /\ Repeats
<1> USE DEF IInv, Start
<1>0. Orderly(m) /\ pc[Client(m)] = "next" BY DEF ThreadsInv, Orderly
<1>1. TypeOK'
  <2>1. <<m>> \in Seq(Entries) BY DEF Entries
  <2>2. 1 \in DOMAIN Seeds[m] \/ Seeds[m] = <<>>
    <3>1. Seeds[m] \in Seq(Memories) BY SeedsAssumption
    <3> QED BY <3>1
  <2>3. starts' \in Nat /\ garbage + starts' <= MaxEvents
    BY BoundsAssumption DEF InBounds, TypeOK
  <2>4. /\ at' \in [Memories -> Nat]
        /\ \A x \in Memories : at'[x] \in DOMAIN Seeds[x] \/ Seeds[x] = <<>>
    BY <2>2 DEF TypeOK
  <2> QED BY <2>1, <2>3, <2>4 DEF TypeOK
<1>2. ThreadsInv'
  <2>1. \A x \in Memories \ {m} : status'[x] = status[x] BY DEF TypeOK
  <2>2. Orderly(m)' BY <1>0 DEF Orderly, Removing, Reading, Adding
  <2> QED BY <2>1, <2>2, OneConnection
<1>3. Repeats
  <2>1. Range(<<m>>) = {m} BY DEF Range
  <2>2. table'[m] = <<m>> /\ status'[m] = "booting" BY DEF TypeOK
  <2>3. \A x \in Memories : x # m => table'[x] = table[x] BY DEF TypeOK
  <2>4. m \in Made BY <2>2 DEF Made, Entries
  <2> QED BY <2>1, <2>2, <2>3, <2>4, SaidFacts DEF Repeats
<1> QED BY <1>1, <1>2, <1>3

LEMMA ListenInv == ASSUME IInv, NEW m \in Memories, Listen(m) PROVE IInv' /\ Repeats
<1> USE DEF IInv, Listen
<1>1. TypeOK' BY DEF TypeOK
<1>2. Orderly(m) /\ status'[m] = "up" /\ \A x \in Memories \ {m} : status'[x] = status[x]
  BY DEF ThreadsInv, TypeOK
<1>3. Orderly(m)' BY <1>2 DEF Orderly
<1>4. ThreadsInv' BY <1>2, <1>3, OneConnection
<1>5. Repeats BY SaidFacts DEF Repeats
<1> QED BY <1>1, <1>4, <1>5

-----------------------------------------------------------------------------
(* A list is sent and received.                                            *)

LEMMA SendInv == ASSUME IInv, NEW t \in Threads, Send(t) PROVE IInv' /\ Repeats
<1> USE DEF IInv
<1> DEFINE m == Home(t)
           c == t[2]
           done == /\ pc' = [pc EXCEPT ![t] = IF t[1] = "client" THEN "wait" ELSE "none"]
                   /\ size' = [size EXCEPT ![c] = 0]
                   /\ sent' = [sent EXCEPT ![c] = 0]
<1>0. pc[t] = "send" /\ m \in Memories /\ c \in Memories
  BY HomeType, EndsOfThreads DEF Send
<1>1. CASE Gone(m) BY <1>0, <1>1, GoneInv
<1>2. ASSUME \/ done
             \/ UNCHANGED <<pc, size>> /\ sent' = [sent EXCEPT ![c] = @ + 1],
             UNCHANGED <<status, table, count, at, cut, seen, garbage, starts>>,
             \/ UNCHANGED wire
             \/ /\ sent[c] < Len(table[m])
                /\ wire' = [wire EXCEPT ![c] = Append(@, table[m][sent[c] + 1])]
      PROVE  IInv' /\ Repeats
  <2>1. ASSUME wire' # wire
        PROVE  /\ wire'[c] \in Seq(Entries) /\ wire'[c] # <<>>
               /\ Range(wire'[c]) \subseteq Said /\ wire' = [wire EXCEPT ![c] = wire'[c]]
    <3>1. /\ table[m] \in Seq(Entries) /\ wire[c] \in Seq(Entries)
          /\ Range(table[m]) \subseteq Said /\ Range(wire[c]) \subseteq Said /\ sent[c] \in Nat
      BY <1>0, SaidFacts DEF TypeOK
    <3> DEFINE e == table[m][sent[c] + 1]
    <3>2. e \in Entries /\ e \in Said
      <4>1. sent[c] + 1 \in DOMAIN table[m] BY <1>2, <2>1, <3>1
      <4> QED BY <3>1, <4>1 DEF Range
    <3>3. wire' = [wire EXCEPT ![c] = Append(wire[c], e)] BY <1>2, <2>1
    <3> HIDE DEF e
    <3>4. wire'[c] = Append(wire[c], e) BY <1>0, <3>3 DEF TypeOK
    <3>6. /\ Append(wire[c], e) \in Seq(Entries) /\ Append(wire[c], e) # <<>>
          /\ Range(Append(wire[c], e)) \subseteq Range(wire[c]) \cup {e}
      BY <3>1, <3>2, AppendRange
    <3> QED BY <3>1, <3>2, <3>3, <3>4, <3>6
  <2>0. \A x \in Memories \ {c} : wire'[x] = wire[x]
    <3>1. CASE wire' = wire BY <3>1
    <3>2. CASE wire' # wire BY <1>0, <2>1, <3>2 DEF TypeOK
    <3> QED BY <3>1, <3>2
  <2>2. TypeOK'
    <3>1. wire' \in [Memories -> Seq(Entries)] BY <1>0, <2>1 DEF TypeOK
    <3>2. size' \in [Memories -> Nat] /\ sent' \in [Memories -> Nat]
      <4>1. size \in [Memories -> Nat] /\ sent \in [Memories -> Nat] /\ sent[c] + 1 \in Nat
        <5>1. sent \in [Memories -> Nat] /\ size \in [Memories -> Nat] BY <1>0 DEF TypeOK
        <5>2. sent[c] \in Nat BY <1>0, <5>1
        <5> QED BY <5>1, <5>2
      <4>2. CASE done BY <4>1, <4>2
      <4>3. CASE UNCHANGED <<pc, size>> /\ sent' = [sent EXCEPT ![c] = @ + 1] BY <4>1, <4>3
      <4> QED BY <1>2, <4>2, <4>3
    <3>3. pc' \in [Threads -> {"none", "next", "remove", "uncount", "send", "wait",
                               "recv", "add", "link", "count"}]
      BY <1>2 DEF TypeOK
    <3> QED BY <1>2, <3>1, <3>2, <3>3 DEF TypeOK
  <2>3. ThreadsInv'
    <3>1. Orderly(c) BY <1>0 DEF ThreadsInv
    <3>2. wire[c] # <<>> => wire'[c] # <<>> BY <2>1
    <3>3. /\ \A x \in Memories \ {c} :
               pc'[Client(x)] = pc[Client(x)] /\ pc'[Server(x)] = pc[Server(x)]
          /\ \/ /\ t = Client(c) /\ pc'[Client(c)] \in {"send", "wait"}
                /\ pc'[Server(c)] = pc[Server(c)]
             \/ /\ t = Server(c) /\ pc'[Server(c)] \in {"send", "none"}
                /\ pc'[Client(c)] = pc[Client(c)]
      <4>1. CASE done
        <5> DEFINE place == IF t[1] = "client" THEN "wait" ELSE "none"
        <5>1. pc' = [pc EXCEPT ![t] = place] BY <4>1
        <5>2. t = Client(c) => place = "wait" BY <1>0, EndsOfThreads
        <5>3. t = Server(c) => place = "none" BY <1>0, EndsOfThreads
        <5> HIDE DEF place
        <5> QED BY <5>1, <5>2, <5>3, Moving
      <4>2. CASE pc' = pc BY <1>0, <4>2, EndsOfThreads
      <4> QED BY <1>2, <4>1, <4>2
    <3>4. Orderly(c)'
      BY <1>0, <1>2, <3>1, <3>2, <3>3, EndsOfThreads DEF Orderly, Adding, Reading, Removing
    <3> QED BY <1>0, <1>2, <2>0, <3>3, <3>4, OneConnection
  <2>4. Repeats
    <3>1. Range(wire'[c]) \subseteq Said
      <4>1. CASE wire' = wire BY <1>0, <4>1, SaidFacts
      <4>2. CASE wire' # wire BY <2>1, <4>2
      <4> QED BY <4>1, <4>2
    <3>2. \A x \in Memories : Range(wire'[x]) \subseteq Said BY <2>0, <3>1, SaidFacts
    <3> QED BY <1>2, <3>2, SaidFacts DEF Repeats
  <2> QED BY <2>2, <2>3, <2>4
<1>3. \/ ~Heard(t) /\ Gone(m)
      \/ /\ ~Heard(t) \/ size[c] = 0
         /\ done
         /\ UNCHANGED <<status, table, count, at, wire, cut, seen, garbage, starts>>
      \/ /\ Heard(t) /\ sent[c] < size[c]
         /\ sent[c] >= count[m] \/ sent[c] >= Len(table[m])
         /\ Gone(m)
      \/ /\ Heard(t) /\ sent[c] < size[c]
         /\ sent[c] < count[m] /\ sent[c] < Len(table[m])
         /\ wire' = [wire EXCEPT ![c] = Append(@, table[m][sent[c] + 1])]
         /\ IF sent[c] + 1 = size[c]
              THEN done
              ELSE sent' = [sent EXCEPT ![c] = @ + 1] /\ UNCHANGED <<pc, size>>
         /\ UNCHANGED <<status, table, count, at, cut, seen, garbage, starts>>
  BY DEF Send
<1>4. CASE /\ done
           /\ UNCHANGED <<status, table, count, at, wire, cut, seen, garbage, starts>>
  BY <1>2, <1>4
<1>5. CASE /\ sent[c] < Len(table[m])
           /\ wire' = [wire EXCEPT ![c] = Append(@, table[m][sent[c] + 1])]
           /\ IF sent[c] + 1 = size[c]
                THEN done
                ELSE sent' = [sent EXCEPT ![c] = @ + 1] /\ UNCHANGED <<pc, size>>
           /\ UNCHANGED <<status, table, count, at, cut, seen, garbage, starts>>
  <2>1. CASE sent[c] + 1 = size[c]
    <3>1. done BY <1>5, <2>1
    <3> QED BY <1>2, <1>5, <3>1
  <2>2. CASE sent[c] + 1 # size[c]
    <3>1. sent' = [sent EXCEPT ![c] = @ + 1] /\ UNCHANGED <<pc, size>> BY <1>5, <2>2
    <3> QED BY <1>2, <1>5, <3>1
  <2> QED BY <2>1, <2>2
<1> HIDE DEF done
<1> QED BY <1>1, <1>3, <1>4, <1>5

\* What is left of a message when its first entry is taken.
LEMMA Taken ==
  ASSUME IInv, NEW c \in Memories, wire[c] # <<>>
  PROVE  /\ Head(wire[c]) \in Said /\ Head(wire[c]) \in Entries
         /\ Tail(wire[c]) \in Seq(Entries) /\ Range(Tail(wire[c])) \subseteq Said
<1>1. wire[c] \in Seq(Entries) /\ Range(wire[c]) \subseteq Said
  BY SaidFacts DEF IInv, TypeOK
<1> QED BY <1>1, HeadTail

LEMMA LookInv == ASSUME IInv, NEW t \in Threads, Look(t) PROVE IInv' /\ Repeats
<1> USE DEF IInv, Look
<1> DEFINE c == t[2]
<1>1. c \in Memories /\ Orderly(c) BY EndsOfThreads DEF ThreadsInv
<1>2. CASE wire' = [wire EXCEPT ![c] = Tail(@)] /\ UNCHANGED pc
  <2>1. TypeOK' BY <1>1, <1>2, Taken DEF TypeOK
  <2>2. pc[Client(c)] \notin Adding /\ pc[Server(c)] \notin Adding
    BY <1>1, EndsOfThreads DEF Orderly, Reading, Adding
  <2>3. Orderly(c)' BY <1>1, <1>2, <2>2 DEF Orderly
  <2>4. \A x \in Memories \ {c} : wire'[x] = wire[x] BY <1>2 DEF TypeOK
  <2>5. ThreadsInv' BY <1>1, <1>2, <2>3, <2>4, OneConnection
  <2>6. Repeats BY <1>1, <1>2, Taken, SaidFacts DEF Repeats, TypeOK
  <2> QED BY <2>1, <2>5, <2>6
<1>3. CASE pc' = [pc EXCEPT ![t] = "add"] /\ UNCHANGED wire
  <2>1. TypeOK' BY <1>3 DEF TypeOK
  <2>2. Orderly(c)' BY <1>1, <1>3, Moving DEF Orderly, Reading, Removing
  <2>3. \A x \in Memories \ {c} :
          pc'[Client(x)] = pc[Client(x)] /\ pc'[Server(x)] = pc[Server(x)]
    BY <1>3, Moving
  <2>4. ThreadsInv' BY <1>1, <1>3, <2>2, <2>3, OneConnection
  <2>5. Repeats BY <1>3, SaidFacts DEF Repeats
  <2> QED BY <2>1, <2>4, <2>5
<1> QED BY <1>2, <1>3

LEMMA WalkToLastInv == ASSUME IInv, NEW t \in Threads, WalkToLast(t) PROVE IInv' /\ Repeats
<1> USE DEF IInv
<1> DEFINE c == t[2]
<1>0. pc[t] = "add" /\ Home(t) \in Memories BY HomeType DEF WalkToLast
<1>1. CASE Gone(Home(t)) BY <1>0, <1>1, GoneInv
<1>2. CASE /\ seen' = [seen EXCEPT ![c] = count[Home(t)]]
           /\ pc' = [pc EXCEPT ![t] = "link"]
           /\ UNCHANGED <<status, table, count, at, wire, size, sent, cut, garbage, starts>>
  <2>1. c \in Memories /\ Orderly(c) BY EndsOfThreads DEF ThreadsInv
  <2>2. TypeOK' BY <1>0, <1>2, <2>1 DEF TypeOK
  <2>6. \/ t = Client(c) /\ pc'[Client(c)] = "link" /\ pc'[Server(c)] = pc[Server(c)]
        \/ t = Server(c) /\ pc'[Server(c)] = "link" /\ pc'[Client(c)] = pc[Client(c)]
    BY <1>2, Moving
  <2>3. Orderly(c)'
    BY <1>0, <1>2, <2>1, <2>6 DEF Orderly, Reading, Removing, Adding
  <2>4. \A x \in Memories \ {c} :
          /\ pc'[Client(x)] = pc[Client(x)] /\ pc'[Server(x)] = pc[Server(x)]
          /\ seen'[x] = seen[x]
    <3>1. \A x \in Memories \ {c} : seen'[x] = seen[x] BY <1>2 DEF TypeOK
    <3> QED BY <1>2, <3>1, Moving
  <2>5. ThreadsInv' BY <1>2, <2>1, <2>3, <2>4, OneConnection
  <2>7. Repeats BY <1>2, SaidFacts DEF Repeats
  <2> QED BY <2>2, <2>5, <2>7
<1> QED BY <1>1, <1>2 DEF WalkToLast

\* Of the nodes read by others only those about to be linked to are touched.
LEMMA MovedFacts ==
  ASSUME IInv, NEW t \in Threads, NEW i \in Nat, NEW forward \in BOOLEAN
  PROVE  /\ Moved(t, i, forward) \in [Memories -> Nat \cup {-1}]
         /\ \A x \in Memories :
              \/ Moved(t, i, forward)[x] = seen[x]
              \/ pc[Client(x)] = "link" \/ pc[Server(x)] = "link"
<1>1. seen \in [Memories -> Nat \cup {-1}] BY DEF IInv, TypeOK
<1>2. \A x \in Memories : seen[x] > i => seen[x] - 1 \in Nat BY <1>1
<1>3. \A x \in Memories : Moved(t, i, forward)[x] \in Nat \cup {-1}
  BY <1>1, <1>2 DEF Moved
<1>4. \A x \in Held(Home(t), {"link"}) : pc[Client(x)] = "link" \/ pc[Server(x)] = "link"
  BY EndsOfThreads DEF Held, ThreadsOf
<1>5. Moved(t, i, forward) \in [Memories -> Nat \cup {-1}] BY <1>3 DEF Moved
<1> QED BY <1>4, <1>5 DEF Moved

LEMMA LinkInv == ASSUME IInv, NEW t \in Threads, Link(t) PROVE IInv' /\ Repeats
<1> USE DEF IInv
<1> DEFINE m == Home(t)
           c == t[2]
           e == Head(wire[c])
<1>1. /\ pc[t] = "link" /\ m \in Memories /\ c \in Memories /\ Orderly(c)
      /\ t = Client(c) \/ t = Server(c)
  BY HomeType, EndsOfThreads DEF Link, ThreadsInv
<1>2. wire[c] # <<>> BY <1>1 DEF Orderly, Adding
<1>3. /\ pc' = [pc EXCEPT ![t] = "count"]
      /\ UNCHANGED <<status, count, at, wire, size, sent, cut, garbage, starts>>
  BY DEF Link
<1>4. \/ UNCHANGED table /\ seen' = [seen EXCEPT ![c] = count[m]]
      \/ /\ seen[c] \in 0 .. Len(table[m])
         /\ table' = [table EXCEPT ![m] = Append(SubSeq(@, 1, seen[c]), e)]
         /\ seen' = [Moved(t, seen[c] + 1, FALSE) EXCEPT ![c] = count[m]]
  BY DEF Link
<1> HIDE DEF m, e
<1>5. /\ table' \in [Memories -> Seq(Entries)]
      /\ \A x \in Memories : Range(table'[x]) \subseteq Said
  <2>1. CASE UNCHANGED table BY <2>1, SaidFacts DEF TypeOK
  <2>2. CASE /\ seen[c] \in 0 .. Len(table[m])
             /\ table' = [table EXCEPT ![m] = Append(SubSeq(@, 1, seen[c]), e)]
    <3> DEFINE s == SubSeq(table[m], 1, seen[c])
    <3>1. table[m] \in Seq(Entries) /\ Range(table[m]) \subseteq Said
      BY <1>1, SaidFacts DEF TypeOK
    <3>2. s \in Seq(Entries) /\ Range(s) \subseteq Said BY <2>2, <3>1, PartRange
    <3>3. e \in Entries /\ e \in Said BY <1>1, <1>2, Taken DEF e
    <3>4. table' = [table EXCEPT ![m] = Append(s, e)] BY <2>2
    <3> HIDE DEF s
    <3>5. Append(s, e) \in Seq(Entries) /\ Range(Append(s, e)) \subseteq Said
      BY <3>2, <3>3, AppendRange
    <3> QED BY <1>1, <3>4, <3>5, SaidFacts DEF TypeOK
  <2> QED BY <1>4, <2>1, <2>2
<1>6. /\ seen' \in [Memories -> Nat \cup {-1}]
      /\ \A x \in Memories \ {c} :
           seen'[x] = seen[x] \/ pc[Client(x)] = "link" \/ pc[Server(x)] = "link"
  <2>1. count[m] \in Nat BY <1>1 DEF TypeOK
  <2>2. CASE seen' = [seen EXCEPT ![c] = count[m]] BY <2>1, <2>2 DEF TypeOK
  <2>3. CASE /\ seen[c] \in 0 .. Len(table[m])
             /\ seen' = [Moved(t, seen[c] + 1, FALSE) EXCEPT ![c] = count[m]]
    <3> DEFINE f == Moved(t, seen[c] + 1, FALSE)
    <3>1. seen[c] + 1 \in Nat BY <2>3
    <3>2. /\ f \in [Memories -> Nat \cup {-1}]
          /\ \A x \in Memories :
               f[x] = seen[x] \/ pc[Client(x)] = "link" \/ pc[Server(x)] = "link"
      BY <3>1, MovedFacts
    <3>3. seen' = [f EXCEPT ![c] = count[m]] BY <2>3
    <3> HIDE DEF f
    <3> QED BY <1>1, <2>1, <3>2, <3>3
  <2> QED BY <1>4, <2>2, <2>3
<1>7. TypeOK' BY <1>3, <1>5, <1>6 DEF TypeOK
<1>8. \/ t = Client(c) /\ pc'[Client(c)] = "count" /\ pc'[Server(c)] = pc[Server(c)]
      \/ t = Server(c) /\ pc'[Server(c)] = "count" /\ pc'[Client(c)] = pc[Client(c)]
  BY <1>3, Moving
<1>9. Orderly(c)' BY <1>1, <1>2, <1>3, <1>8 DEF Orderly, Reading, Removing, Adding
<1>10. \A x \in Memories \ {c} :
         pc'[Client(x)] = pc[Client(x)] /\ pc'[Server(x)] = pc[Server(x)]
  BY <1>3, Moving
<1>11. ThreadsInv' BY <1>1, <1>3, <1>6, <1>9, <1>10, OneConnection
<1>12. Repeats BY <1>3, <1>5, SaidFacts DEF Repeats
<1> QED BY <1>7, <1>11, <1>12

LEMMA CountInv == ASSUME IInv, NEW t \in Threads, Count(t) PROVE IInv' /\ Repeats
<1> USE DEF IInv
<1> DEFINE m == Home(t)
           c == t[2]
<1>1. /\ pc[t] = "count" /\ m \in Memories /\ c \in Memories /\ Orderly(c)
      /\ t = Client(c) \/ t = Server(c)
  BY HomeType, EndsOfThreads DEF Count, ThreadsInv
<1>2. wire[c] # <<>> BY <1>1 DEF Orderly, Adding
<1>3. /\ count' = [count EXCEPT ![m] = seen[c] + 1]
      /\ seen' = [seen EXCEPT ![c] = 0]
      /\ wire' = [wire EXCEPT ![c] = Tail(@)]
      /\ pc' = [pc EXCEPT ![t] = "recv"]
      /\ UNCHANGED <<status, table, at, size, sent, cut, garbage, starts>>
  BY DEF Count
<1> HIDE DEF m
<1>4. TypeOK'
  <2>1. seen[c] + 1 \in Nat
    <3>1. seen[c] \in Nat \cup {-1} BY <1>1 DEF TypeOK
    <3> QED BY <3>1
  <2>2. wire' \in [Memories -> Seq(Entries)] BY <1>1, <1>2, <1>3, Taken DEF TypeOK
  <2>3. count' \in [Memories -> Nat] /\ seen' \in [Memories -> Nat \cup {-1}]
    BY <1>3, <2>1 DEF TypeOK
  <2> QED BY <1>3, <2>2, <2>3 DEF TypeOK
<1>5. \/ t = Client(c) /\ pc'[Client(c)] = "recv" /\ pc'[Server(c)] = pc[Server(c)]
      \/ t = Server(c) /\ pc'[Server(c)] = "recv" /\ pc'[Client(c)] = pc[Client(c)]
  BY <1>3, Moving
<1>6. Orderly(c)' BY <1>1, <1>3, <1>5 DEF Orderly, Reading, Removing, Adding
<1>7. \A x \in Memories \ {c} :
        /\ pc'[Client(x)] = pc[Client(x)] /\ pc'[Server(x)] = pc[Server(x)]
        /\ wire'[x] = wire[x] /\ seen'[x] = seen[x]
  <2>1. \A x \in Memories \ {c} : wire'[x] = wire[x] /\ seen'[x] = seen[x]
    BY <1>3 DEF TypeOK
  <2> QED BY <1>3, <2>1, Moving
<1>8. ThreadsInv' BY <1>1, <1>3, <1>6, <1>7, OneConnection
<1>9. Repeats
  <2>1. \A x \in Memories : wire'[x] = wire[x] \/ Range(wire'[x]) \subseteq Said
    BY <1>1, <1>2, <1>3, Taken DEF TypeOK
  <2> QED BY <1>3, <2>1, SaidFacts DEF Repeats
<1> QED BY <1>4, <1>8, <1>9

LEMMA ReadPastEndInv == ASSUME IInv, NEW t \in Threads, ReadPastEnd(t) PROVE IInv' /\ Repeats
<1> USE DEF IInv
<1> DEFINE c == t[2]
<1>1. /\ pc[t] = "recv" /\ cut[c] /\ Home(t) \in Memories /\ c \in Memories /\ Orderly(c)
      /\ t = Client(c) \/ t = Server(c)
  BY HomeType, EndsOfThreads DEF ReadPastEnd, ThreadsInv
<1>2. CASE Gone(Home(t)) BY <1>1, <1>2, GoneInv
<1>3. ASSUME NEW e \in Entries, wire' = [wire EXCEPT ![c] = <<e>>],
             InBounds, garbage' = garbage + 1,
             UNCHANGED <<status, table, count, at, pc, size, sent, cut, seen, starts>>
      PROVE  IInv' /\ Repeats
  <2>1. <<e>> \in Seq(Entries) /\ <<e>> # <<>> BY <1>3
  <2>2. garbage' \in Nat /\ garbage' + starts <= MaxEvents
    BY <1>3, BoundsAssumption DEF InBounds, TypeOK
  <2>3. TypeOK' BY <1>3, <2>1, <2>2 DEF TypeOK
  <2>4. wire'[c] # <<>> /\ \A x \in Memories \ {c} : wire'[x] = wire[x]
    BY <1>1, <1>3, <2>1 DEF TypeOK
  <2>5. Orderly(c)' BY <1>1, <1>3, <2>4, SMTT(30) DEF Orderly
  <2>6. ThreadsInv'
    <3>1. UNCHANGED <<status, pc, seen>> BY <1>3
    <3> QED BY <1>1, <2>4, <2>5, <3>1, OneConnection
  <2>7. Repeats
    <3>1. Made = Entries BY <1>1 DEF Made
    <3>2. Range(wire'[c]) \subseteq Entries
      <4>1. Range(<<e>>) = {e} BY DEF Range
      <4>2. wire'[c] = <<e>> BY <1>1, <1>3 DEF TypeOK
      <4> QED BY <1>3, <4>1, <4>2
    <3> QED BY <1>3, <2>4, <3>1, <3>2, SaidFacts DEF Repeats
  <2> QED BY <2>3, <2>6, <2>7
<1> QED BY <1>2, <1>3 DEF ReadPastEnd

-----------------------------------------------------------------------------
(* The gossip thread.                                                      *)

\* A round goes on with the next seed.
LEMMA GoOnFacts ==
  ASSUME IInv, NEW m \in Memories, GoOn(m)
  PROVE  /\ pc' \in [Threads -> {"none", "next", "remove", "uncount", "send", "wait",
                                 "recv", "add", "link", "count"}]
         /\ at' \in [Memories -> Nat]
         /\ \A x \in Memories : at'[x] \in DOMAIN Seeds[x] \/ Seeds[x] = <<>>
         /\ pc'[Client(m)] = "next" /\ pc'[Server(m)] = pc[Server(m)]
         /\ \A x \in Memories \ {m} :
              pc'[Client(x)] = pc[Client(x)] /\ pc'[Server(x)] = pc[Server(x)]
<1>1. /\ at' \in [Memories -> Nat]
      /\ \A x \in Memories : at'[x] \in DOMAIN Seeds[x] \/ Seeds[x] = <<>>
  BY SeedType DEF GoOn
<1>2. pc' = [pc EXCEPT ![Client(m)] = "next"] BY DEF GoOn
<1>3. Client(m) \in Threads /\ Client(m)[2] = m /\ Client(m) # Server(m)
  BY EndsOfThreads
<1>4. /\ pc'[Client(m)] = "next" /\ pc'[Server(m)] = pc[Server(m)]
      /\ \A x \in Memories \ {m} :
           pc'[Client(x)] = pc[Client(x)] /\ pc'[Server(x)] = pc[Server(x)]
  BY <1>2, <1>3, Moving, ZenonT(60)
<1>5. pc' \in [Threads -> {"none", "next", "remove", "uncount", "send", "wait",
                           "recv", "add", "link", "count"}]
  BY <1>2, <1>3 DEF IInv, TypeOK
<1> QED BY <1>1, <1>4, <1>5

\* ... alone, and with the list as it was.
LEMMA GoOnInv ==
  ASSUME IInv, NEW m \in Memories, GoOn(m), pc[Server(m)] = "none",
         UNCHANGED <<status, table, wire, size, sent, garbage, starts>>,
         count' \in [Memories -> Nat], cut' \in [Memories -> BOOLEAN],
         UNCHANGED seen \/ seen' = [seen EXCEPT ![m] = 0]
  PROVE  IInv' /\ Repeats
<1> USE DEF IInv
<1>1. TypeOK'
  <2>1. seen' \in [Memories -> Nat \cup {-1}]
    <3>1. seen \in [Memories -> Nat \cup {-1}] BY DEF TypeOK
    <3>2. CASE UNCHANGED seen BY <3>1, <3>2
    <3>3. CASE seen' = [seen EXCEPT ![m] = 0] BY <3>1, <3>3
    <3> QED BY <3>2, <3>3
  <2> QED BY <2>1, GoOnFacts DEF TypeOK
<1>2. Orderly(m)'
  <2>1. Orderly(m) BY DEF ThreadsInv
  <2> QED BY <2>1, GoOnFacts DEF Orderly, Reading, Removing, Adding
<1>3. \A x \in Memories \ {m} : seen'[x] = seen[x] BY DEF TypeOK
<1>4. ThreadsInv' BY <1>2, <1>3, GoOnFacts, OneConnection
<1>5. Repeats BY SaidFacts DEF Repeats
<1> QED BY <1>1, <1>4, <1>5

LEMMA ConnectFailsInv ==
  ASSUME IInv, NEW m \in Memories, ConnectFails(m) PROVE IInv' /\ Repeats
<1> USE DEF IInv
<1>1. /\ pc[Client(m)] = "next" /\ status[m] # "off" /\ Seeds[m] # <<>>
      /\ UNCHANGED <<status, table, count, wire, size, sent, cut, garbage, starts>>
      /\ Orderly(m) /\ pc[Server(m)] = "none"
  BY DEF ConnectFails, InRound, ThreadsInv, Orderly
<1>2. CASE GoOn(m) /\ UNCHANGED seen BY <1>1, <1>2, GoOnInv DEF TypeOK
<1>3. ASSUME NEW i \in DOMAIN table[m], seen' = [seen EXCEPT ![m] = i],
             pc' = [pc EXCEPT ![Client(m)] = "remove"], UNCHANGED at
      PROVE  IInv' /\ Repeats
  <2>1. i \in Nat /\ i >= 1
    <3>1. table[m] \in Seq(Entries) BY DEF TypeOK
    <3> QED BY <1>3, <3>1
  <2>2. TypeOK' BY <1>1, <1>3, <2>1 DEF TypeOK
  <2>3. Client(m) \in Threads /\ Client(m)[2] = m /\ Client(m) # Server(m)
    BY EndsOfThreads
  <2>4. /\ pc'[Client(m)] = "remove" /\ pc'[Server(m)] = pc[Server(m)]
        /\ \A x \in Memories \ {m} :
             pc'[Client(x)] = pc[Client(x)] /\ pc'[Server(x)] = pc[Server(x)]
    BY <1>3, <2>3, Moving
  <2>5. seen'[m] = i /\ \A x \in Memories \ {m} : seen'[x] = seen[x] BY <1>3 DEF TypeOK
  <2>6. Orderly(m)'
    BY <1>1, <1>3, <2>1, <2>4, <2>5 DEF Orderly, Reading, Removing, Adding
  <2>7. ThreadsInv' BY <1>1, <2>4, <2>5, <2>6, OneConnection
  <2>8. Repeats BY <1>1, SaidFacts DEF Repeats
  <2> QED BY <2>2, <2>7, <2>8
<1> QED BY <1>2, <1>3 DEF ConnectFails

LEMMA UnlinkInv == ASSUME IInv, NEW m \in Memories, Unlink(m) PROVE IInv' /\ Repeats
<1> USE DEF IInv
<1> DEFINE i == seen[m]
<1>1. /\ pc[Client(m)] = "remove" /\ Orderly(m) /\ i >= 1 /\ i \in Nat
      /\ pc[Server(m)] = "none" /\ status[m] # "off" /\ Seeds[m] # <<>>
  <2>1. pc[Client(m)] = "remove" /\ Orderly(m) BY DEF Unlink, ThreadsInv
  <2>2. i >= 1 /\ pc[Server(m)] = "none" /\ status[m] # "off" /\ Seeds[m] # <<>>
    BY <2>1 DEF Orderly, Removing
  <2>3. i \in Nat \cup {-1} BY DEF TypeOK
  <2> QED BY <2>1, <2>2, <2>3
<1>2. CASE Gone(m) BY <1>2, GoneInv
<1>3. CASE /\ GoOn(m)
           /\ seen' = [seen EXCEPT ![m] = 0]
           /\ UNCHANGED <<status, table, count, wire, size, sent, cut, garbage, starts>>
  BY <1>1, <1>3, GoOnInv DEF TypeOK
<1>4. CASE /\ i <= count[m] /\ i <= Len(table[m])
           /\ table' = [table EXCEPT ![m] = RemoveAt(@, i)]
           /\ seen' = [Moved(Client(m), i, TRUE) EXCEPT ![m] = count[m]]
           /\ pc' = [pc EXCEPT ![Client(m)] = "uncount"]
           /\ UNCHANGED <<status, count, at, wire, size, sent, cut, garbage, starts>>
  <2>1. Client(m) \in Threads /\ Client(m)[2] = m /\ Client(m) # Server(m)
    BY EndsOfThreads
  <2>2. /\ table' \in [Memories -> Seq(Entries)]
        /\ \A x \in Memories : Range(table'[x]) \subseteq Said
    <3>1. table[m] \in Seq(Entries) /\ Range(table[m]) \subseteq Said
      BY SaidFacts DEF TypeOK
    <3>2. i \in DOMAIN table[m] BY <1>1, <1>4, <3>1
    <3> DEFINE s == RemoveAt(table[m], i)
    <3>3. s \in Seq(Entries) /\ Range(s) \subseteq Said BY <3>1, <3>2, RemovalRange
    <3>4. table' = [table EXCEPT ![m] = s] BY <1>4
    <3> HIDE DEF s
    <3> QED BY <3>3, <3>4, SaidFacts DEF TypeOK
  <2>3. /\ seen' \in [Memories -> Nat \cup {-1}] /\ seen'[m] = count[m] /\ count[m] >= 1
        /\ \A x \in Memories \ {m} :
             seen'[x] = seen[x] \/ pc[Client(x)] = "link" \/ pc[Server(x)] = "link"
    <3> DEFINE f == Moved(Client(m), i, TRUE)
    <3>1. /\ f \in [Memories -> Nat \cup {-1}]
          /\ \A x \in Memories :
               f[x] = seen[x] \/ pc[Client(x)] = "link" \/ pc[Server(x)] = "link"
      BY <1>1, <2>1, MovedFacts
    <3>2. seen' = [f EXCEPT ![m] = count[m]] BY <1>4
    <3>3. count[m] \in Nat /\ count[m] >= 1
      <4>1. count[m] \in Nat BY DEF TypeOK
      <4> QED BY <1>1, <1>4, <4>1
    <3> HIDE DEF f
    <3> QED BY <3>1, <3>2, <3>3
  <2>4. TypeOK' BY <1>4, <2>2, <2>3 DEF TypeOK
  <2>5. /\ pc'[Client(m)] = "uncount" /\ pc'[Server(m)] = pc[Server(m)]
        /\ \A x \in Memories \ {m} :
             pc'[Client(x)] = pc[Client(x)] /\ pc'[Server(x)] = pc[Server(x)]
    <3>1. pc' = [pc EXCEPT ![Client(m)] = "uncount"] BY <1>4
    <3> QED BY <2>1, <3>1, Moving
  <2>6. Orderly(m)' BY <1>1, <1>4, <2>3, <2>5 DEF Orderly, Reading, Removing, Adding
  <2>7. ThreadsInv' BY <1>4, <2>3, <2>5, <2>6, OneConnection
  <2>8. Repeats BY <1>4, <2>2, SaidFacts DEF Repeats
  <2> QED BY <2>4, <2>7, <2>8
<1> QED BY <1>2, <1>3, <1>4 DEF Unlink

LEMMA UncountInv == ASSUME IInv, NEW m \in Memories, Uncount(m) PROVE IInv' /\ Repeats
<1>1. pc[Client(m)] = "uncount" /\ Orderly(m) BY DEF Uncount, IInv, ThreadsInv
<1>2. pc[Server(m)] = "none" /\ seen[m] >= 1 BY <1>1 DEF Orderly, Removing
<1>3. seen[m] - 1 \in Nat
  <2>1. seen[m] \in Nat \cup {-1} BY DEF IInv, TypeOK
  <2> QED BY <1>2, <2>1
<1>4. count' \in [Memories -> Nat] BY <1>3 DEF Uncount, IInv, TypeOK
<1> QED BY <1>2, <1>4, GoOnInv DEF Uncount, IInv, TypeOK

\* The two ends of a connection go to other places, and nothing else is touched
\* but what is announced and whether the message is cut.
LEMMA BothEnds ==
  ASSUME IInv, NEW m \in Memories, Orderly(m)',
         UNCHANGED <<status, table, count, at, wire, seen, garbage, starts>>,
         size' \in [Memories -> Nat], sent' \in [Memories -> Nat],
         cut' \in [Memories -> BOOLEAN],
         pc' \in [Threads -> {"none", "next", "remove", "uncount", "send", "wait",
                              "recv", "add", "link", "count"}],
         \A x \in Memories \ {m} :
           pc'[Client(x)] = pc[Client(x)] /\ pc'[Server(x)] = pc[Server(x)]
  PROVE  IInv' /\ Repeats
<1>1. TypeOK' BY DEF IInv, TypeOK
<1>2. ThreadsInv' BY OneConnection
<1>3. Repeats BY SaidFacts DEF IInv, Repeats
<1> QED BY <1>1, <1>2, <1>3 DEF IInv

LEMMA ConnectInv == ASSUME IInv, NEW m \in Memories, Connect(m) PROVE IInv' /\ Repeats
<1>1. Orderly(m) BY DEF IInv, ThreadsInv
<1>2. pc' = [pc EXCEPT ![Client(m)] = "send", ![Server(m)] = "recv"] BY DEF Connect
<1>3. pc' \in [Threads -> {"none", "next", "remove", "uncount", "send", "wait",
                           "recv", "add", "link", "count"}]
  BY <1>2 DEF IInv, TypeOK
<1>4. /\ pc'[Client(m)] = "send" /\ pc'[Server(m)] = "recv"
      /\ \A x \in Memories \ {m} :
           pc'[Client(x)] = pc[Client(x)] /\ pc'[Server(x)] = pc[Server(x)]
  BY <1>2, EndsOfThreads DEF IInv, TypeOK
<1>5. Orderly(m)'
  BY <1>1, <1>4 DEF Connect, InRound, Orderly, Reading, Removing, Adding
<1>6. /\ size' \in [Memories -> Nat] /\ sent' \in [Memories -> Nat]
      /\ cut' \in [Memories -> BOOLEAN]
  BY DEF Connect, Announce, IInv, TypeOK
<1> QED BY <1>3, <1>4, <1>5, <1>6, BothEnds DEF Connect

LEMMA AnswerFailsInv ==
  ASSUME IInv, NEW m \in Memories, AnswerFails(m) PROVE IInv' /\ Repeats
<1>1. /\ Orderly(m) /\ pc[Client(m)] = "wait" /\ pc[Server(m)] = "none"
      /\ status[m] # "off" /\ Seeds[m] # <<>>
  BY DEF AnswerFails, IInv, ThreadsInv, Orderly
<1>2. CASE Gone(m) BY <1>2, GoneInv
<1>3. CASE /\ GoOn(m)
           /\ UNCHANGED <<status, table, count, wire, size, sent, cut, seen, garbage, starts>>
  BY <1>1, <1>3, GoOnInv DEF IInv, TypeOK
<1>4. CASE /\ pc' = [pc EXCEPT ![Client(m)] = "recv"]
           /\ cut' = [cut EXCEPT ![m] = TRUE]
           /\ UNCHANGED <<status, table, count, at, wire, size, sent, seen, garbage, starts>>
  <2>1. Client(m) \in Threads /\ Client(m)[2] = m /\ Client(m) # Server(m)
    BY EndsOfThreads
  <2>2. /\ pc'[Client(m)] = "recv" /\ pc'[Server(m)] = pc[Server(m)]
        /\ \A x \in Memories \ {m} :
             pc'[Client(x)] = pc[Client(x)] /\ pc'[Server(x)] = pc[Server(x)]
    <3>1. pc' = [pc EXCEPT ![Client(m)] = "recv"] BY <1>4
    <3> QED BY <2>1, <3>1, Moving
  <2>3. Orderly(m)' BY <1>1, <1>4, <2>2 DEF Orderly, Reading, Removing, Adding
  <2>4. /\ pc' \in [Threads -> {"none", "next", "remove", "uncount", "send", "wait",
                                "recv", "add", "link", "count"}]
        /\ cut' \in [Memories -> BOOLEAN]
        /\ size' \in [Memories -> Nat] /\ sent' \in [Memories -> Nat]
    BY <1>4 DEF IInv, TypeOK
  <2> QED BY <1>4, <2>2, <2>3, <2>4, BothEnds
<1> QED BY <1>2, <1>3, <1>4 DEF AnswerFails

LEMMA EndExchangeInv ==
  ASSUME IInv, NEW m \in Memories, EndExchange(m) PROVE IInv' /\ Repeats
<1>1. Orderly(m) BY DEF IInv, ThreadsInv
<1>2. pc[Client(m)] = "recv" /\ pc[Server(m)] # "send"
  BY EndsOfThreads DEF EndExchange, Received, Other
<1>3. pc[Server(m)] = "none" BY <1>1, <1>2 DEF Orderly, Reading
<1>4. cut' \in [Memories -> BOOLEAN] /\ count' \in [Memories -> Nat]
  BY DEF EndExchange, IInv, TypeOK
<1> QED BY <1>3, <1>4, GoOnInv DEF EndExchange

-----------------------------------------------------------------------------
(* The thread that attends.                                                *)

LEMMA RespondInv == ASSUME IInv, NEW c \in Memories, Respond(c) PROVE IInv' /\ Repeats
<1>1. Orderly(c) BY DEF IInv, ThreadsInv
<1>2. pc[Server(c)] = "recv" /\ Peer(c) \in Memories
  <2>1. pc[Server(c)] = "recv" BY DEF Respond, Received
  <2> QED BY <2>1, HomeType, EndsOfThreads DEF Home
<1> DEFINE place == IF pc[Client(c)] = "wait" THEN "recv" ELSE pc[Client(c)]
<1>3. pc' = [pc EXCEPT ![Server(c)] = "send", ![Client(c)] = place]
  BY EndsOfThreads DEF Respond, IInv, TypeOK
<1>4. place \in {"none", "next", "remove", "uncount", "send", "wait",
                 "recv", "add", "link", "count"}
  BY EndsOfThreads DEF IInv, TypeOK
<1>5. pc' \in [Threads -> {"none", "next", "remove", "uncount", "send", "wait",
                           "recv", "add", "link", "count"}]
  BY <1>3, <1>4 DEF IInv, TypeOK
<1>6. /\ pc'[Client(c)] = place /\ pc'[Server(c)] = "send"
      /\ \A x \in Memories \ {c} :
           pc'[Client(x)] = pc[Client(x)] /\ pc'[Server(x)] = pc[Server(x)]
  BY <1>3, EndsOfThreads DEF IInv, TypeOK
<1>7. Orderly(c)'
  BY <1>1, <1>2, <1>6 DEF Respond, Orderly, Reading, Removing, Adding
<1>8. /\ size' \in [Memories -> Nat] /\ sent' \in [Memories -> Nat]
      /\ cut' \in [Memories -> BOOLEAN]
  BY <1>2 DEF Respond, Announce, IInv, TypeOK
<1> HIDE DEF place
<1> QED BY <1>5, <1>6, <1>7, <1>8, BothEnds DEF Respond

-----------------------------------------------------------------------------
(* The theorems.                                                           *)

LEMMA StepInv == IInv /\ [Next]_vars => IInv' /\ Repeats
<1> SUFFICES ASSUME IInv, [Next]_vars PROVE IInv' /\ Repeats OBVIOUS
<1>1. ASSUME NEW t \in Threads, Exchange(t) PROVE IInv' /\ Repeats
  BY <1>1, SendInv, LookInv, WalkToLastInv, LinkInv, CountInv, ReadPastEndInv DEF Exchange
<1>2. ASSUME NEW m \in Memories, GossipThread(m) PROVE IInv' /\ Repeats
  <2>1. Client(m) \in Threads BY EndsOfThreads
  <2> QED BY <1>1, <1>2, <2>1, ConnectFailsInv, UnlinkInv, UncountInv, ConnectInv,
             AnswerFailsInv, EndExchangeInv
          DEF GossipThread
<1>3. ASSUME NEW c \in Memories, AttendThread(c) PROVE IInv' /\ Repeats
  <2>1. Server(c) \in Threads BY EndsOfThreads
  <2> QED BY <1>1, <1>3, <2>1, RespondInv DEF AttendThread
<1>4. ASSUME NEW m \in Memories, Start(m) \/ Listen(m) \/ Stop(m) PROVE IInv' /\ Repeats
  BY <1>4, StartInv, ListenInv, GoneInv DEF Stop
<1>5. CASE UNCHANGED vars
  <2>1. UNCHANGED <<status, table, count, at, pc, wire, size, sent, cut, seen, garbage, starts>>
    BY <1>5 DEF vars
  <2>2. TypeOK' BY <2>1 DEF IInv, TypeOK
  <2>3. ThreadsInv' BY <2>1 DEF IInv, ThreadsInv, Orderly
  <2>4. Repeats BY <2>1, SaidFacts DEF IInv, Repeats
  <2> QED BY <2>2, <2>3, <2>4 DEF IInv
<1> QED BY <1>2, <1>3, <1>4, <1>5 DEF Next

LEMMA InitInv == Init => IInv
<1> SUFFICES ASSUME Init PROVE IInv OBVIOUS
<1>1. \A m \in Memories : 1 \in DOMAIN Seeds[m] \/ Seeds[m] = <<>>
  <2> SUFFICES ASSUME NEW m \in Memories PROVE 1 \in DOMAIN Seeds[m] \/ Seeds[m] = <<>>
    OBVIOUS
  <2>1. Seeds[m] \in Seq(Memories) BY SeedsAssumption
  <2> QED BY <2>1
<1>2. TypeOK
  <2>1. garbage + starts <= MaxEvents BY BoundsAssumption DEF Init
  <2>2. <<>> \in Seq(Entries) OBVIOUS
  <2> QED BY <1>1, <2>1, <2>2 DEF Init, TypeOK
<1>3. \A m \in Memories : pc[Client(m)] = "next" /\ pc[Server(m)] = "none"
  BY EndsOfThreads DEF Init
<1>4. ThreadsInv BY <1>3 DEF Init, ThreadsInv, Orderly, Reading, Removing, Adding
<1> QED BY <1>2, <1>4 DEF IInv

\* The invariant holds of every state the memories can reach.
THEOREM Inductive == Spec => []IInv
<1>1. IInv /\ [Next]_vars => IInv' BY StepInv
<1> QED BY <1>1, InitInv, PTL DEF Spec

\* Through starts, stops, cut messages and races over the lists, the lists, counts,
\* messages and seeds keep their types: no thread adds an entry it has not, takes
\* one below zero from elements_count, or leaves the seeds.
THEOREM Typing == Spec => []TypeOK
<1>1. IInv => TypeOK BY DEF IInv
<1> QED BY <1>1, Inductive, PTL

\* What nothing speaks of comes into a list by its memory being started or where a
\* message was cut, and by no race over the lists, failed connection or restart.
THEOREM NotInvented == Spec => NobodyIsInvented
<1> DEFINE A == \A e \in Entries :
                  ~Mentioned(e) /\ Mentioned(e)' =>
                    \/ e \in Memories /\ status[e] = "off" /\ status'[e] = "booting"
                    \/ \E c \in Memories : cut[c]
<1>1. IInv /\ [Next]_vars => A
  <2> SUFFICES ASSUME IInv, [Next]_vars, NEW e \in Entries, ~Mentioned(e), Mentioned(e)'
               PROVE  \/ e \in Memories /\ status[e] = "off" /\ status'[e] = "booting"
                      \/ \E c \in Memories : cut[c]
    OBVIOUS
  <2>1. Repeats BY StepInv
  <2>2. e \notin Said BY DEF Said
  <2>3. e \in Made BY <2>1, <2>2 DEF Repeats, Mentioned
  <2> QED BY <2>3 DEF Made
<1>2. Spec => [][A]_vars
  <2> HIDE DEF A
  <2> QED BY <1>1, Inductive, PTL DEF Spec
<1> QED BY <1>2 DEF NobodyIsInvented
=============================================================================
