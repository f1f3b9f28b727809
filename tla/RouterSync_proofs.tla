-------------------------- MODULE RouterSync_proofs --------------------------
(***************************************************************************)
(* The safety of RouterSvrd's configuration, for any agents, Svrs, weights *)
(* and sizes of the buffers.                                               *)
(*                                                                         *)
(* Everything is said of the edit a weight is from: t[s] is the edit of s  *)
(* applied at an agent, a queue q holds messages with the edits they bring,*)
(* and top[s] bounds both: by the file, and for a connected agent by the   *)
(* worker's memory.                                                        *)
(***************************************************************************)
EXTENDS RouterSync, SequenceTheorems, TLAPS

Queue   == Seq(Message)
Applied == [Svr -> 0 .. MaxEdits]

\* No edit beyond top.
UpTo(q, t, top) ==
  \A s \in Svr : /\ t[s] <= top[s]
                 /\ \A i \in 1 .. Len(q) : s \in DOMAIN q[i].svrs => q[i].svrs[s] <= top[s]

\* The edits of one Svr arrive in the order they were made.
Monotone(q, t) ==
  \A s \in Svr : \A i \in 1 .. Len(q) : s \in DOMAIN q[i].svrs =>
    /\ t[s] <= q[i].svrs[s]
    /\ \A j \in i .. Len(q) : s \in DOMAIN q[j].svrs => q[i].svrs[s] <= q[j].svrs[s]

\* A reply to RELOAD has every Svr that the agent knows when it comes.
Total(q, t) ==
  \A j \in 1 .. Len(q) : q[j].type = "reload" =>
    \A s \in Svr : /\ t[s] > 0 => s \in DOMAIN q[j].svrs
                   /\ \A i \in 1 .. j : s \in DOMAIN q[i].svrs => s \in DOMAIN q[j].svrs

\* Edit e of s is at the agent or on its way.
Reached(q, t, s, e) ==
  \/ t[s] = e
  \/ \E i \in 1 .. Len(q) : s \in DOMAIN q[i].svrs /\ q[i].svrs[s] = e

\* What is held is what the edits applied say.
HeldOK(h, t, f) ==
  \A s \in Svr : /\ s \in h => t[s] > 0
                 /\ s \notin h /\ t[s] > 0 => f[s][t[s]] = 0

Ver == [s \in Svr |-> Version(s)]
Mem == [s \in Svr |-> IF s \in DOMAIN mMapReqSvr THEN mMapReqSvr[s].edit ELSE 0]
Moving == IF loading = NotLoading THEN {} ELSE loading.moved

AgentOK(a) ==
  /\ UpTo(chan[a], at[a], Ver)
  /\ Monotone(chan[a], at[a])
  /\ Total(chan[a], at[a])
  /\ HeldOK(held[a], at[a], file)
  /\ Connected(a) => UpTo(chan[a], at[a], Mem)
  /\ Connected(a) /\ req[a] # "init" =>
       \A s \in Svr \ (owed[a] \cup Moving) : Reached(chan[a], at[a], s, Mem[s])

\* A weight in memory is from an edit that was made, and not from one before
\* the version it was stored with.
MemoryOK ==
  \A s \in DOMAIN mMapReqSvr :
    mMapReqSvr[s].ver <= mMapReqSvr[s].edit /\ mMapReqSvr[s].edit <= Version(s)

\* Once the file is loaded, memory has its last edits.
InMemory(s) == IF s \in DOMAIN mMapReqSvr THEN mMapReqSvr[s].edit = Version(s)
               ELSE s \in Listed => Deleted(s)
LoadedOK == ~stamp.modified \/ loading # NotLoading =>
              \A s \in Svr \ missed : InMemory(s)

\* The message a load leads to says what the load put into memory.
PendingOK ==
  loading # NotLoading =>
    /\ loading.moved \subseteq DOMAIN loading.svrs
    /\ DOMAIN loading.svrs \subseteq DOMAIN mMapReqSvr
    /\ \A s \in DOMAIN loading.svrs : loading.svrs[s] = mMapReqSvr[s].edit
    /\ loading.type = "reload" => DOMAIN loading.svrs = DOMAIN mMapReqSvr
    /\ loading.type = "start" => mTaskPool = {}

IInv == TypeOK /\ MemoryOK /\ LoadedOK /\ PendingOK /\ \A a \in Agent : AgentOK(a)

-----------------------------------------------------------------------------
(* Maps and messages.                                                      *)

\* What a map of some Svrs is.
LEMMA PartialMap ==
  ASSUME NEW V, NEW f
  PROVE  /\ f \in Partial(V) => /\ DOMAIN f \subseteq Svr /\ f \in [DOMAIN f -> V]
                                /\ \A s \in DOMAIN f : f[s] \in V
         /\ \A S \in SUBSET Svr : f \in [S -> V] => f \in Partial(V)
  BY DEF Partial

\* The parts of a message.
LEMMA MessageParts ==
  ASSUME NEW msg \in Message
  PROVE  /\ msg.type \in {"init", "reload", "sync"} /\ msg.svrs \in Partial(Edits)
         /\ DOMAIN msg.svrs \subseteq Svr
         /\ \A s \in DOMAIN msg.svrs : msg.svrs[s] \in 1 .. MaxEdits
  <1>1. msg.type \in {"init", "reload", "sync"} /\ msg.svrs \in Partial(Edits)
    BY DEF Message
  <1> QED
    BY <1>1, PartialMap DEF Edits

\* Messages in a queue name edits that count from 1.
LEMMA Queued ==
  ASSUME NEW q \in Queue, NEW i \in 1 .. Len(q)
  PROVE  /\ q[i] \in Message /\ DOMAIN q[i].svrs \subseteq Svr
         /\ \A s \in DOMAIN q[i].svrs : q[i].svrs[s] \in Nat /\ q[i].svrs[s] > 0
  <1>1. q[i] \in Message
    BY DEF Queue
  <1> QED
    BY <1>1, MessageParts, SyncAssumption

-----------------------------------------------------------------------------
(* Queues.                                                                 *)

\* A message joins the queue that says what memory says of its Svrs.
LEMMA AppendQueue ==
  ASSUME NEW q \in Queue, NEW t \in Applied, NEW msg \in Message, NEW top \in [Svr -> Nat],
         UpTo(q, t, top), \A s \in DOMAIN msg.svrs : msg.svrs[s] = top[s],
         msg.type = "reload" => \A s \in Svr : top[s] > 0 => s \in DOMAIN msg.svrs
  PROVE  LET r == Append(q, msg)
         IN  /\ r \in Queue /\ UpTo(r, t, top)
             /\ Monotone(q, t) => Monotone(r, t)
             /\ Total(q, t) => Total(r, t)
             /\ \A s \in Svr : Reached(q, t, s, top[s]) => Reached(r, t, s, top[s])
             /\ \A s \in DOMAIN msg.svrs : Reached(r, t, s, top[s])
  <1> DEFINE r == Append(q, msg)
  <1>1. /\ r \in Queue /\ Len(r) = Len(q) + 1 /\ r[Len(q) + 1] = msg
        /\ \A i \in 1 .. Len(q) : r[i] = q[i]
    BY AppendProperties DEF Queue
  <1>2. Len(q) \in Nat
    BY DEF Queue
  <1>3. DOMAIN msg.svrs \subseteq Svr
    BY MessageParts
  <1>4. \A s \in Svr : t[s] \in Nat
    BY SyncAssumption DEF Applied
  <1> HIDE DEF r
  <1>5. UpTo(r, t, top)
    <2> SUFFICES ASSUME NEW s \in Svr, NEW i \in 1 .. Len(r), s \in DOMAIN r[i].svrs
                 PROVE  r[i].svrs[s] <= top[s]
      BY DEF UpTo
    <2>1. CASE i \in 1 .. Len(q)
      BY <2>1, <1>1 DEF UpTo
    <2>2. CASE i = Len(q) + 1
      BY <2>2, <1>1
    <2> QED
      BY <2>1, <2>2, <1>1, <1>2
  <1>6. ASSUME Monotone(q, t)
        PROVE  Monotone(r, t)
    <2> SUFFICES ASSUME NEW s \in Svr, NEW i \in 1 .. Len(r), s \in DOMAIN r[i].svrs
                 PROVE  /\ t[s] <= r[i].svrs[s]
                        /\ \A j \in i .. Len(r) : s \in DOMAIN r[j].svrs
                                                  => r[i].svrs[s] <= r[j].svrs[s]
      BY DEF Monotone
    <2>1. CASE i \in 1 .. Len(q)
      <3>1. r[i].svrs[s] <= top[s]
        BY <1>5 DEF UpTo
      <3> QED
        BY <2>1, <3>1, <1>1, <1>2, <1>6 DEF Monotone
    <2>2. CASE i = Len(q) + 1
      BY <2>2, <1>1, <1>2, <1>4 DEF UpTo
    <2> QED
      BY <2>1, <2>2, <1>1, <1>2
  <1>7. ASSUME Total(q, t)
        PROVE  Total(r, t)
    <2> SUFFICES ASSUME NEW j \in 1 .. Len(r), r[j].type = "reload", NEW s \in Svr
                 PROVE  /\ t[s] > 0 => s \in DOMAIN r[j].svrs
                        /\ \A i \in 1 .. j : s \in DOMAIN r[i].svrs => s \in DOMAIN r[j].svrs
      BY DEF Total
    <2>1. CASE j \in 1 .. Len(q)
      BY <2>1, <1>1, <1>2, <1>7 DEF Total
    <2>2. CASE j = Len(q) + 1
      <3>1. t[s] > 0 => s \in DOMAIN r[j].svrs
        BY <2>2, <1>1, <1>4 DEF UpTo
      <3>2. ASSUME NEW i \in 1 .. Len(q), s \in DOMAIN r[i].svrs
            PROVE  s \in DOMAIN r[j].svrs
        <4>1. q[i].svrs[s] > 0 /\ q[i].svrs[s] <= top[s] /\ q[i].svrs[s] \in Nat
          BY <3>2, <1>1, Queued DEF UpTo
        <4> QED
          BY <4>1, <2>2, <1>1
      <3> QED
        BY <3>1, <3>2, <2>2, <1>2
    <2> QED
      BY <2>1, <2>2, <1>1, <1>2
  <1>8. \A s \in Svr : Reached(q, t, s, top[s]) => Reached(r, t, s, top[s])
    BY <1>1, <1>2 DEF Reached
  <1>9. \A s \in DOMAIN msg.svrs : Reached(r, t, s, top[s])
    BY <1>1, <1>2 DEF Reached
  <1> QED
    BY <1>1, <1>5, <1>6, <1>7, <1>8, <1>9 DEF r

\* The edits applied after message msg.
After(t, msg) == [s \in Svr |-> IF s \in DOMAIN msg.svrs THEN msg.svrs[s] ELSE t[s]]

\* The first message is delivered.
LEMMA DeliverQueue ==
  ASSUME NEW q \in Queue, NEW t \in Applied, q # <<>>, Monotone(q, t)
  PROVE  LET r == Tail(q)
             u == After(t, Head(q))
         IN  /\ r \in Queue /\ u \in Applied /\ Head(q) \in Message
             /\ Monotone(r, u)
             /\ Total(q, t) => Total(r, u)
             /\ \A s \in Svr : t[s] <= u[s]
             /\ \A top \in [Svr -> Nat] : UpTo(q, t, top) => UpTo(r, u, top)
             /\ \A top \in [Svr -> Nat], s \in Svr :
                  UpTo(q, t, top) /\ Reached(q, t, s, top[s]) => Reached(r, u, s, top[s])
  <1> DEFINE r == Tail(q)
             u == After(t, Head(q))
  <1>1. /\ r \in Queue /\ Len(r) = Len(q) - 1 /\ Head(q) = q[1] /\ Head(q) \in Message
        /\ \A i \in 1 .. Len(r) : r[i] = q[i + 1]
    BY HeadTailProperties DEF Queue
  <1>2. Len(q) \in Nat /\ Len(q) > 0
    BY DEF Queue
  <1>3. DOMAIN q[1].svrs \subseteq Svr /\ \A s \in DOMAIN q[1].svrs : q[1].svrs[s] \in 1 .. MaxEdits
    BY <1>1, MessageParts
  <1>4. \A s \in Svr : t[s] \in Nat /\ t[s] \in 0 .. MaxEdits
    BY SyncAssumption DEF Applied
  <1>5. u \in Applied /\ \A s \in Svr : u[s] = IF s \in DOMAIN q[1].svrs THEN q[1].svrs[s] ELSE t[s]
    BY <1>1, <1>3, <1>4, SyncAssumption DEF After, Applied
  <1> HIDE DEF r, u
  <1>6. \A s \in Svr : t[s] <= u[s]
    BY <1>2, <1>4, <1>5 DEF Monotone
  <1>7. Monotone(r, u)
    <2> SUFFICES ASSUME NEW s \in Svr, NEW i \in 1 .. Len(r), s \in DOMAIN r[i].svrs
                 PROVE  /\ u[s] <= r[i].svrs[s]
                        /\ \A j \in i .. Len(r) : s \in DOMAIN r[j].svrs
                                                  => r[i].svrs[s] <= r[j].svrs[s]
      BY DEF Monotone
    <2>1. r[i] = q[i + 1] /\ i + 1 \in 1 .. Len(q)
      BY <1>1, <1>2
    <2>2. u[s] <= r[i].svrs[s]
      BY <2>1, <1>2, <1>5 DEF Monotone
    <2>3. ASSUME NEW j \in i .. Len(r), s \in DOMAIN r[j].svrs
          PROVE  r[i].svrs[s] <= r[j].svrs[s]
      <3>1. r[j] = q[j + 1] /\ j + 1 \in i + 1 .. Len(q)
        BY <1>1, <1>2
      <3> QED
        BY <3>1, <2>1, <2>3 DEF Monotone
    <2> QED
      BY <2>2, <2>3
  <1>8. ASSUME Total(q, t)
        PROVE  Total(r, u)
    <2> SUFFICES ASSUME NEW j \in 1 .. Len(r), r[j].type = "reload", NEW s \in Svr
                 PROVE  /\ u[s] > 0 => s \in DOMAIN r[j].svrs
                        /\ \A i \in 1 .. j : s \in DOMAIN r[i].svrs => s \in DOMAIN r[j].svrs
      BY DEF Total
    <2>1. r[j] = q[j + 1] /\ j + 1 \in 1 .. Len(q)
      BY <1>1, <1>2
    <2>2. u[s] > 0 => s \in DOMAIN r[j].svrs
      BY <2>1, <1>2, <1>5, <1>8 DEF Total
    <2>3. ASSUME NEW i \in 1 .. j, s \in DOMAIN r[i].svrs
          PROVE  s \in DOMAIN r[j].svrs
      <3>1. r[i] = q[i + 1] /\ i + 1 \in 1 .. j + 1
        BY <1>1, <1>2
      <3> QED
        BY <3>1, <2>1, <2>3, <1>8 DEF Total
    <2> QED
      BY <2>2, <2>3
  <1>9. \A top \in [Svr -> Nat] : UpTo(q, t, top) => UpTo(r, u, top)
    <2> SUFFICES ASSUME NEW top \in [Svr -> Nat], UpTo(q, t, top), NEW s \in Svr
                 PROVE  /\ u[s] <= top[s]
                        /\ \A i \in 1 .. Len(r) : s \in DOMAIN r[i].svrs => r[i].svrs[s] <= top[s]
      BY DEF UpTo
    <2>1. u[s] <= top[s]
      BY <1>2, <1>5 DEF UpTo
    <2>2. ASSUME NEW i \in 1 .. Len(r), s \in DOMAIN r[i].svrs
          PROVE  r[i].svrs[s] <= top[s]
      <3>1. r[i] = q[i + 1] /\ i + 1 \in 1 .. Len(q)
        BY <1>1, <1>2
      <3> QED
        BY <3>1, <2>2 DEF UpTo
    <2> QED
      BY <2>1, <2>2
  <1>10. ASSUME NEW top \in [Svr -> Nat], NEW s \in Svr, UpTo(q, t, top),
                Reached(q, t, s, top[s])
         PROVE  Reached(r, u, s, top[s])
    <2>1. CASE t[s] = top[s]
      <3>1. u[s] = top[s]
        <4>1. u[s] <= top[s]
          BY <1>9, <1>10 DEF UpTo
        <4> QED
          BY <4>1, <2>1, <1>4, <1>5, <1>6, <1>3
      <3> QED
        BY <3>1 DEF Reached
    <2>2. ASSUME NEW i \in 1 .. Len(q), s \in DOMAIN q[i].svrs, q[i].svrs[s] = top[s]
          PROVE  Reached(r, u, s, top[s])
      <3>1. CASE i = 1
        BY <3>1, <2>2, <1>5 DEF Reached
      <3>2. CASE i # 1
        <4>1. i - 1 \in 1 .. Len(r) /\ r[i - 1] = q[i]
          BY <3>2, <1>1, <1>2
        <4> QED
          BY <4>1, <2>2 DEF Reached
      <3> QED
        BY <3>1, <3>2
    <2> QED
      BY <2>1, <2>2, <1>10 DEF Reached
  <1> QED
    BY <1>1, <1>5, <1>6, <1>7, <1>8, <1>9, <1>10 DEF r, u

\* The end of a queue is lost with a connection.
LEMMA PrefixQueue ==
  ASSUME NEW q \in Queue, NEW t \in Applied, NEW n \in 0 .. Len(q), Monotone(q, t), Total(q, t)
  PROVE  LET r == SubSeq(q, 1, n)
         IN  /\ r \in Queue /\ Len(r) = n /\ Monotone(r, t) /\ Total(r, t)
             /\ \A top \in [Svr -> Nat] : UpTo(q, t, top) => UpTo(r, t, top)
  <1> DEFINE r == SubSeq(q, 1, n)
  <1>1. r \in Queue /\ Len(r) = n /\ \A i \in 1 .. n : r[i] = q[i]
    <2>1. Len(q) \in Nat /\ n \in Nat /\ \A i \in 1 .. n : q[i] \in Message
      BY DEF Queue
    <2> QED
      BY <2>1, SubSeqProperties DEF Queue
  <1>2. Len(q) \in Nat /\ n \in Nat /\ n <= Len(q)
    BY DEF Queue
  <1> HIDE DEF r
  <1>3. Monotone(r, t)
    BY <1>1, <1>2 DEF Monotone
  <1>4. Total(r, t)
    BY <1>1, <1>2 DEF Total
  <1>5. \A top \in [Svr -> Nat] : UpTo(q, t, top) => UpTo(r, t, top)
    BY <1>1, <1>2 DEF UpTo
  <1> QED
    BY <1>1, <1>3, <1>4, <1>5 DEF r

\* The queue of a lost connection, or of an agent that starts.
LEMMA EmptyQueue ==
  ASSUME NEW t \in Applied
  PROVE  /\ <<>> \in Queue /\ Monotone(<<>>, t) /\ Total(<<>>, t)
         /\ \A top \in [Svr -> Nat] : UpTo(<<>>, t, top) <=> \A s \in Svr : t[s] <= top[s]
         /\ \A s \in Svr, e \in Nat : Reached(<<>>, t, s, e) <=> t[s] = e
  BY DEF Queue, Monotone, Total, UpTo, Reached

\* The bound grows.
LEMMA RaiseTop ==
  ASSUME NEW q \in Queue, NEW t \in Applied, NEW top \in [Svr -> Nat], NEW higher \in [Svr -> Nat],
         UpTo(q, t, top), \A s \in Svr : top[s] <= higher[s]
  PROVE  UpTo(q, t, higher)
  <1>1. \A s \in Svr : t[s] \in Nat
    BY SyncAssumption DEF Applied
  <1>2. \A i \in 1 .. Len(q), s \in Svr : s \in DOMAIN q[i].svrs => q[i].svrs[s] \in Nat
    BY Queued
  <1> QED
    BY <1>1, <1>2 DEF UpTo

-----------------------------------------------------------------------------
(* The worker's memory.                                                    *)

\* What memory has of a Svr.
LEMMA EntryMap ==
  ASSUME NEW m \in Partial(Entry), NEW s \in DOMAIN m
  PROVE  /\ s \in Svr /\ m[s] \in Entry
         /\ m[s].ver \in 1 .. MaxEdits /\ m[s].edit \in 1 .. MaxEdits
         /\ m[s].ver \in Nat /\ m[s].edit \in Nat
  <1>1. s \in Svr /\ m[s] \in Entry
    BY PartialMap
  <1>2. m[s].ver \in Edits /\ m[s].edit \in Edits
    BY <1>1 DEF Entry
  <1> QED
    BY <1>1, <1>2, SyncAssumption DEF Edits

\* The parts of a well-formed state.
LEMMA Shape ==
  ASSUME TypeOK
  PROVE  /\ Ver \in [Svr -> Nat] /\ Mem \in [Svr -> Nat]
         /\ \A s \in Svr : Version(s) \in 0 .. MaxEdits /\ Ver[s] = Version(s)
         /\ \A s \in Listed : Version(s) \in 1 .. MaxEdits
         /\ \A s \in DOMAIN mMapReqSvr : /\ s \in Svr /\ Mem[s] = mMapReqSvr[s].edit /\ Mem[s] > 0
                                         /\ mMapReqSvr[s].edit \in 1 .. MaxEdits
                                         /\ mMapReqSvr[s].ver \in 1 .. MaxEdits
         /\ \A s \in Svr \ DOMAIN mMapReqSvr : Mem[s] = 0
         /\ \A a \in Agent : chan[a] \in Queue /\ at[a] \in Applied
         /\ BufCap \in Nat /\ WireCap \in Nat /\ MaxEdits \in Nat
  <1>1. \A s \in Svr : Version(s) \in 0 .. MaxEdits /\ (s \in Listed => Version(s) \in 1 .. MaxEdits)
    <2> SUFFICES ASSUME NEW s \in Svr
                 PROVE  Version(s) \in 0 .. MaxEdits /\ (file[s] # <<>> => Version(s) \in 1 .. MaxEdits)
      BY DEF Listed
    <2>1. file[s] \in Seq(Weight) /\ Len(file[s]) <= MaxEdits
      BY DEF TypeOK, Version
    <2> QED
      BY <2>1, SyncAssumption DEF Version
  <1>2. \A s \in DOMAIN mMapReqSvr : s \in Svr /\ mMapReqSvr[s] \in Entry
    BY PartialMap DEF TypeOK
  <1>3. \A s \in DOMAIN mMapReqSvr : /\ mMapReqSvr[s].edit \in 1 .. MaxEdits
                                     /\ mMapReqSvr[s].ver \in 1 .. MaxEdits
    BY <1>2 DEF Entry, Edits
  <1>4. \A a \in Agent : chan[a] \in Queue /\ at[a] \in Applied
    BY DEF TypeOK, Queue, Applied
  <1>5. MaxEdits \in Nat
    BY SyncAssumption
  <1>6. Mem \in [Svr -> Nat] /\ \A s \in Svr : Mem[s] = IF s \in DOMAIN mMapReqSvr
                                                        THEN mMapReqSvr[s].edit ELSE 0
    BY <1>3, <1>5 DEF Mem
  <1>7. Ver \in [Svr -> Nat] /\ \A s \in Svr : Ver[s] = Version(s)
    BY <1>1, <1>5 DEF Ver
  <1> QED
    BY <1>1, <1>2, <1>3, <1>4, <1>5, <1>6, <1>7, SyncAssumption DEF Listed

\* Memory before anything was stored.
NoNodes == [s \in {} |-> [ver |-> 1, edit |-> 1]]

\* SaveNode stores the weight of the file and keeps the version of known Svrs.
LEMMA SaveNodeMap ==
  ASSUME TypeOK, NEW m \in Partial(Entry), DOMAIN m \subseteq Listed, NEW S \in SUBSET Listed
  PROVE  LET n == SaveNode(m, S)
         IN  /\ n \in Partial(Entry) /\ DOMAIN n = DOMAIN m \cup S
             /\ \A s \in S : /\ n[s].edit = Version(s)
                             /\ n[s].ver = IF s \in DOMAIN m THEN m[s].ver ELSE Version(s)
             /\ \A s \in DOMAIN m \ S : n[s] = m[s]
  <1> DEFINE n == SaveNode(m, S)
  <1>1. \A s \in Listed : Version(s) \in Edits
    BY Shape DEF Edits
  <1>2. \A s \in DOMAIN m : m[s] \in Entry
    BY PartialMap
  <1>3. DOMAIN m \cup S \in SUBSET Svr
    BY DEF Listed
  <1>4. DOMAIN n = DOMAIN m \cup S
    BY DEF SaveNode
  <1>5. \A s \in S : n[s] = [ver |-> IF s \in DOMAIN m THEN m[s].ver ELSE Version(s),
                             edit |-> Version(s)]
    BY DEF SaveNode
  <1>6. \A s \in DOMAIN m \ S : n[s] = m[s]
    BY DEF SaveNode
  <1>7. n = [s \in DOMAIN m \cup S |-> n[s]]
    BY DEF SaveNode
  <1> HIDE DEF n
  <1>8. \A s \in S : n[s] \in Entry
    <2> SUFFICES ASSUME NEW s \in S
                 PROVE  n[s] \in Entry
      OBVIOUS
    <2>1. Version(s) \in Edits
      BY <1>1
    <2>2. s \in DOMAIN m => m[s].ver \in Edits
      BY EntryMap DEF Edits
    <2>3. [ver |-> IF s \in DOMAIN m THEN m[s].ver ELSE Version(s), edit |-> Version(s)] \in Entry
      BY <2>1, <2>2 DEF Entry
    <2> QED
      BY <2>3, <1>5
  <1>9. \A s \in DOMAIN m \cup S : n[s] \in Entry
    BY <1>2, <1>6, <1>8
  <1>10. n \in Partial(Entry)
    <2>1. n \in [DOMAIN m \cup S -> Entry]
      BY <1>7, <1>9
    <2> QED
      BY <1>3, <2>1, PartialMap
  <1> QED
    BY <1>4, <1>5, <1>6, <1>10 DEF n

\* A load puts every Svr's last edit into memory.
LEMMA GetModSvrMap ==
  ASSUME TypeOK, NEW m \in Partial(Entry), DOMAIN m \subseteq Listed,
         \A s \in DOMAIN m : m[s].ver <= m[s].edit /\ m[s].edit <= Version(s)
  PROVE  LET n == GetModSvr(m)
         IN  /\ n \in Partial(Entry) /\ DOMAIN n = Listed
             /\ \A s \in Listed : n[s].edit = Version(s) /\ n[s].ver <= Version(s)
             /\ ModSvrs(m) \subseteq Listed /\ Moved(m, n) \subseteq ModSvrs(m)
  <1> DEFINE n == GetModSvr(m)
  <1>1. ModSvrs(m) \subseteq Listed
    BY DEF ModSvrs
  <1>2. /\ n \in Partial(Entry) /\ DOMAIN n = DOMAIN m \cup ModSvrs(m)
        /\ \A s \in ModSvrs(m) : /\ n[s].edit = Version(s)
                                 /\ n[s].ver = IF s \in DOMAIN m THEN m[s].ver ELSE Version(s)
        /\ \A s \in DOMAIN m \ ModSvrs(m) : n[s] = m[s]
    BY <1>1, SaveNodeMap DEF GetModSvr
  <1> HIDE DEF n
  <1>3. \A s \in Listed \ ModSvrs(m) : s \in DOMAIN m /\ m[s].ver = Version(s)
    BY DEF ModSvrs, IsExistNode, IsVerChange
  <1>4. \A s \in DOMAIN m : m[s].ver \in Nat /\ m[s].edit \in Nat
    BY EntryMap
  <1>5. \A s \in Listed : Version(s) \in Nat
    BY Shape
  <1>6. DOMAIN n = Listed
    BY <1>1, <1>2, <1>3
  <1>7. \A s \in Listed : n[s].edit = Version(s) /\ n[s].ver <= Version(s)
    <2> SUFFICES ASSUME NEW s \in Listed
                 PROVE  n[s].edit = Version(s) /\ n[s].ver <= Version(s)
      OBVIOUS
    <2>1. CASE s \in ModSvrs(m)
      <3>1. CASE s \in DOMAIN m
        BY <2>1, <3>1, <1>2, <1>4, <1>5
      <3>2. CASE s \notin DOMAIN m
        BY <2>1, <3>2, <1>2, <1>5
      <3> QED
        BY <3>1, <3>2
    <2>2. CASE s \notin ModSvrs(m)
      <3>1. s \in DOMAIN m /\ m[s].ver = Version(s) /\ n[s] = m[s]
        BY <2>2, <1>2, <1>3
      <3> QED
        BY <3>1, <1>4, <1>5
    <2> QED
      BY <2>1, <2>2
  <1>8. Moved(m, n) \subseteq ModSvrs(m)
    BY <1>1, <1>2 DEF Moved
  <1> QED
    BY <1>1, <1>2, <1>6, <1>7, <1>8 DEF n

\* A RELOAD starts from nothing.
LEMMA GetModSvrAll ==
  ASSUME TypeOK
  PROVE  LET n == GetModSvr(NoNodes)
         IN  /\ n \in Partial(Entry) /\ DOMAIN n = Listed
             /\ \A s \in Listed : n[s].edit = Version(s) /\ n[s].ver <= Version(s)
  <1>1. DOMAIN NoNodes = {} /\ NoNodes \in [{} -> Entry]
    BY DEF NoNodes
  <1>2. NoNodes \in Partial(Entry)
    BY <1>1, PartialMap
  <1> QED
    BY <1>1, <1>2, GetModSvrMap

\* What a new worker reads over the Svrs it inherits.
LEMMA GetSvrConfMap ==
  ASSUME TypeOK, NEW m \in Partial(Entry), DOMAIN m \subseteq Listed,
         \A s \in DOMAIN m : m[s].ver = 1
  PROVE  LET n == GetSvrConf(m)
         IN  /\ n \in Partial(Entry) /\ DOMAIN n \subseteq Listed
             /\ \A s \in Listed : ~Deleted(s) => s \in DOMAIN n
             /\ \A s \in DOMAIN n : /\ n[s].ver <= Version(s)
                                    /\ n[s].edit = IF Deleted(s) THEN m[s].edit ELSE Version(s)
                                    /\ Deleted(s) => s \in DOMAIN m /\ n[s].ver = 1
                                    /\ n[s].edit \in 1 .. MaxEdits /\ n[s].ver \in 1 .. MaxEdits
  <1> DEFINE n == GetSvrConf(m)
             S == {s \in Listed : ~Deleted(s)}
  <1>1. S \in SUBSET Listed
    OBVIOUS
  <1>2. /\ n \in Partial(Entry) /\ DOMAIN n = DOMAIN m \cup S
        /\ \A s \in S : /\ n[s].edit = Version(s)
                        /\ n[s].ver = IF s \in DOMAIN m THEN m[s].ver ELSE Version(s)
        /\ \A s \in DOMAIN m \ S : n[s] = m[s]
    BY <1>1, SaveNodeMap DEF GetSvrConf
  <1> HIDE DEF n
  <1>3. \A s \in Listed : Version(s) \in 1 .. MaxEdits
    BY Shape
  <1>4. \A s \in DOMAIN n : n[s].edit \in 1 .. MaxEdits /\ n[s].ver \in 1 .. MaxEdits
    BY <1>2, EntryMap
  <1>5. \A s \in DOMAIN n : /\ n[s].ver <= Version(s)
                            /\ n[s].edit = IF Deleted(s) THEN m[s].edit ELSE Version(s)
                            /\ Deleted(s) => s \in DOMAIN m /\ n[s].ver = 1
    BY <1>2, <1>3, SyncAssumption
  <1> QED
    BY <1>1, <1>2, <1>4, <1>5 DEF n

\* The Svrs the worker inherits.
LEMMA ForkedMap ==
  ASSUME TypeOK
  PROVE  /\ Forked \in Partial(Entry) /\ DOMAIN Forked = image /\ image \subseteq Listed
         /\ \A s \in image : Forked[s].ver = 1 /\ Forked[s].edit = 1
  <1>1. image \subseteq Listed /\ image \in SUBSET Svr
    BY DEF TypeOK, Listed
  <1>2. Forked \in [image -> Entry]
    BY SyncAssumption DEF Forked, Entry, Edits
  <1> QED
    BY <1>1, <1>2, PartialMap DEF Forked

-----------------------------------------------------------------------------
(* Steps: the file, messages sent, well-formedness.                        *)

\* An edit is appended; what the file has had stays.
LEMMA EditFile ==
  ASSUME TypeOK, NEW s \in Svr, NEW w \in Weight, Edit(s, w)
  PROVE  /\ file' \in [Svr -> Seq(Weight)]
         /\ \A x \in Svr : /\ Version(x)' = IF x = s THEN Version(x) + 1 ELSE Version(x)
                           /\ Version(x)' <= MaxEdits
                           /\ x # s => file'[x] = file[x]
                           /\ \A i \in 1 .. Version(x) : file'[x][i] = file[x][i]
         /\ Listed \subseteq Listed'
  <1>1. file \in [Svr -> Seq(Weight)] /\ \A x \in Svr : file[x] \in Seq(Weight)
    BY DEF TypeOK
  <1>2. file' = [file EXCEPT ![s] = Append(file[s], w)]
    BY DEF Edit
  <1>3. /\ Append(file[s], w) \in Seq(Weight) /\ Append(file[s], w) # <<>>
        /\ Len(Append(file[s], w)) = Len(file[s]) + 1
        /\ \A i \in 1 .. Len(file[s]) : Append(file[s], w)[i] = file[s][i]
    BY <1>1, AppendProperties
  <1>4. file' \in [Svr -> Seq(Weight)] /\ file'[s] = Append(file[s], w)
        /\ \A x \in Svr : x # s => file'[x] = file[x]
    BY <1>1, <1>2, <1>3
  <1>5. \A x \in Svr : Version(x) <= MaxEdits
    BY DEF TypeOK
  <1>6. Version(s) < MaxEdits
    BY DEF Edit
  <1>7. \A x \in Svr : /\ Version(x)' = IF x = s THEN Version(x) + 1 ELSE Version(x)
                       /\ Version(x)' <= MaxEdits
    BY <1>1, <1>3, <1>4, <1>5, <1>6, SyncAssumption DEF Version
  <1>8. \A x \in Svr : \A i \in 1 .. Version(x) : file'[x][i] = file[x][i]
    BY <1>3, <1>4 DEF Version
  <1>9. Listed \subseteq Listed'
    BY <1>3, <1>4 DEF Listed
  <1> QED
    BY <1>4, <1>7, <1>8, <1>9

\* A Send as the agents of sent, and the others, see it.
SentTo(sent, msg, due) ==
  \A a \in Agent :
    /\ chan'[a] = IF a \in sent /\ link[a] = "up" THEN Append(chan[a], msg) ELSE chan[a]
    /\ owed'[a] = IF a \in sent THEN owed[a] \ DOMAIN msg.svrs
                  ELSE IF a \in mTaskPool THEN owed[a] \cup due[a] ELSE owed[a]

\* What a Send does to queues and to what is owed.
LEMMA SendParts ==
  ASSUME TypeOK, NEW A, NEW msg \in Message, NEW due \in [Agent -> SUBSET Svr],
         Send(A, msg, due)
  PROVE  /\ chan' \in [Agent -> Queue] /\ owed' \in [Agent -> SUBSET Svr]
         /\ \A a \in Agent : Len(chan'[a]) <= BufCap + WireCap
         /\ \E sent \in SUBSET (A \cap mTaskPool) : SentTo(sent, msg, due)
  <1>1. PICK full \in SUBSET Agent :
          /\ Full(full)
          /\ chan' = [a \in Agent |-> IF a \in (A \cap mTaskPool) \ full /\ link[a] = "up"
                                      THEN Append(chan[a], msg) ELSE chan[a]]
          /\ owed' = [a \in Agent |-> IF a \in (A \cap mTaskPool) \ full
                                      THEN owed[a] \ DOMAIN msg.svrs
                                      ELSE IF a \in mTaskPool THEN owed[a] \cup due[a] ELSE owed[a]]
    BY DEF Send
  <1>2. \A a \in Agent : /\ chan[a] \in Seq(Message) /\ Len(chan[a]) <= BufCap + WireCap
                         /\ Append(chan[a], msg) \in Seq(Message)
                         /\ Len(Append(chan[a], msg)) = Len(chan[a]) + 1
    <2> SUFFICES ASSUME NEW a \in Agent
                 PROVE  /\ chan[a] \in Seq(Message) /\ Len(chan[a]) <= BufCap + WireCap
                        /\ Append(chan[a], msg) \in Seq(Message)
                        /\ Len(Append(chan[a], msg)) = Len(chan[a]) + 1
      OBVIOUS
    <2>1. chan[a] \in Seq(Message) /\ Len(chan[a]) <= BufCap + WireCap
      BY DEF TypeOK
    <2> QED
      BY <2>1, AppendProperties
  <1>3. \A a \in (A \cap mTaskPool) \ full : ~(Len(chan[a]) >= BufCap + WireCap)
    BY <1>1 DEF Full
  <1>4. chan' \in [Agent -> Queue]
    BY <1>1, <1>2 DEF Queue
  <1>5. \A a \in Agent : Len(chan'[a]) <= BufCap + WireCap
    BY <1>1, <1>2, <1>3, SyncAssumption
  <1>6. owed' \in [Agent -> SUBSET Svr]
    <2>1. \A a \in Agent : owed[a] \in SUBSET Svr /\ due[a] \in SUBSET Svr
      BY DEF TypeOK
    <2> QED
      BY <1>1, <2>1
  <1>7. \E sent \in SUBSET (A \cap mTaskPool) : SentTo(sent, msg, due)
    <2>1. SentTo((A \cap mTaskPool) \ full, msg, due)
      BY <1>1 DEF SentTo
    <2> QED
      BY <2>1
  <1> QED
    BY <1>4, <1>5, <1>6, <1>7

\* The messages that are sent.
LEMMA PendingMessage ==
  ASSUME TypeOK, loading # NotLoading, loading.type # "start"
  PROVE  [type |-> loading.type, svrs |-> loading.svrs] \in Message
  <1>1. loading \in Load
    BY DEF TypeOK
  <1> QED
    BY <1>1 DEF Load, Message

\* The answer to INIT: all of memory.
LEMMA InitMessage ==
  ASSUME TypeOK
  PROVE  LET all == [s \in DOMAIN mMapReqSvr |-> mMapReqSvr[s].edit]
         IN  /\ [type |-> "init", svrs |-> all] \in Message /\ DOMAIN all = DOMAIN mMapReqSvr
             /\ \A s \in DOMAIN all : all[s] = Mem[s]
  <1> DEFINE all == [s \in DOMAIN mMapReqSvr |-> mMapReqSvr[s].edit]
  <1>1. all \in [DOMAIN mMapReqSvr -> Edits] /\ DOMAIN mMapReqSvr \in SUBSET Svr
    BY Shape DEF Edits
  <1>2. all \in Partial(Edits)
    BY <1>1, PartialMap
  <1>3. \A s \in DOMAIN all : all[s] = Mem[s]
    BY Shape
  <1> QED
    BY <1>2, <1>3 DEF Message

\* A load in progress, from the edits the file has now.
LEMMA LoadRecord ==
  ASSUME TypeOK, NEW S \in SUBSET Listed, NEW type \in {"start", "reload", "sync"},
         NEW to \in SUBSET Agent, NEW moved \in SUBSET Svr
  PROVE  /\ [type |-> type, to |-> to, svrs |-> Current(S), moved |-> moved] \in Load
         /\ DOMAIN Current(S) = S /\ \A s \in S : Current(S)[s] = Version(s)
  <1>1. \A s \in S : Version(s) \in Edits
    BY Shape DEF Edits
  <1>2. Current(S) \in [S -> Edits] /\ S \in SUBSET Svr
    BY <1>1 DEF Current, Listed
  <1>3. Current(S) \in Partial(Edits)
    BY <1>2, PartialMap
  <1> QED
    BY <1>3 DEF Load, Current

\* A message may name no Svr.
LEMMA EmptyMapType == EmptyMap \in Partial(Edits) /\ DOMAIN EmptyMap = {}
  <1>1. EmptyMap \in [{} -> Edits]
    BY DEF EmptyMap
  <1> QED
    BY <1>1, PartialMap DEF EmptyMap

\* Every step keeps the state well formed.
LEMMA TypeStep == IInv /\ [Next]_vars => TypeOK'
  <1> SUFFICES ASSUME TypeOK, \A a \in Agent : AgentOK(a), [Next]_vars
               PROVE  TypeOK'
    BY DEF IInv
  <1> USE DEF agentVars, workerVars, fileVars
  <1>1. ASSUME NEW s \in Svr, NEW w \in Weight, Edit(s, w)
        PROVE  TypeOK'
    <2>1. /\ file' \in [Svr -> Seq(Weight)] /\ Listed \subseteq Listed'
          /\ \A x \in Svr : Version(x)' <= MaxEdits
      BY <1>1, EditFile
    <2>2. stamp' \in [modified : BOOLEAN, thisSecond : BOOLEAN] /\ missed' \in SUBSET Svr
      BY <1>1 DEF Edit, TypeOK
    <2>3. image \subseteq Listed' /\ DOMAIN mMapReqSvr \subseteq Listed'
          /\ held \in [Agent -> SUBSET Listed']
      BY <2>1 DEF TypeOK
    <2> QED
      BY <1>1, <2>1, <2>2, <2>3 DEF Edit, TypeOK
  <1>2. CASE Tick
    BY <1>2 DEF Tick, TypeOK, Listed, Version
  <1>3. CASE CheckModSvr
    <2>1. /\ GetModSvr(mMapReqSvr) \in Partial(Entry) /\ DOMAIN GetModSvr(mMapReqSvr) \subseteq Listed
          /\ ModSvrs(mMapReqSvr) \subseteq Listed
      <3>1. ModSvrs(mMapReqSvr) \subseteq Listed
        BY DEF ModSvrs
      <3>2. mMapReqSvr \in Partial(Entry) /\ DOMAIN mMapReqSvr \subseteq Listed
        BY DEF TypeOK
      <3>3. /\ SaveNode(mMapReqSvr, ModSvrs(mMapReqSvr)) \in Partial(Entry)
            /\ DOMAIN SaveNode(mMapReqSvr, ModSvrs(mMapReqSvr)) =
                 DOMAIN mMapReqSvr \cup ModSvrs(mMapReqSvr)
        BY <3>1, <3>2, SaveNodeMap
      <3> QED
        BY <3>1, <3>2, <3>3 DEF GetModSvr
    <2>2. Moved(mMapReqSvr, GetModSvr(mMapReqSvr)) \in SUBSET Svr
      BY <2>1, PartialMap DEF Moved
    <2>3. loading' \in Load
      BY <1>3, <2>1, <2>2, LoadRecord DEF CheckModSvr
    <2> QED
      BY <1>3, <2>1, <2>3 DEF CheckModSvr, TypeOK, Listed, Version
  <1>4. CASE SetModTime
    <2>1. stamp' \in [modified : BOOLEAN, thisSecond : BOOLEAN]
      BY <1>4 DEF SetModTime, TypeOK
    <2>2. /\ chan' \in [Agent -> Queue] /\ owed' \in [Agent -> SUBSET Svr]
          /\ \A a \in Agent : Len(chan'[a]) <= BufCap + WireCap
      <3>1. CASE UNCHANGED <<chan, owed>>
        BY <3>1 DEF TypeOK, Queue
      <3>2. CASE ~UNCHANGED <<chan, owed>>
        <4>1. loading.type # "start"
              /\ Send(loading.to, [type |-> loading.type, svrs |-> loading.svrs],
                      [a \in Agent |-> loading.moved])
          BY <1>4, <3>2 DEF SetModTime
        <4>2. loading \in Load
          BY <1>4 DEF SetModTime, TypeOK
        <4>3. [a \in Agent |-> loading.moved] \in [Agent -> SUBSET Svr]
          BY <4>2 DEF Load
        <4> QED
          BY <1>4, <4>1, <4>3, PendingMessage, SendParts DEF SetModTime
      <3> QED
        BY <3>1, <3>2
    <2> QED
      BY <1>4, <2>1, <2>2 DEF SetModTime, TypeOK, Listed, Version, Queue
  <1>5. CASE RespawnWorker
    <2>1. /\ GetSvrConf(Forked) \in Partial(Entry) /\ DOMAIN GetSvrConf(Forked) \subseteq Listed
      BY ForkedMap, GetSvrConfMap
    <2>2. loading' \in Load
      BY <1>5, EmptyMapType DEF RespawnWorker, Load
    <2>3. /\ chan' \in [Agent -> Seq(Message)]
          /\ \A a \in Agent : Len(chan'[a]) <= BufCap + WireCap
      <3>1. PICK n \in [Agent -> 0 .. BufCap + WireCap] :
              /\ \A a \in Agent : n[a] <= Len(chan[a])
              /\ chan' = [a \in Agent |-> SubSeq(chan[a], 1, n[a])]
        BY <1>5 DEF RespawnWorker
      <3>2. \A a \in Agent : /\ SubSeq(chan[a], 1, n[a]) \in Seq(Message)
                             /\ Len(SubSeq(chan[a], 1, n[a])) <= BufCap + WireCap
        <4> SUFFICES ASSUME NEW a \in Agent
                     PROVE  /\ SubSeq(chan[a], 1, n[a]) \in Seq(Message)
                            /\ Len(SubSeq(chan[a], 1, n[a])) <= BufCap + WireCap
          OBVIOUS
        <4>1. chan[a] \in Seq(Message) /\ n[a] \in 0 .. BufCap + WireCap /\ n[a] <= Len(chan[a])
              /\ BufCap + WireCap \in Nat
          BY <3>1, SyncAssumption DEF TypeOK
        <4>2. \A i \in 1 .. n[a] : chan[a][i] \in Message
          BY <4>1
        <4> QED
          BY <4>1, <4>2, SubSeqProperties
      <3> QED
        BY <3>1, <3>2
    <2>4. missed' \in SUBSET Svr /\ mTaskPool' = {} /\ req' \in [Agent -> {"none", "init", "reload"}]
      BY <1>5, ForkedMap DEF RespawnWorker, Listed
    <2> QED
      BY <1>5, <2>1, <2>2, <2>3, <2>4 DEF RespawnWorker, TypeOK, Listed, Version
  <1>6. ASSUME NEW a \in Agent, InitSvrReq(a)
        PROVE  TypeOK'
    <2> DEFINE all == [s \in DOMAIN mMapReqSvr |-> mMapReqSvr[s].edit]
               due == [b \in Agent |-> IF b = a THEN DOMAIN all ELSE {}]
    <2>1. Send({a}, [type |-> "init", svrs |-> all], due)
      BY <1>6 DEF InitSvrReq
    <2>2. due \in [Agent -> SUBSET Svr]
      BY Shape
    <2> HIDE DEF due
    <2>3. /\ chan' \in [Agent -> Queue] /\ owed' \in [Agent -> SUBSET Svr]
          /\ \A b \in Agent : Len(chan'[b]) <= BufCap + WireCap
      BY <2>1, <2>2, InitMessage, SendParts
    <2>4. req' \in [Agent -> {"none", "init", "reload"}]
      BY <1>6 DEF InitSvrReq, TypeOK
    <2> QED
      BY <1>6, <2>3, <2>4 DEF InitSvrReq, TypeOK, Listed, Version, Queue
  <1>7. ASSUME NEW a \in Agent, ReloadSvrReq(a)
        PROVE  TypeOK'
    <2>1. GetModSvr(NoNodes) \in Partial(Entry) /\ DOMAIN GetModSvr(NoNodes) = Listed
          /\ mMapReqSvr' = GetModSvr(NoNodes)
      BY <1>7, GetModSvrAll DEF ReloadSvrReq, NoNodes
    <2>2. Moved(mMapReqSvr, mMapReqSvr') \in SUBSET Svr
      BY <2>1 DEF Moved, Listed
    <2>3. loading' \in Load
      BY <1>7, <2>2, LoadRecord DEF ReloadSvrReq
    <2> QED
      BY <1>7, <2>1, <2>3 DEF ReloadSvrReq, TypeOK, Listed, Version
  <1>8. ASSUME NEW a \in Agent, RemoveTaskPool(a)
        PROVE  TypeOK'
    <2>1. PICK n \in 0 .. Len(chan[a]) : chan' = [chan EXCEPT ![a] = SubSeq(chan[a], 1, n)]
      BY <1>8 DEF RemoveTaskPool
    <2>2. chan[a] \in Seq(Message) /\ Len(chan[a]) \in Nat /\ Len(chan[a]) <= BufCap + WireCap
      BY DEF TypeOK
    <2>3. \A i \in 1 .. n : chan[a][i] \in Message
      BY <2>2
    <2>4. SubSeq(chan[a], 1, n) \in Seq(Message) /\ Len(SubSeq(chan[a], 1, n)) <= BufCap + WireCap
      BY <2>2, <2>3, SubSeqProperties, SyncAssumption
    <2>5. chan' \in [Agent -> Seq(Message)] /\ \A b \in Agent : Len(chan'[b]) <= BufCap + WireCap
      BY <2>1, <2>4 DEF TypeOK
    <2> QED
      BY <1>8, <2>5 DEF RemoveTaskPool, TypeOK, Listed, Version
  <1>9. ASSUME NEW a \in Agent, Start(a)
        PROVE  TypeOK'
    <2>1. <<>> \in Seq(Message) /\ Len(<<>>) = 0
      OBVIOUS
    <2>2. chan' \in [Agent -> Seq(Message)] /\ \A b \in Agent : Len(chan'[b]) <= BufCap + WireCap
      BY <1>9, <2>1, SyncAssumption DEF Start, TypeOK
    <2>3. held' \in [Agent -> SUBSET Listed] /\ at' \in [Agent -> [Svr -> 0 .. MaxEdits]]
          /\ owed' \in [Agent -> SUBSET Svr]
      BY <1>9, SyncAssumption DEF Start, TypeOK
    <2> QED
      BY <1>9, <2>2, <2>3 DEF Start, TypeOK, Listed, Version
  <1>10. ASSUME NEW a \in Agent, AskReload(a)
         PROVE  TypeOK'
    BY <1>10 DEF AskReload, TypeOK, Listed, Version
  <1>11. ASSUME NEW a \in Agent, Deliver(a)
         PROVE  TypeOK'
    <2>1. PICK type : Receive(a, type)
      BY <1>11 DEF Deliver, InitSvrRes, ReloadSvrRes, SyncSvrRes
    <2>2. chan[a] \in Seq(Message) /\ chan[a] # <<>> /\ Len(chan[a]) <= BufCap + WireCap
      BY <2>1 DEF Receive, TypeOK
    <2>3. /\ Head(chan[a]) \in Message /\ Tail(chan[a]) \in Seq(Message)
          /\ Len(Tail(chan[a])) = Len(chan[a]) - 1
      BY <2>2, HeadTailProperties
    <2>4. chan' \in [Agent -> Seq(Message)] /\ \A b \in Agent : Len(chan'[b]) <= BufCap + WireCap
      <3>1. Len(Tail(chan[a])) <= BufCap + WireCap
        BY <2>2, <2>3, SyncAssumption
      <3> QED
        BY <2>1, <2>3, <3>1 DEF Receive, TypeOK
    <2>5. at' \in [Agent -> [Svr -> 0 .. MaxEdits]]
      <3>1. at[a] \in [Svr -> 0 .. MaxEdits]
        BY DEF TypeOK
      <3>2. [s \in Svr |-> IF s \in DOMAIN Head(chan[a]).svrs THEN Head(chan[a]).svrs[s]
                           ELSE at[a][s]] \in [Svr -> 0 .. MaxEdits]
        BY <2>3, <3>1, MessageParts, SyncAssumption
      <3> QED
        BY <2>1, <3>2 DEF Receive, TypeOK
    <2>6. DOMAIN Head(chan[a]).svrs \subseteq Listed
      <3>1. \A s \in DOMAIN chan[a][1].svrs : s \in Svr /\ chan[a][1].svrs[s] <= Version(s)
                                               /\ chan[a][1].svrs[s] > 0
        <4>1. 1 \in 1 .. Len(chan[a]) /\ UpTo(chan[a], at[a], Ver) /\ chan[a] \in Queue
          BY <2>2 DEF AgentOK, Queue
        <4> QED
          BY <4>1, Queued, Shape DEF UpTo
      <3>2. \A s \in Svr : Version(s) = 0 <=> s \notin Listed
        BY DEF TypeOK, Listed, Version
      <3> QED
        BY <2>2, <2>3, <3>1, <3>2, Shape, MessageParts
    <2>7. held' \in [Agent -> SUBSET Listed]
      <3>1. held[a] \in SUBSET Listed
        BY DEF TypeOK
      <3>2. PICK h \in SUBSET Listed : held' = [held EXCEPT ![a] = h]
        <4>1. CASE InitSvrRes(a)
          BY <4>1, <2>6, <3>1 DEF InitSvrRes
        <4>2. CASE ReloadSvrRes(a)
          BY <4>2, <2>6, <3>1 DEF ReloadSvrRes
        <4>3. CASE SyncSvrRes(a)
          BY <4>3, <2>6, <3>1 DEF SyncSvrRes
        <4> QED
          BY <1>11, <4>1, <4>2, <4>3 DEF Deliver
      <3> QED
        BY <3>2 DEF TypeOK
    <2> QED
      BY <2>1, <2>4, <2>5, <2>7 DEF Receive, TypeOK, Listed, Version
  <1>12. ASSUME NEW a \in Agent, LoseRouter(a)
         PROVE  TypeOK'
    <2>1. <<>> \in Seq(Message) /\ Len(<<>>) = 0
      OBVIOUS
    <2>2. chan' \in [Agent -> Seq(Message)] /\ \A b \in Agent : Len(chan'[b]) <= BufCap + WireCap
      BY <1>12, <2>1, SyncAssumption DEF LoseRouter, TypeOK
    <2> QED
      BY <1>12, <2>2 DEF LoseRouter, TypeOK, Listed, Version
  <1>13. CASE UNCHANGED vars
    BY <1>13 DEF vars, TypeOK, Listed, Version
  <1> QED
    BY <1>1, <1>2, <1>3, <1>4, <1>5, <1>6, <1>7, <1>8, <1>9, <1>10, <1>11, <1>12, <1>13 DEF Next

-----------------------------------------------------------------------------
(* Steps: memory, the load, the message it leads to.                       *)

\* A new worker has read what is not deleted.
LEMMA RespawnMap ==
  ASSUME TypeOK, RespawnWorker
  PROVE  /\ \A s \in Listed : ~Deleted(s) => s \in DOMAIN mMapReqSvr'
         /\ DOMAIN mMapReqSvr' \subseteq Listed
         /\ \A s \in DOMAIN mMapReqSvr' :
              /\ mMapReqSvr'[s].ver <= mMapReqSvr'[s].edit /\ mMapReqSvr'[s].edit <= Version(s)
              /\ ~Deleted(s) => mMapReqSvr'[s].edit = Version(s)
              /\ Deleted(s) => s \in image
  <1>1. mMapReqSvr' = GetSvrConf(Forked)
    BY DEF RespawnWorker
  <1>2. /\ Forked \in Partial(Entry) /\ DOMAIN Forked = image /\ image \subseteq Listed
        /\ \A s \in image : Forked[s].ver = 1 /\ Forked[s].edit = 1
    BY ForkedMap
  <1>3. \A s \in Listed : Version(s) \in 1 .. MaxEdits
    BY Shape
  <1> DEFINE n == GetSvrConf(Forked)
  <1>4. /\ DOMAIN n \subseteq Listed /\ \A s \in Listed : ~Deleted(s) => s \in DOMAIN n
        /\ \A s \in DOMAIN n : /\ n[s].ver <= Version(s)
                               /\ n[s].edit = IF Deleted(s) THEN Forked[s].edit ELSE Version(s)
                               /\ Deleted(s) => s \in image /\ n[s].ver = 1
    BY <1>2, GetSvrConfMap
  <1> HIDE DEF n
  <1>5. \A s \in DOMAIN n : /\ n[s].ver <= n[s].edit /\ n[s].edit <= Version(s)
                            /\ ~Deleted(s) => n[s].edit = Version(s)
                            /\ Deleted(s) => s \in image
    BY <1>2, <1>3, <1>4, SyncAssumption
  <1> QED
    BY <1>1, <1>4, <1>5 DEF n

\* A load by CheckModSvr or ReloadSvrReq, and the Svrs it moves.
LEMMA LoadMap ==
  ASSUME IInv, CheckModSvr \/ \E a \in Agent : ReloadSvrReq(a)
  PROVE  /\ DOMAIN mMapReqSvr' = Listed /\ DOMAIN mMapReqSvr \subseteq Listed
         /\ \A s \in Listed : mMapReqSvr'[s].edit = Version(s) /\ mMapReqSvr'[s].ver <= Version(s)
         /\ loading = NotLoading /\ loading' # NotLoading /\ loading' \in Load
         /\ loading'.moved = Moved(mMapReqSvr, mMapReqSvr') /\ loading'.type \in {"sync", "reload"}
         /\ loading'.moved \subseteq DOMAIN loading'.svrs /\ DOMAIN loading'.svrs \subseteq Listed
         /\ loading'.type = "reload" => DOMAIN loading'.svrs = Listed
         /\ \A s \in DOMAIN loading'.svrs : loading'.svrs[s] = Version(s)
         /\ missed' = {} /\ UNCHANGED <<file, stamp>>
  <1>1. DOMAIN mMapReqSvr \subseteq Listed /\ mMapReqSvr \in Partial(Entry)
    BY DEF IInv, TypeOK
  <1>2. TypeOK /\ MemoryOK
    BY DEF IInv
  <1>3. CASE CheckModSvr
    <2>1. /\ mMapReqSvr' = GetModSvr(mMapReqSvr)
          /\ loading' = [type |-> "sync", to |-> Agent, svrs |-> Current(ModSvrs(mMapReqSvr)),
                         moved |-> Moved(mMapReqSvr, mMapReqSvr')]
          /\ loading = NotLoading /\ missed' = {} /\ UNCHANGED <<file, stamp>>
      BY <1>3 DEF CheckModSvr, fileVars
    <2>2. /\ DOMAIN mMapReqSvr' = Listed
          /\ \A s \in Listed : mMapReqSvr'[s].edit = Version(s) /\ mMapReqSvr'[s].ver <= Version(s)
          /\ ModSvrs(mMapReqSvr) \subseteq Listed
          /\ Moved(mMapReqSvr, mMapReqSvr') \subseteq ModSvrs(mMapReqSvr)
      BY <1>1, <1>2, <2>1, GetModSvrMap DEF MemoryOK
    <2>3. Moved(mMapReqSvr, mMapReqSvr') \in SUBSET Svr
      BY <2>2 DEF Listed
    <2>4. /\ loading' \in Load /\ DOMAIN loading'.svrs = ModSvrs(mMapReqSvr)
          /\ \A s \in DOMAIN loading'.svrs : loading'.svrs[s] = Version(s)
      BY <1>2, <2>1, <2>2, <2>3, LoadRecord
    <2> QED
      BY <1>1, <2>1, <2>2, <2>4 DEF NotLoading
  <1>4. ASSUME NEW a \in Agent, ReloadSvrReq(a)
        PROVE  /\ DOMAIN mMapReqSvr' = Listed
               /\ \A s \in Listed : mMapReqSvr'[s].edit = Version(s) /\ mMapReqSvr'[s].ver <= Version(s)
               /\ loading = NotLoading /\ loading' # NotLoading /\ loading' \in Load
               /\ loading'.moved = Moved(mMapReqSvr, mMapReqSvr') /\ loading'.type = "reload"
               /\ loading'.moved \subseteq DOMAIN loading'.svrs /\ DOMAIN loading'.svrs = Listed
               /\ \A s \in DOMAIN loading'.svrs : loading'.svrs[s] = Version(s)
               /\ missed' = {} /\ UNCHANGED <<file, stamp>>
    <2>1. /\ mMapReqSvr' = GetModSvr(NoNodes)
          /\ loading' = [type |-> "reload", to |-> {a}, svrs |-> Current(Listed),
                         moved |-> Moved(mMapReqSvr, mMapReqSvr')]
          /\ loading = NotLoading /\ missed' = {} /\ UNCHANGED <<file, stamp>>
      BY <1>4 DEF ReloadSvrReq, NoNodes, fileVars
    <2>2. /\ DOMAIN mMapReqSvr' = Listed
          /\ \A s \in Listed : mMapReqSvr'[s].edit = Version(s) /\ mMapReqSvr'[s].ver <= Version(s)
      BY <1>2, <2>1, GetModSvrAll
    <2>3. Moved(mMapReqSvr, mMapReqSvr') \in SUBSET Svr
          /\ Moved(mMapReqSvr, mMapReqSvr') \subseteq Listed
      BY <2>2 DEF Listed, Moved
    <2>4. /\ loading' \in Load /\ DOMAIN loading'.svrs = Listed
          /\ \A s \in DOMAIN loading'.svrs : loading'.svrs[s] = Version(s)
      BY <1>2, <2>1, <2>3, LoadRecord
    <2> QED
      BY <2>1, <2>2, <2>3, <2>4 DEF NotLoading
  <1> QED
    BY <1>1, <1>3, <1>4

\* Steps that leave memory alone.
QuietMemory == UNCHANGED <<file, stamp, mMapReqSvr, loading, missed>>

\* The steps that do not touch the file, the memory or the load.
LEMMA OtherSteps ==
  ASSUME [Next]_vars
  PROVE  \/ \E s \in Svr, w \in Weight : Edit(s, w)
         \/ CheckModSvr \/ \E a \in Agent : ReloadSvrReq(a)
         \/ SetModTime \/ RespawnWorker \/ Tick
         \/ QuietMemory /\ (mTaskPool' # mTaskPool => loading = NotLoading)
  BY DEF Next, vars, fileVars, workerVars, agentVars, QuietMemory, InitSvrReq, RemoveTaskPool,
         Start, AskReload, Deliver, InitSvrRes, ReloadSvrRes, SyncSvrRes, Receive, LoseRouter

\* Every step keeps memory behind the file and not before its versions.
LEMMA MemoryStep == IInv /\ [Next]_vars => MemoryOK'
  <1> SUFFICES ASSUME IInv, [Next]_vars
               PROVE  MemoryOK'
    OBVIOUS
  <1>1. TypeOK /\ MemoryOK
    BY DEF IInv
  <1>2. ASSUME NEW s \in Svr, NEW w \in Weight, Edit(s, w)
        PROVE  MemoryOK'
    <2>1. mMapReqSvr' = mMapReqSvr
      BY <1>2 DEF Edit, workerVars
    <2>2. \A x \in Svr : Version(x) \in Nat /\ Version(x)' \in {Version(x), Version(x) + 1}
      BY <1>1, <1>2, EditFile, Shape
    <2>3. \A x \in Svr : Version(x) <= Version(x)' /\ Version(x) \in Nat /\ Version(x)' \in Nat
      BY <2>2
    <2> QED
      BY <1>1, <2>1, <2>3, Shape DEF MemoryOK
  <1>3. CASE CheckModSvr \/ \E a \in Agent : ReloadSvrReq(a)
    <2>1. \A s \in Listed : Version(s)' = Version(s) /\ Version(s) \in Nat
      BY <1>1, <1>3, LoadMap, Shape DEF Version
    <2> QED
      BY <1>3, <2>1, LoadMap DEF MemoryOK
  <1>4. CASE RespawnWorker
    <2>1. \A s \in Svr : Version(s)' = Version(s)
      BY <1>4 DEF RespawnWorker, fileVars, Version
    <2> QED
      BY <1>1, <1>4, <2>1, RespawnMap DEF MemoryOK, Listed
  <1>5. CASE SetModTime \/ Tick \/ QuietMemory
    BY <1>1, <1>5 DEF SetModTime, Tick, QuietMemory, workerVars, MemoryOK, Version
  <1> QED
    BY <1>2, <1>3, <1>4, <1>5, OtherSteps

\* Every step keeps memory up to date while the file has not changed.
LEMMA LoadedStep == IInv /\ [Next]_vars => LoadedOK'
  <1> SUFFICES ASSUME IInv, [Next]_vars
               PROVE  LoadedOK'
    OBVIOUS
  <1>1. TypeOK /\ MemoryOK /\ LoadedOK
    BY DEF IInv
  <1>2. ASSUME NEW s \in Svr, NEW w \in Weight, Edit(s, w)
        PROVE  LoadedOK'
    <2>1. UNCHANGED <<mMapReqSvr, loading>>
      BY <1>2 DEF Edit, workerVars
    <2> SUFFICES ASSUME ~stamp'.modified \/ loading # NotLoading, NEW x \in Svr \ missed'
                 PROVE  InMemory(x)'
      BY <2>1 DEF LoadedOK
    <2>2. /\ x # s /\ x \notin missed
          /\ ~stamp.modified \/ loading # NotLoading
      BY <1>1, <1>2 DEF Edit, TypeOK
    <2>3. InMemory(x)
      BY <1>1, <2>2 DEF LoadedOK
    <2>4. file'[x] = file[x]
      BY <1>1, <1>2, <2>2, EditFile
    <2> QED
      BY <2>1, <2>3, <2>4 DEF InMemory, Version, Listed, Deleted
  <1>3. CASE CheckModSvr \/ \E a \in Agent : ReloadSvrReq(a)
    <2>1. \A s \in Listed : mMapReqSvr'[s].edit = Version(s) /\ s \in DOMAIN mMapReqSvr'
      BY <1>3, LoadMap
    <2>2. file' = file /\ DOMAIN mMapReqSvr' = Listed
      BY <1>3, LoadMap
    <2>3. \A s \in Svr : InMemory(s)'
      BY <2>1, <2>2 DEF InMemory, Version, Listed
    <2> QED
      BY <2>3 DEF LoadedOK
  <1>4. CASE RespawnWorker
    <2>1. file' = file /\ missed' = {s \in image : Deleted(s)}
      BY <1>4 DEF RespawnWorker, fileVars
    <2>2. ASSUME NEW s \in Svr, s \notin missed'
          PROVE  InMemory(s)'
      <3>1. Listed' = Listed /\ Deleted(s)' = Deleted(s) /\ Version(s)' = Version(s)
        BY <2>1 DEF Listed, Deleted, Version
      <3>2. CASE s \in DOMAIN mMapReqSvr'
        BY <1>1, <1>4, <2>1, <2>2, <3>1, <3>2, RespawnMap DEF InMemory
      <3>3. CASE s \notin DOMAIN mMapReqSvr'
        BY <1>1, <1>4, <3>1, <3>3, RespawnMap DEF InMemory
      <3> QED
        BY <3>2, <3>3
    <2> QED
      BY <2>2 DEF LoadedOK
  <1>5. CASE SetModTime
    <2>1. loading # NotLoading /\ UNCHANGED <<file, mMapReqSvr, missed>>
      BY <1>5 DEF SetModTime
    <2>2. \A s \in Svr \ missed : InMemory(s)
      BY <1>1, <2>1 DEF LoadedOK
    <2>3. \A s \in Svr : InMemory(s)' = InMemory(s)
      BY <2>1 DEF InMemory, Version, Listed, Deleted
    <2> QED
      BY <2>1, <2>2, <2>3 DEF LoadedOK
  <1>6. CASE Tick \/ QuietMemory
    <2>1. UNCHANGED <<file, mMapReqSvr, missed, loading>> /\ stamp'.modified = stamp.modified
      BY <1>1, <1>6 DEF Tick, QuietMemory, workerVars, TypeOK
    <2>2. \A s \in Svr : InMemory(s)' = InMemory(s)
      BY <2>1 DEF InMemory, Version, Listed, Deleted
    <2> QED
      BY <1>1, <2>1, <2>2 DEF LoadedOK
  <1> QED
    BY <1>2, <1>3, <1>4, <1>5, <1>6, OtherSteps

\* Every step keeps the pending message in line with memory.
LEMMA PendingStep == IInv /\ [Next]_vars => PendingOK'
  <1> SUFFICES ASSUME IInv, [Next]_vars
               PROVE  PendingOK'
    OBVIOUS
  <1>1. TypeOK /\ PendingOK
    BY DEF IInv
  <1>2. CASE CheckModSvr \/ \E a \in Agent : ReloadSvrReq(a)
    BY <1>2, LoadMap DEF PendingOK
  <1>3. CASE RespawnWorker
    BY <1>3, EmptyMapType DEF RespawnWorker, PendingOK
  <1>4. CASE SetModTime
    BY <1>4 DEF SetModTime, PendingOK
  <1>5. ASSUME NEW s \in Svr, NEW w \in Weight, Edit(s, w)
        PROVE  PendingOK'
    BY <1>1, <1>5 DEF Edit, workerVars, PendingOK
  <1>6. CASE Tick
    BY <1>1, <1>6 DEF Tick, workerVars, PendingOK
  <1>7. CASE QuietMemory /\ (mTaskPool' # mTaskPool => loading = NotLoading)
    BY <1>1, <1>7 DEF QuietMemory, PendingOK
  <1> QED
    BY <1>2, <1>3, <1>4, <1>5, <1>6, <1>7, OtherSteps

-----------------------------------------------------------------------------
(* Steps: what an agent has and what is on its way.                        *)

\* The bounds before and after a step.
LEMMA Bounds == TypeOK => Ver \in [Svr -> Nat] /\ Mem \in [Svr -> Nat]
  BY Shape

\* The same after a step.
LEMMA BoundsNext ==
  ASSUME TypeOK'
  PROVE  Ver' \in [Svr -> Nat] /\ Mem' \in [Svr -> Nat]
  <1>1. TypeOK' => (Ver \in [Svr -> Nat] /\ Mem \in [Svr -> Nat])'
    BY Bounds, PTL
  <1> QED
    BY <1>1

\* What a step must establish of an agent.
LEMMA AgentNext ==
  ASSUME NEW a \in Agent,
         UpTo(chan'[a], at'[a], Ver'), Monotone(chan'[a], at'[a]), Total(chan'[a], at'[a]),
         HeldOK(held'[a], at'[a], file'),
         Connected(a)' => UpTo(chan'[a], at'[a], Mem'),
         Connected(a)' /\ req'[a] # "init" =>
           \A s \in Svr \ (owed'[a] \cup Moving') : Reached(chan'[a], at'[a], s, Mem'[s])
  PROVE  AgentOK(a)'
  BY DEF AgentOK

\* Steps that change neither an agent nor what is on its way, and keep what
\* memory has of the Svrs the agent is not owed.
LEMMA QuietAgent ==
  ASSUME TypeOK, TypeOK', NEW a \in Agent, AgentOK(a),
         chan'[a] = chan[a], at'[a] = at[a], held'[a] = held[a],
         \A s \in Svr : Ver[s] <= Ver'[s], HeldOK(held[a], at[a], file'),
         Connected(a)' => Connected(a) /\ \A s \in Svr : Mem[s] <= Mem'[s],
         Connected(a)' /\ req'[a] # "init" =>
           /\ req[a] # "init"
           /\ \A s \in Svr \ (owed'[a] \cup Moving') : s \notin owed[a] \cup Moving /\ Mem'[s] = Mem[s]
  PROVE  AgentOK(a)'
  <1>1. /\ chan[a] \in Queue /\ at[a] \in Applied /\ Ver \in [Svr -> Nat] /\ Mem \in [Svr -> Nat]
        /\ Ver' \in [Svr -> Nat] /\ Mem' \in [Svr -> Nat]
    BY Shape, BoundsNext
  <1>2. UpTo(chan[a], at[a], Ver')
    BY <1>1, RaiseTop DEF AgentOK
  <1>3. Connected(a)' => UpTo(chan[a], at[a], Mem')
    BY <1>1, RaiseTop DEF AgentOK
  <1>4. Connected(a)' /\ req'[a] # "init" =>
          \A s \in Svr \ (owed'[a] \cup Moving') : Reached(chan[a], at[a], s, Mem'[s])
    BY DEF AgentOK
  <1>5. Monotone(chan[a], at[a]) /\ Total(chan[a], at[a])
    BY DEF AgentOK
  <1> QED
    BY <1>2, <1>3, <1>4, <1>5, AgentNext

\* Steps that leave the file, memory and the load alone, and this agent.
LEMMA OtherAgent ==
  ASSUME TypeOK, TypeOK', NEW a \in Agent, AgentOK(a), UNCHANGED <<file, mMapReqSvr, loading>>,
         chan'[a] = chan[a], at'[a] = at[a], held'[a] = held[a],
         Connected(a)' => Connected(a) /\ (req'[a] # "init" => req[a] # "init"),
         owed'[a] = owed[a]
  PROVE  AgentOK(a)'
  <1>1. Ver' = Ver /\ Mem' = Mem /\ Moving' = Moving
    BY DEF Ver, Version, Mem, Moving
  <1>2. Ver \in [Svr -> Nat] /\ Mem \in [Svr -> Nat]
    BY Shape
  <1>3. HeldOK(held[a], at[a], file')
    BY DEF AgentOK
  <1>4. \A s \in Svr : Ver[s] <= Ver'[s] /\ Mem[s] <= Mem'[s]
    BY <1>1, <1>2
  <1> QED
    BY <1>1, <1>3, <1>4, QuietAgent

\* An edit of the file.
LEMMA EditAgent ==
  ASSUME IInv, TypeOK', NEW s \in Svr, NEW w \in Weight, Edit(s, w), NEW a \in Agent
  PROVE  AgentOK(a)'
  <1>1. TypeOK /\ AgentOK(a)
    BY DEF IInv
  <1>2. UNCHANGED <<mMapReqSvr, loading, mTaskPool, chan, req, link, held, at, owed>>
    BY DEF Edit, workerVars, agentVars
  <1>3. Mem' = Mem /\ Moving' = Moving /\ (Connected(a)' <=> Connected(a))
    BY <1>2 DEF Mem, Moving, Connected
  <1>4. \A x \in Svr : Ver[x] <= Ver'[x]
    <2>1. \A x \in Svr : Ver[x] = Version(x) /\ Ver'[x] = Version(x)'
      BY DEF Ver
    <2>2. \A x \in Svr : Version(x) \in Nat /\ Version(x)' \in {Version(x), Version(x) + 1}
      BY <1>1, EditFile, Shape
    <2> QED
      BY <2>1, <2>2
  <1>5. \A x \in Svr : at[a][x] \in Nat /\ at[a][x] <= Version(x) /\ Version(x) \in Nat
    BY <1>1, Shape, SyncAssumption DEF AgentOK, UpTo, Applied
  <1>6. HeldOK(held[a], at[a], file')
    <2>1. \A x \in Svr : at[a][x] > 0 => file'[x][at[a][x]] = file[x][at[a][x]]
      BY <1>1, <1>5, EditFile
    <2> QED
      BY <1>1, <2>1 DEF AgentOK, HeldOK
  <1>7. Mem \in [Svr -> Nat]
    BY <1>1, Shape
  <1> QED
    BY <1>1, <1>2, <1>3, <1>4, <1>6, <1>7, QuietAgent

\* A load: memory gets the last edits, and the Svrs it moves are on their way.
LEMMA LoadAgent ==
  ASSUME IInv, TypeOK', CheckModSvr \/ \E b \in Agent : ReloadSvrReq(b), NEW a \in Agent
  PROVE  AgentOK(a)'
  <1>1. TypeOK /\ MemoryOK /\ AgentOK(a)
    BY DEF IInv
  <1>2. /\ UNCHANGED <<file, mTaskPool, chan, link, held, at, owed>>
        /\ req[a] # req'[a] => req[a] = "reload"
        /\ loading = NotLoading
    BY <1>1 DEF CheckModSvr, ReloadSvrReq, fileVars, agentVars, TypeOK
  <1>3. (Connected(a)' <=> Connected(a)) /\ Ver' = Ver /\ Moving = {}
        /\ Moving' = Moved(mMapReqSvr, mMapReqSvr')
    BY <1>2, LoadMap DEF Connected, Ver, Version, Moving
  <1>4. \A s \in Svr : /\ Ver[s] \in Nat /\ Mem[s] \in Nat
                       /\ Mem'[s] = IF s \in Listed THEN Version(s) ELSE 0
    BY <1>1, LoadMap, Shape DEF Mem
  <1>5. \A s \in Svr : Mem[s] <= Mem'[s]
    BY <1>1, <1>4, LoadMap, Shape DEF MemoryOK
  <1>6. ASSUME NEW s \in Svr, s \notin Moving'
        PROVE  Mem'[s] = Mem[s]
    <2>1. CASE s \in Listed
      <3>1. s \in DOMAIN mMapReqSvr /\ mMapReqSvr[s].edit = mMapReqSvr'[s].edit
        BY <1>3, <1>6, <2>1, LoadMap DEF Moved
      <3> QED
        BY <3>1, <2>1, <1>4, LoadMap DEF Mem
    <2>2. CASE s \notin Listed
      BY <2>2, <1>1, <1>4, LoadMap, Shape
    <2> QED
      BY <2>1, <2>2
  <1>7. HeldOK(held[a], at[a], file')
    BY <1>1, <1>2 DEF AgentOK
  <1>8. \A s \in Svr : Ver[s] <= Ver'[s]
    BY <1>3, <1>4
  <1> QED
    BY <1>1, <1>2, <1>3, <1>5, <1>6, <1>7, <1>8, QuietAgent

\* Memory is not ahead of the file.
LEMMA MemBelowFile ==
  ASSUME IInv
  PROVE  \A s \in Svr : Mem[s] <= Ver[s] /\ Mem[s] \in Nat
  <1>1. TypeOK /\ MemoryOK
    BY DEF IInv
  <1>2. \A s \in Svr : Mem[s] \in Nat /\ Ver[s] \in Nat /\ Ver[s] = Version(s)
    BY <1>1, Shape
  <1>3. \A s \in DOMAIN mMapReqSvr : Mem[s] <= Ver[s]
    BY <1>1, <1>2, Shape DEF MemoryOK
  <1>4. \A s \in Svr \ DOMAIN mMapReqSvr : Mem[s] = 0
    BY <1>1, Shape
  <1> QED
    BY <1>2, <1>3, <1>4

\* A connection is lost with the end of what was on its way.
LEMMA LostAgent ==
  ASSUME TypeOK, NEW a \in Agent, AgentOK(a), file' = file, at'[a] = at[a], held'[a] = held[a],
         ~Connected(a)',
         chan'[a] = <<>> \/ \E n \in 0 .. Len(chan[a]) : chan'[a] = SubSeq(chan[a], 1, n)
  PROVE  AgentOK(a)'
  <1>1. chan[a] \in Queue /\ at[a] \in Applied /\ Ver \in [Svr -> Nat]
    BY Shape
  <1>2. Ver' = Ver
    BY DEF Ver, Version
  <1>3. /\ UpTo(chan[a], at[a], Ver) /\ Monotone(chan[a], at[a]) /\ Total(chan[a], at[a])
        /\ HeldOK(held[a], at[a], file) /\ \A s \in Svr : at[a][s] <= Ver[s]
    BY DEF AgentOK, UpTo
  <1>4. UpTo(chan'[a], at[a], Ver) /\ Monotone(chan'[a], at[a]) /\ Total(chan'[a], at[a])
    <2>1. CASE chan'[a] = <<>>
      BY <2>1, <1>1, <1>3, EmptyQueue
    <2>2. ASSUME NEW n \in 0 .. Len(chan[a]), chan'[a] = SubSeq(chan[a], 1, n)
          PROVE  UpTo(chan'[a], at[a], Ver) /\ Monotone(chan'[a], at[a]) /\ Total(chan'[a], at[a])
      BY <2>2, <1>1, <1>3, PrefixQueue
    <2> QED
      BY <2>1, <2>2
  <1> QED
    BY <1>2, <1>3, <1>4, AgentNext

\* A message is sent that says what memory says of its Svrs.
LEMMA SentAgent ==
  ASSUME IInv, NEW a \in Agent, Connected(a), UNCHANGED <<file, mMapReqSvr>>,
         NEW msg \in Message, chan'[a] = Append(chan[a], msg),
         at'[a] = at[a], held'[a] = held[a],
         \A s \in DOMAIN msg.svrs : msg.svrs[s] = Mem[s],
         msg.type = "reload" => \A s \in Svr : Mem[s] > 0 => s \in DOMAIN msg.svrs,
         req'[a] # "init" => \A s \in Svr \ (owed'[a] \cup Moving') :
           s \in DOMAIN msg.svrs \/ Reached(chan[a], at[a], s, Mem[s])
  PROVE  AgentOK(a)'
  <1>1. TypeOK /\ AgentOK(a)
    BY DEF IInv
  <1>2. /\ chan[a] \in Queue /\ at[a] \in Applied
        /\ Ver \in [Svr -> Nat] /\ Mem \in [Svr -> Nat]
    BY <1>1, Shape
  <1>3. Ver' = Ver /\ Mem' = Mem
    BY DEF Ver, Version, Mem
  <1>4. /\ UpTo(chan[a], at[a], Mem) /\ Monotone(chan[a], at[a]) /\ Total(chan[a], at[a])
        /\ HeldOK(held[a], at[a], file)
    BY <1>1 DEF AgentOK
  <1>5. /\ chan'[a] \in Queue /\ UpTo(chan'[a], at[a], Mem)
        /\ Monotone(chan'[a], at[a]) /\ Total(chan'[a], at[a])
        /\ \A s \in Svr : Reached(chan[a], at[a], s, Mem[s]) => Reached(chan'[a], at[a], s, Mem[s])
        /\ \A s \in DOMAIN msg.svrs : Reached(chan'[a], at[a], s, Mem[s])
    BY <1>2, <1>4, AppendQueue
  <1>6. UpTo(chan'[a], at[a], Ver)
    BY <1>2, <1>5, MemBelowFile, RaiseTop
  <1>7. req'[a] # "init" =>
          \A s \in Svr \ (owed'[a] \cup Moving') : Reached(chan'[a], at[a], s, Mem[s])
    BY <1>5
  <1> QED
    BY <1>3, <1>4, <1>5, <1>6, <1>7, AgentNext

\* The rest of a load.
LEMMA SetModTimeAgent ==
  ASSUME IInv, TypeOK', SetModTime, NEW a \in Agent
  PROVE  AgentOK(a)'
  <1>1. TypeOK /\ AgentOK(a) /\ PendingOK
    BY DEF IInv
  <1>2. /\ UNCHANGED <<file, mMapReqSvr, mTaskPool, req, link, held, at>>
        /\ loading # NotLoading /\ loading' = NotLoading /\ Moving' = {} /\ Moving = loading.moved
    BY DEF SetModTime, agentVars, Moving
  <1>3. /\ loading.moved \subseteq DOMAIN loading.svrs
        /\ DOMAIN loading.svrs \subseteq DOMAIN mMapReqSvr
        /\ \A s \in DOMAIN loading.svrs : loading.svrs[s] = mMapReqSvr[s].edit
        /\ loading.type = "reload" => DOMAIN loading.svrs = DOMAIN mMapReqSvr
        /\ loading.type = "start" => mTaskPool = {}
    BY <1>1, <1>2 DEF PendingOK
  <1>4. loading \in Load /\ loading.type \in {"start", "reload", "sync"}
    BY <1>1, <1>2 DEF TypeOK, Load
  <1>5. Ver' = Ver /\ Mem' = Mem /\ (Connected(a)' <=> Connected(a))
    BY <1>2 DEF Ver, Version, Mem, Connected
  <1>6. /\ \A s \in Svr : Ver[s] <= Ver'[s] /\ Mem[s] <= Mem'[s]
        /\ HeldOK(held[a], at[a], file')
    <2>1. Ver \in [Svr -> Nat] /\ Mem \in [Svr -> Nat]
      BY <1>1, Shape
    <2> QED
      BY <2>1, <1>1, <1>2, <1>5 DEF AgentOK
  <1>7. CASE UNCHANGED <<chan, owed>> /\ (Connected(a) => loading.moved = {})
    BY <1>1, <1>2, <1>5, <1>6, <1>7, QuietAgent
  <1>8. CASE /\ loading.type # "start"
             /\ Send(loading.to, [type |-> loading.type, svrs |-> loading.svrs],
                     [b \in Agent |-> loading.moved])
    <2> DEFINE msg == [type |-> loading.type, svrs |-> loading.svrs]
               due == [b \in Agent |-> loading.moved]
    <2>1. msg \in Message /\ msg.type = loading.type /\ msg.svrs = loading.svrs
      BY <1>1, <1>2, <1>8, PendingMessage
    <2>2. due \in [Agent -> SUBSET Svr] /\ due[a] = loading.moved
      BY <1>4 DEF Load
    <2>3. Send(loading.to, msg, due)
      BY <1>8
    <2> HIDE DEF msg, due
    <2>4. PICK sent \in SUBSET (loading.to \cap mTaskPool) : SentTo(sent, msg, due)
      BY <1>1, <2>1, <2>2, <2>3, SendParts
    <2>5. CASE a \in sent /\ link[a] = "up"
      <3>1. Connected(a) /\ chan'[a] = Append(chan[a], msg) /\ owed'[a] = owed[a] \ DOMAIN msg.svrs
        BY <2>4, <2>5 DEF Connected, SentTo
      <3>2. \A s \in DOMAIN msg.svrs : msg.svrs[s] = Mem[s]
        BY <1>1, <1>3, <2>1, Shape
      <3>3. msg.type = "reload" => \A s \in Svr : Mem[s] > 0 => s \in DOMAIN msg.svrs
        BY <1>1, <1>3, <2>1, Shape
      <3>4. req'[a] # "init" => \A s \in Svr \ (owed'[a] \cup Moving') :
              s \in DOMAIN msg.svrs \/ Reached(chan[a], at[a], s, Mem[s])
        BY <3>1, <1>1, <1>2, <1>3, <2>1 DEF AgentOK
      <3> QED
        BY <1>2, <2>1, <3>1, <3>2, <3>3, <3>4, SentAgent
    <2>6. CASE ~(a \in sent /\ link[a] = "up")
      <3>1. chan'[a] = chan[a]
        BY <2>4, <2>6 DEF SentTo
      <3>2. Connected(a)' => owed'[a] = owed[a] \cup loading.moved
        BY <1>5, <2>2, <2>4, <2>6 DEF Connected, SentTo
      <3> QED
        BY <1>1, <1>2, <1>5, <1>6, <3>1, <3>2, QuietAgent
    <2> QED
      BY <2>5, <2>6
  <1>9. CASE UNCHANGED <<chan, owed>> /\ loading.type = "start"
    BY <1>3, <1>7, <1>9 DEF Connected
  <1>10. CASE UNCHANGED <<chan, owed>> /\ loading.svrs = EmptyMap
    BY <1>3, <1>7, <1>10, EmptyMapType
  <1> QED
    BY <1>4, <1>8, <1>9, <1>10 DEF SetModTime

\* The answer to an INIT request.
LEMMA InitSvrReqAgent ==
  ASSUME IInv, TypeOK', NEW b \in Agent, InitSvrReq(b), NEW a \in Agent
  PROVE  AgentOK(a)'
  <1>1. TypeOK /\ AgentOK(a)
    BY DEF IInv
  <1> DEFINE all == [s \in DOMAIN mMapReqSvr |-> mMapReqSvr[s].edit]
             msg == [type |-> "init", svrs |-> all]
             due == [c \in Agent |-> IF c = b THEN DOMAIN all ELSE {}]
  <1>2. /\ UNCHANGED <<file, mMapReqSvr, loading, mTaskPool, link, held, at>>
        /\ b \in mTaskPool /\ req' = [req EXCEPT ![b] = "none"]
        /\ loading = NotLoading /\ Moving = {} /\ Moving' = {}
        /\ Send({b}, msg, due)
    BY DEF InitSvrReq, fileVars, workerVars, agentVars, Moving
  <1>3. /\ msg \in Message /\ msg.type = "init" /\ DOMAIN msg.svrs = DOMAIN mMapReqSvr
        /\ \A s \in DOMAIN msg.svrs : msg.svrs[s] = Mem[s]
    BY <1>1, InitMessage
  <1>4. /\ due \in [Agent -> SUBSET Svr] /\ due[b] = DOMAIN mMapReqSvr
        /\ \A c \in Agent : c # b => due[c] = {}
    BY <1>1, Shape
  <1> HIDE DEF msg, due
  <1>5. PICK sent \in SUBSET ({b} \cap mTaskPool) : SentTo(sent, msg, due)
    BY <1>1, <1>2, <1>3, <1>4, SendParts
  <1>6. Ver' = Ver /\ Mem' = Mem /\ (Connected(a)' <=> Connected(a))
    BY <1>2 DEF Ver, Version, Mem, Connected
  <1>7. CASE a # b
    <2>1. chan'[a] = chan[a] /\ (a \in mTaskPool => owed'[a] = owed[a]) /\ req'[a] = req[a]
      <3>1. a \notin sent /\ due[a] = {}
        BY <1>4, <1>7
      <3>2. owed[a] \in SUBSET Svr /\ req \in [Agent -> {"none", "init", "reload"}]
        BY <1>1 DEF TypeOK
      <3> QED
        BY <1>2, <1>5, <1>7, <3>1, <3>2 DEF SentTo
    <2>2. a \notin mTaskPool => owed'[a] = owed[a]
      BY <1>5 DEF SentTo
    <2> QED
      BY <1>1, <1>2, <1>6, <2>1, <2>2, OtherAgent
  <1>8. CASE a = b
    <2>1. Connected(a) => \A s \in Svr \ DOMAIN msg.svrs : Reached(chan[a], at[a], s, Mem[s])
      <3> SUFFICES ASSUME Connected(a), NEW s \in Svr, s \notin DOMAIN mMapReqSvr
                   PROVE  at[a][s] = Mem[s]
        BY <1>3 DEF Reached
      <3>1. Mem[s] = 0 /\ at[a][s] <= Mem[s]
        BY <1>1, Shape DEF AgentOK, UpTo
      <3>2. at[a][s] \in Nat
        BY <1>1, Shape, SyncAssumption DEF Applied
      <3> QED
        BY <3>1, <3>2
    <2>2. CASE a \in sent /\ link[a] = "up"
      <3>1. Connected(a) /\ chan'[a] = Append(chan[a], msg)
        BY <1>2, <1>5, <1>8, <2>2 DEF Connected, SentTo
      <3> QED
        BY <1>2, <1>3, <2>1, <3>1, SentAgent
    <2>3. CASE ~(a \in sent /\ link[a] = "up")
      <3>1. chan'[a] = chan[a]
        BY <1>5, <2>3 DEF SentTo
      <3>2. Connected(a) => owed'[a] = owed[a] \cup DOMAIN msg.svrs
        BY <1>3, <1>4, <1>5, <1>8, <2>3 DEF Connected, SentTo
      <3>3. Connected(a)' => \A s \in Svr \ (owed'[a] \cup Moving') :
                               Reached(chan'[a], at'[a], s, Mem'[s])
        BY <1>2, <1>6, <2>1, <3>1, <3>2
      <3> QED
        BY <1>1, <1>2, <1>6, <3>1, <3>3, AgentNext DEF AgentOK
    <2> QED
      BY <2>2, <2>3
  <1> QED
    BY <1>7, <1>8

\* What an agent holds after a message.
LEMMA HeldAfter ==
  ASSUME NEW q \in Queue, NEW t \in Applied, q # <<>>, Total(q, t), NEW h, NEW f, HeldOK(h, t, f)
  PROVE  LET S == DOMAIN Head(q).svrs
             u == After(t, Head(q))
             zero == {s \in S : f[s][Head(q).svrs[s]] = 0}
         IN  /\ HeldOK(h \cup S, u, f)
             /\ S = {} => HeldOK(h, u, f)
             /\ Head(q).type = "reload" => HeldOK(S, u, f)
             /\ HeldOK((h \cup S) \ zero, u, f)
  <1> DEFINE msg == Head(q)
             S == DOMAIN msg.svrs
             u == After(t, msg)
             zero == {s \in S : f[s][msg.svrs[s]] = 0}
  <1>1. 1 \in 1 .. Len(q) /\ msg = q[1]
    BY HeadTailProperties DEF Queue
  <1>2. S \subseteq Svr /\ \A s \in S : msg.svrs[s] \in Nat /\ msg.svrs[s] > 0
    BY <1>1, Queued
  <1>3. \A s \in Svr : t[s] \in Nat
    BY SyncAssumption DEF Applied
  <1>4. \A s \in Svr : u[s] = IF s \in S THEN msg.svrs[s] ELSE t[s]
    BY DEF After
  <1>5. msg.type = "reload" => \A s \in Svr : t[s] > 0 => s \in S
    BY <1>1 DEF Total
  <1> HIDE DEF msg, u
  <1>6. HeldOK(h \cup S, u, f) /\ (S = {} => HeldOK(h, u, f))
    BY <1>2, <1>3, <1>4 DEF HeldOK
  <1>7. msg.type = "reload" => HeldOK(S, u, f)
    BY <1>2, <1>3, <1>4, <1>5 DEF HeldOK
  <1>8. HeldOK((h \cup S) \ zero, u, f)
    BY <1>2, <1>3, <1>4 DEF HeldOK
  <1> QED
    BY <1>6, <1>7, <1>8 DEF msg, u

\* A message is delivered.
LEMMA Delivered ==
  ASSUME TypeOK, NEW a \in Agent, Deliver(a)
  PROVE  /\ chan[a] \in Queue /\ at[a] \in Applied /\ chan[a] # <<>>
         /\ chan'[a] = Tail(chan[a]) /\ at'[a] = After(at[a], Head(chan[a]))
         /\ \A b \in Agent : b # a => /\ chan'[b] = chan[b] /\ at'[b] = at[b]
                                      /\ held'[b] = held[b]
         /\ UNCHANGED <<file, mMapReqSvr, loading, mTaskPool, req, link, owed>>
  <1>1. PICK type : Receive(a, type)
    BY DEF Deliver, InitSvrRes, ReloadSvrRes, SyncSvrRes
  <1>2. chan \in [Agent -> Seq(Message)] /\ at \in [Agent -> [Svr -> 0 .. MaxEdits]]
        /\ held \in [Agent -> SUBSET Listed]
    BY DEF TypeOK
  <1>3. chan[a] \in Queue /\ at[a] \in Applied
    BY <1>2 DEF Queue, Applied
  <1>4. \A b \in Agent : b # a => held'[b] = held[b]
    BY <1>2 DEF Deliver, InitSvrRes, ReloadSvrRes, SyncSvrRes
  <1> QED
    BY <1>1, <1>2, <1>3, <1>4 DEF Receive, After, fileVars, workerVars

\* What follows for the agent, and for the others.
LEMMA DeliverAgent ==
  ASSUME IInv, TypeOK', NEW b \in Agent, Deliver(b), NEW a \in Agent
  PROVE  AgentOK(a)'
  <1>1. TypeOK /\ AgentOK(a)
    BY DEF IInv
  <1>2. UNCHANGED <<file, mMapReqSvr, loading, mTaskPool, req, link, owed>>
    BY <1>1, Delivered
  <1>3. Ver' = Ver /\ Mem' = Mem /\ Moving' = Moving /\ (Connected(a)' <=> Connected(a))
    BY <1>2 DEF Ver, Version, Mem, Moving, Connected
  <1>4. CASE a # b
    BY <1>1, <1>2, <1>3, <1>4, Delivered, OtherAgent
  <1>5. CASE a = b
    <2>1. /\ chan[a] \in Queue /\ at[a] \in Applied /\ chan[a] # <<>>
          /\ chan'[a] = Tail(chan[a]) /\ at'[a] = After(at[a], Head(chan[a]))
      BY <1>1, <1>5, Delivered
    <2>2. /\ UpTo(chan[a], at[a], Ver) /\ Monotone(chan[a], at[a]) /\ Total(chan[a], at[a])
          /\ HeldOK(held[a], at[a], file)
      BY <1>1 DEF AgentOK
    <2>3. Ver \in [Svr -> Nat] /\ Mem \in [Svr -> Nat]
      BY <1>1, Shape
    <2>4. /\ Monotone(chan'[a], at'[a]) /\ Total(chan'[a], at'[a])
          /\ UpTo(chan'[a], at'[a], Ver)
          /\ UpTo(chan[a], at[a], Mem) => UpTo(chan'[a], at'[a], Mem)
          /\ \A s \in Svr : UpTo(chan[a], at[a], Mem) /\ Reached(chan[a], at[a], s, Mem[s])
                              => Reached(chan'[a], at'[a], s, Mem[s])
      BY <2>1, <2>2, <2>3, DeliverQueue
    <2>5. HeldOK(held'[a], at'[a], file)
      <3> DEFINE S == DOMAIN Head(chan[a]).svrs
                 u == After(at[a], Head(chan[a]))
      <3>1. /\ HeldOK(held[a] \cup S, u, file)
            /\ S = {} => HeldOK(held[a], u, file)
            /\ Head(chan[a]).type = "reload" => HeldOK(S, u, file)
            /\ HeldOK((held[a] \cup S) \ {s \in S : file[s][Head(chan[a]).svrs[s]] = 0}, u, file)
        BY <2>1, <2>2, HeldAfter
      <3>2. held \in [Agent -> SUBSET Listed]
        BY <1>1 DEF TypeOK
      <3> HIDE DEF u
      <3>3. CASE InitSvrRes(a)
        <4>1. held'[a] = held[a] \cup S
          BY <3>2, <3>3 DEF InitSvrRes
        <4> QED
          BY <4>1, <3>1, <2>1 DEF u
      <3>4. CASE ReloadSvrRes(a)
        <4>1. /\ Head(chan[a]).type = "reload"
              /\ held'[a] = IF Head(chan[a]).svrs = EmptyMap THEN held[a] ELSE S
          BY <3>2, <3>4 DEF ReloadSvrRes, Receive
        <4> QED
          BY <4>1, <3>1, <2>1, EmptyMapType DEF u
      <3>5. CASE SyncSvrRes(a)
        <4>1. held'[a] = (held[a] \cup S) \ {s \in S : file[s][Head(chan[a]).svrs[s]] = 0}
          BY <3>2, <3>5 DEF SyncSvrRes, Zero
        <4> QED
          BY <4>1, <3>1, <2>1 DEF u
      <3> QED
        BY <1>5, <3>3, <3>4, <3>5 DEF Deliver
    <2>6. Connected(a)' => UpTo(chan'[a], at'[a], Mem')
      BY <1>1, <1>3, <2>4 DEF AgentOK
    <2>7. Connected(a)' /\ req'[a] # "init" =>
            \A s \in Svr \ (owed'[a] \cup Moving') : Reached(chan'[a], at'[a], s, Mem'[s])
      BY <1>1, <1>2, <1>3, <2>4 DEF AgentOK
    <2> QED
      BY <1>2, <1>3, <2>4, <2>5, <2>6, <2>7, AgentNext
  <1> QED
    BY <1>4, <1>5

\* An agent that starts has nothing, and asks for everything.
LEMMA StartAgent ==
  ASSUME IInv, TypeOK', NEW b \in Agent, Start(b), NEW a \in Agent
  PROVE  AgentOK(a)'
  <1>1. TypeOK /\ AgentOK(a)
    BY DEF IInv
  <1>2. /\ UNCHANGED <<file, mMapReqSvr, loading>> /\ mTaskPool' = mTaskPool \cup {b}
        /\ link' = [link EXCEPT ![b] = "up"] /\ held' = [held EXCEPT ![b] = {}]
        /\ at' = [at EXCEPT ![b] = [s \in Svr |-> 0]] /\ chan' = [chan EXCEPT ![b] = <<>>]
        /\ req' = [req EXCEPT ![b] = "init"] /\ owed' = [owed EXCEPT ![b] = {}]
    BY DEF Start, fileVars, workerVars
  <1>3. CASE a # b
    <2>1. /\ chan'[a] = chan[a] /\ at'[a] = at[a] /\ held'[a] = held[a] /\ req'[a] = req[a]
          /\ owed'[a] = owed[a] /\ link'[a] = link[a]
      BY <1>1, <1>2, <1>3 DEF TypeOK
    <2>2. Connected(a)' <=> Connected(a)
      BY <1>2, <1>3, <2>1 DEF Connected
    <2> QED
      BY <1>1, <1>2, <2>1, <2>2, OtherAgent
  <1>4. CASE a = b
    <2>1. chan'[a] = <<>> /\ at'[a] = [s \in Svr |-> 0] /\ held'[a] = {} /\ req'[a] = "init"
      BY <1>1, <1>2, <1>4 DEF TypeOK
    <2>2. Ver' \in [Svr -> Nat] /\ Mem' \in [Svr -> Nat]
      BY BoundsNext
    <2>3. at'[a] \in Applied /\ \A s \in Svr : at'[a][s] = 0
      BY <2>1, SyncAssumption DEF Applied
    <2>4. /\ UpTo(chan'[a], at'[a], Ver') /\ UpTo(chan'[a], at'[a], Mem')
          /\ Monotone(chan'[a], at'[a]) /\ Total(chan'[a], at'[a])
      <3>1. \A s \in Svr : at'[a][s] <= Ver'[s] /\ at'[a][s] <= Mem'[s]
        BY <2>2, <2>3
      <3> QED
        BY <2>1, <2>2, <2>3, <3>1, EmptyQueue
    <2>5. HeldOK(held'[a], at'[a], file')
      BY <2>1, <2>3 DEF HeldOK
    <2> QED
      BY <2>1, <2>4, <2>5, AgentNext
  <1> QED
    BY <1>3, <1>4

\* Every agent, after every step.
LEMMA AgentStep ==
  ASSUME IInv, TypeOK', [Next]_vars, NEW a \in Agent
  PROVE  AgentOK(a)'
  <1>1. TypeOK /\ AgentOK(a)
    BY DEF IInv
  <1>2. ASSUME NEW s \in Svr, NEW w \in Weight, Edit(s, w)
        PROVE  AgentOK(a)'
    BY <1>2, EditAgent
  <1>3. CASE Tick
    <2>1. /\ UNCHANGED <<file, mMapReqSvr, loading, mTaskPool, chan, req, link, held, at, owed>>
          /\ (Connected(a)' <=> Connected(a))
      BY <1>3 DEF Tick, workerVars, agentVars, Connected
    <2> QED
      BY <1>1, <2>1, OtherAgent
  <1>4. CASE CheckModSvr \/ \E b \in Agent : ReloadSvrReq(b)
    BY <1>4, LoadAgent
  <1>5. CASE SetModTime
    BY <1>5, SetModTimeAgent
  <1>6. CASE RespawnWorker
    <2>1. /\ UNCHANGED <<file, held, at>> /\ mTaskPool' = {}
          /\ \E n \in 0 .. Len(chan[a]) : chan'[a] = SubSeq(chan[a], 1, n)
      <3>1. UNCHANGED <<file, held, at>> /\ mTaskPool' = {}
        BY <1>6 DEF RespawnWorker, fileVars, agentVars
      <3>2. PICK n \in [Agent -> 0 .. BufCap + WireCap] :
              /\ \A b \in Agent : n[b] <= Len(chan[b])
              /\ chan' = [b \in Agent |-> SubSeq(chan[b], 1, n[b])]
        BY <1>6 DEF RespawnWorker
      <3>3. n[a] \in 0 .. Len(chan[a])
        <4>1. n[a] \in 0 .. BufCap + WireCap /\ n[a] <= Len(chan[a]) /\ Len(chan[a]) \in Nat
              /\ BufCap + WireCap \in Nat
          BY <1>1, <3>2, SyncAssumption DEF TypeOK
        <4> QED
          BY <4>1
      <3> QED
        BY <3>1, <3>2, <3>3
    <2>2. ~Connected(a)'
      BY <2>1 DEF Connected
    <2> QED
      BY <1>1, <2>1, <2>2, LostAgent
  <1>7. ASSUME NEW b \in Agent, InitSvrReq(b)
        PROVE  AgentOK(a)'
    BY <1>7, InitSvrReqAgent
  <1>8. ASSUME NEW b \in Agent, RemoveTaskPool(b)
        PROVE  AgentOK(a)'
    <2>1. /\ UNCHANGED <<file, mMapReqSvr, loading, link, held, at, owed>>
          /\ mTaskPool' = mTaskPool \ {b} /\ req' = [req EXCEPT ![b] = "none"]
      BY <1>8 DEF RemoveTaskPool, fileVars, workerVars, agentVars
    <2>2. PICK n \in 0 .. Len(chan[b]) : chan' = [chan EXCEPT ![b] = SubSeq(chan[b], 1, n)]
      BY <1>8 DEF RemoveTaskPool
    <2>3. CASE a # b
      <3>1. chan'[a] = chan[a] /\ req'[a] = req[a] /\ (Connected(a)' => Connected(a))
        BY <1>1, <2>1, <2>2, <2>3 DEF TypeOK, Connected
      <3> QED
        BY <1>1, <2>1, <3>1, OtherAgent
    <2>4. CASE a = b
      <3>1. chan'[a] = SubSeq(chan[a], 1, n) /\ ~Connected(a)'
        BY <1>1, <2>1, <2>2, <2>4 DEF TypeOK, Connected
      <3> QED
        BY <1>1, <2>1, <2>2, <2>4, <3>1, LostAgent
    <2> QED
      BY <2>3, <2>4
  <1>9. ASSUME NEW b \in Agent, Start(b)
        PROVE  AgentOK(a)'
    BY <1>9, StartAgent
  <1>10. ASSUME NEW b \in Agent, AskReload(b)
         PROVE  AgentOK(a)'
    <2>1. /\ UNCHANGED <<file, mMapReqSvr, loading, mTaskPool, chan, link, held, at, owed>>
          /\ (Connected(a)' <=> Connected(a))
      BY <1>10 DEF AskReload, fileVars, workerVars, agentVars, Connected
    <2>2. req'[a] # "init" => req[a] # "init"
      BY <1>1, <1>10 DEF AskReload, TypeOK
    <2> QED
      BY <1>1, <2>1, <2>2, OtherAgent
  <1>11. ASSUME NEW b \in Agent, Deliver(b)
         PROVE  AgentOK(a)'
    BY <1>11, DeliverAgent
  <1>12. ASSUME NEW b \in Agent, LoseRouter(b)
         PROVE  AgentOK(a)'
    <2>1. /\ UNCHANGED <<file, mMapReqSvr, loading, mTaskPool, held, at, owed>>
          /\ link' = [link EXCEPT ![b] = "lost"] /\ chan' = [chan EXCEPT ![b] = <<>>]
          /\ req' = [req EXCEPT ![b] = "none"]
      BY <1>12 DEF LoseRouter, fileVars, workerVars
    <2>2. CASE a # b
      <3>1. chan'[a] = chan[a] /\ req'[a] = req[a] /\ (Connected(a)' => Connected(a))
        BY <1>1, <2>1, <2>2 DEF TypeOK, Connected
      <3> QED
        BY <1>1, <2>1, <3>1, OtherAgent
    <2>3. CASE a = b
      <3>1. chan'[a] = <<>> /\ ~Connected(a)'
        BY <1>1, <2>1, <2>3 DEF TypeOK, Connected
      <3> QED
        BY <1>1, <2>1, <3>1, LostAgent
    <2> QED
      BY <2>2, <2>3
  <1>13. CASE UNCHANGED vars
    <2>1. /\ UNCHANGED <<file, mMapReqSvr, loading, mTaskPool, chan, req, link, held, at, owed>>
          /\ (Connected(a)' <=> Connected(a))
      BY <1>13 DEF vars, fileVars, workerVars, agentVars, Connected
    <2> QED
      BY <1>1, <2>1, OtherAgent
  <1> QED
    BY <1>2, <1>3, <1>4, <1>5, <1>6, <1>7, <1>8, <1>9, <1>10, <1>11, <1>12, <1>13 DEF Next

-----------------------------------------------------------------------------
(* The beginning, and the theorems.                                        *)

\* The system starts with what the worker has read and no agents.
LEMMA InitIInv == Init => IInv
  <1> SUFFICES ASSUME Init
               PROVE  IInv
    OBVIOUS
  <1> DEFINE first == {<<>>} \cup {<<w>> : w \in Weight}
  <1>1. /\ file \in [Svr -> first] /\ stamp = [modified |-> FALSE, thisSecond |-> FALSE]
        /\ image = {s \in Listed : ~Deleted(s)} /\ mMapReqSvr = GetSvrConf(NoNodes)
        /\ loading = NotLoading /\ mTaskPool = {} /\ missed = {}
        /\ chan = [a \in Agent |-> <<>>] /\ req = [a \in Agent |-> "none"]
        /\ link = [a \in Agent |-> "none"] /\ held = [a \in Agent |-> {}]
        /\ at = [a \in Agent |-> [s \in Svr |-> 0]] /\ owed = [a \in Agent |-> {}]
    BY DEF Init, NoNodes
  <1>2. \A x \in first : x \in Seq(Weight) /\ Len(x) <= 1 /\ Len(x) \in Nat /\ (x # <<>> => Len(x) = 1)
    <2>1. <<>> \in Seq(Weight) /\ Len(<<>>) = 0
      OBVIOUS
    <2>2. \A w \in Weight : <<w>> \in Seq(Weight) /\ Len(<<w>>) = 1
      OBVIOUS
    <2>3. ASSUME NEW x \in first
          PROVE  x \in Seq(Weight) /\ Len(x) <= 1 /\ Len(x) \in Nat /\ (x # <<>> => Len(x) = 1)
      <3>1. x = <<>> \/ \E w \in Weight : x = <<w>>
        OBVIOUS
      <3>2. CASE x = <<>>
        BY <2>1, <3>2
      <3>3. ASSUME NEW w \in Weight, x = <<w>>
            PROVE  x \in Seq(Weight) /\ Len(x) <= 1 /\ Len(x) \in Nat /\ (x # <<>> => Len(x) = 1)
        BY <2>2, <3>3
      <3> QED
        BY <3>1, <3>2, <3>3
    <2> QED
      BY <2>3
  <1>3. /\ file \in [Svr -> Seq(Weight)]
        /\ \A s \in Svr : Version(s) \in Nat /\ Version(s) <= MaxEdits
    BY <1>1, <1>2, SyncAssumption DEF Version
  <1> HIDE DEF first
  <1>4. \A s \in Listed : Version(s) \in 1 .. MaxEdits
    BY <1>1, <1>2, SyncAssumption DEF Version, Listed, first
  <1>5. mMapReqSvr = [s \in image |-> [ver |-> Version(s), edit |-> Version(s)]]
    <2>1. DOMAIN NoNodes \cup image = image /\ DOMAIN NoNodes = {}
      BY DEF NoNodes
    <2> QED
      BY <1>1, <2>1 DEF GetSvrConf, SaveNode
  <1>6. image \subseteq Listed /\ image \in SUBSET Svr
    BY <1>1 DEF Listed
  <1>7. /\ mMapReqSvr \in Partial(Entry) /\ DOMAIN mMapReqSvr = image
        /\ \A s \in image : mMapReqSvr[s].ver = Version(s) /\ mMapReqSvr[s].edit = Version(s)
    <2>1. \A s \in image : [ver |-> Version(s), edit |-> Version(s)] \in Entry
      BY <1>4, <1>6 DEF Entry, Edits
    <2>2. mMapReqSvr \in [image -> Entry]
      BY <1>5, <2>1
    <2> QED
      BY <1>5, <1>6, <2>2, PartialMap
  <1>8. TypeOK
    <2>1. chan \in [Agent -> Seq(Message)] /\ \A a \in Agent : Len(chan[a]) <= BufCap + WireCap
      BY <1>1, SyncAssumption
    <2>2. at \in [Agent -> [Svr -> 0 .. MaxEdits]]
      BY <1>1, SyncAssumption
    <2> QED
      BY <1>1, <1>3, <1>6, <1>7, <2>1, <2>2 DEF TypeOK
  <1>9. MemoryOK
    BY <1>3, <1>6, <1>7 DEF MemoryOK
  <1>10. LoadedOK
    BY <1>1, <1>7 DEF LoadedOK, InMemory
  <1>11. PendingOK
    BY <1>1 DEF PendingOK
  <1>12. ASSUME NEW a \in Agent
         PROVE  AgentOK(a)
    <2>1. chan[a] = <<>> /\ held[a] = {} /\ at[a] = [s \in Svr |-> 0] /\ ~Connected(a)
      BY <1>1 DEF Connected
    <2>2. at[a] \in Applied /\ \A s \in Svr : at[a][s] = 0
      BY <2>1, SyncAssumption DEF Applied
    <2>3. Ver \in [Svr -> Nat]
      BY <1>8, Shape
    <2>4. UpTo(chan[a], at[a], Ver) /\ Monotone(chan[a], at[a]) /\ Total(chan[a], at[a])
      <3>1. \A s \in Svr : at[a][s] <= Ver[s]
        BY <2>2, <2>3
      <3> QED
        BY <2>1, <2>2, <2>3, <3>1, EmptyQueue
    <2>5. HeldOK(held[a], at[a], file)
      BY <2>1, <2>2 DEF HeldOK
    <2> QED
      BY <2>1, <2>4, <2>5 DEF AgentOK
  <1> QED
    BY <1>8, <1>9, <1>10, <1>11, <1>12 DEF IInv

\* The strengthening holds for every number of agents, Svrs and edits and every
\* size of the buffers: what is applied and what is on its way is bounded by the
\* file and by the worker's memory, in the order of the edits.
THEOREM Invariance == Spec => []IInv
  <1>1. IInv /\ [Next]_vars => IInv'
    <2> SUFFICES ASSUME IInv, [Next]_vars
                 PROVE  IInv'
      OBVIOUS
    <2>1. TypeOK'
      BY TypeStep
    <2>2. \A a \in Agent : AgentOK(a)'
      BY <2>1, AgentStep
    <2>3. MemoryOK' /\ LoadedOK' /\ PendingOK'
      BY MemoryStep, LoadedStep, PendingStep
    <2> QED
      BY <2>1, <2>2, <2>3 DEF IInv
  <1> QED
    BY <1>1, InitIInv, PTL DEF Spec

\* Every state of RouterSvrd and its agents is well formed: a Svr in the worker's
\* memory, in the master's or at an agent has been in svr.xml, and no send buffer
\* takes more than it has room for.
THEOREM TypeCorrect == Spec => []TypeOK
  <1>1. IInv => TypeOK
    BY DEF IInv
  <1> QED
    BY <1>1, Invariance, PTL

\* The configuration converges: an agent to which nothing is under way holds the
\* weights of svr.xml, but for edits in the second or in the middle of a load,
\* deletions that a new worker skips, and messages that were dropped.
THEOREM AgreementCorrect == Spec => []Agreement
  <1>1. IInv => Agreement
    <2> SUFFICES ASSUME IInv, NEW a \in Agent, Settled(a), NEW s \in Svr \ (missed \cup owed[a])
                 PROVE  AgentWeight(a, s) = FileWeight(s)
      BY DEF Agreement
    <2>1. TypeOK /\ MemoryOK /\ LoadedOK /\ AgentOK(a)
      BY DEF IInv
    <2>2. /\ Connected(a) /\ req[a] # "init" /\ chan[a] = <<>>
          /\ loading = NotLoading /\ ~stamp.modified
      BY DEF Settled
    <2>3. InMemory(s) /\ Moving = {}
      BY <2>1, <2>2 DEF LoadedOK, Moving
    <2>4. at[a][s] = Mem[s]
      <3>1. Reached(chan[a], at[a], s, Mem[s])
        BY <2>1, <2>2, <2>3 DEF AgentOK
      <3>2. Mem[s] \in Nat /\ at[a] \in Applied
        BY <2>1, Shape
      <3> QED
        BY <2>2, <3>1, <3>2, EmptyQueue
    <2>5. /\ s \in held[a] => at[a][s] > 0
          /\ s \notin held[a] /\ at[a][s] > 0 => file[s][at[a][s]] = 0
      BY <2>1 DEF AgentOK, HeldOK
    <2>6. CASE s \in DOMAIN mMapReqSvr
      <3>1. Mem[s] = Version(s) /\ Mem[s] > 0
        BY <2>1, <2>3, <2>6, Shape DEF InMemory
      <3>2. s \in Listed
        BY <2>1, <2>6 DEF TypeOK
      <3> QED
        BY <2>4, <2>5, <3>1, <3>2 DEF AgentWeight, FileWeight
    <2>7. CASE s \notin DOMAIN mMapReqSvr
      <3>1. Mem[s] = 0 /\ s \notin held[a]
        BY <2>1, <2>4, <2>5, <2>7, Shape
      <3>2. s \in Listed => file[s][Version(s)] = 0
        BY <2>3, <2>7 DEF InMemory, Deleted
      <3> QED
        BY <3>1, <3>2 DEF AgentWeight, FileWeight
    <2> QED
      BY <2>6, <2>7
  <1> QED
    BY <1>1, Invariance, PTL

\* While an agent runs, no reply, broadcast or new worker takes a Svr back to the
\* weight of an earlier edit.
THEOREM NeverBackwardsCorrect == Spec => NeverBackwards
  <1> DEFINE Forward(a) == at'[a] = [s \in Svr |-> 0] \/ \A s \in Svr : at[a][s] <= at'[a][s]
  <1>1. ASSUME IInv, [Next]_vars, NEW a \in Agent
        PROVE  Forward(a)
    <2>1. TypeOK /\ AgentOK(a) /\ at[a] \in Applied
      BY <1>1, Shape DEF IInv
    <2>2. at \in [Agent -> [Svr -> 0 .. MaxEdits]]
      BY <2>1 DEF TypeOK
    <2>3. at'[a] = at[a] => Forward(a)
      BY <2>1, SyncAssumption DEF Applied
    <2>4. ASSUME NEW b \in Agent, Deliver(b)
          PROVE  Forward(a)
      <3>1. CASE a # b
        BY <2>1, <2>3, <2>4, <3>1, Delivered
      <3>2. CASE a = b
        <4>1. /\ chan[a] \in Queue /\ chan[a] # <<>> /\ Monotone(chan[a], at[a])
              /\ at'[a] = After(at[a], Head(chan[a]))
          BY <2>1, <2>4, <3>2, Delivered DEF AgentOK
        <4> QED
          BY <2>1, <4>1, DeliverQueue
      <3> QED
        BY <3>1, <3>2
    <2>5. ASSUME NEW b \in Agent, Start(b)
          PROVE  Forward(a)
      <3>1. at'[a] = [s \in Svr |-> 0] \/ at'[a] = at[a]
        BY <2>2, <2>5 DEF Start
      <3> QED
        BY <2>3, <3>1
    <2>6. \/ at' = at \/ \E b \in Agent : Deliver(b) \/ Start(b)
      BY <1>1 DEF Next, vars, agentVars, Edit, Tick, CheckModSvr, SetModTime, RespawnWorker,
                  InitSvrReq, ReloadSvrReq, RemoveTaskPool, AskReload, LoseRouter
    <2> QED
      BY <2>3, <2>4, <2>5, <2>6
  <1>2. IInv /\ [Next]_vars => [\A a \in Agent : \/ at'[a] = [s \in Svr |-> 0]
                                                 \/ \A s \in Svr : at[a][s] <= at'[a][s]]_vars
    BY <1>1
  <1> QED
    BY <1>2, Invariance, PTL DEF Spec, NeverBackwards
==============================================================================
