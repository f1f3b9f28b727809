---------------------------- MODULE DetectThread -----------------------------
(***************************************************************************)
(* The detect thread of AgentSvrd (agentserver/src/DetectThread.cpp) and   *)
(* the way RebuildErrRoute of the QoS engine calls it.                     *)
(*                                                                         *)
(* Two queues, of nodes to probe and of nodes to drop, are filled by the   *)
(* server thread under mDetectMutex and taken by the detect thread at the  *)
(* start of a pass.  Results are in a map only the detect thread changes.  *)
(* It deletes from the map under mResultMutex, under which GetDetectResult *)
(* reads; but it inserts and writes results without the mutex, field by    *)
(* field.  Each of these is an action, and so is a stretch under a mutex.  *)
(*                                                                         *)
(* The times of a node (mNextDetectTime, mExpireTime) are only compared    *)
(* with mNowTm, which is read once in a pass: due and expired say whether  *)
(* they had passed by then.                                                *)
(***************************************************************************)
EXTENDS Naturals, FiniteSets

CONSTANTS
  Host,             \* hosts and ports
  mDetectMaxNode    \* size at which the map is cleared

ASSUME DetectAssumption == IsFiniteSet(Host) /\ mDetectMaxNode \in Nat \ {0}

VARIABLES
  mDetectMapAll,      \* the nodes being probed, with their results
  mDetectMapNewadd,   \* the queue of nodes to probe
  mDetectMapNewdel,   \* the queue of nodes to drop
  thread,             \* where the detect thread is in its pass
  client              \* where the server thread is in RebuildErrRoute

vars == <<mDetectMapAll, mDetectMapNewadd, mDetectMapNewdel, thread, client>>

Found  == [rc : {"fail", "nopri"}, type : {"unknown"}] \cup [rc : {"zero"}, type : {"ping", "tcp"}]
Result == [rc : {"init", "fail", "nopri", "zero"}, type : {"unknown", "ping", "tcp"},
           done : BOOLEAN, due : BOOLEAN, expired : BOOLEAN]
Field  == {"rc", "type"}
Probe  == [node : Host, found : Found, left : (SUBSET Field) \ {{}}]
NoProbe == [left |-> {}]
Thread == [pc : {"take", "delete", "new", "all", "expire", "clear"},
           add : SUBSET Host, late : SUBSET Host, del : SUBSET Host, todo : SUBSET Host,
           expire : SUBSET Host, probe : Probe \cup {NoProbe}]
Client == [todo : SUBSET Host, add : SUBSET Host, del : SUBSET Host]
NoCall == [todo |-> {}, add |-> {}, del |-> {}]
Empty  == [h \in {} |-> {}]

\* Well-formedness.  The thread keeps an iterator and references into the map
\* while it probes: what it has still to visit and what it writes to is there.
TypeOK ==
  /\ DOMAIN mDetectMapAll \subseteq Host
  /\ mDetectMapAll \in [DOMAIN mDetectMapAll -> Result]
  /\ mDetectMapNewadd \subseteq Host /\ mDetectMapNewdel \subseteq Host
  /\ thread \in Thread
  /\ thread.todo \cup thread.expire \subseteq DOMAIN mDetectMapAll
  /\ thread.probe # NoProbe => thread.probe.node \in DOMAIN mDetectMapAll
  /\ client \in Client

Drop(f, S)   == [h \in DOMAIN f \ S |-> f[h]]
With(f, h, v) == [x \in DOMAIN f \cup {h} |-> IF x = h THEN v ELSE f[x]]

Init ==
  /\ mDetectMapAll = Empty /\ mDetectMapNewadd = {} /\ mDetectMapNewdel = {}
  /\ thread = [pc |-> "take", add |-> {}, late |-> {}, del |-> {}, todo |-> {},
               expire |-> {}, probe |-> NoProbe]
  /\ client = NoCall

-----------------------------------------------------------------------------
(* The server thread, in RebuildErrRoute.                                  *)

RebuildErrRoute ==
  /\ client = NoCall
  /\ \E S \in (SUBSET Host) \ {{}} : client' = [NoCall EXCEPT !.todo = S]
  /\ UNCHANGED <<mDetectMapAll, mDetectMapNewadd, mDetectMapNewdel, thread>>

\* What RebuildErrRoute takes a result for.
Class(r) ==
  IF ~r.done THEN "bad"
  ELSE IF r.rc = "nopri" THEN "nopri"
  ELSE IF r.rc = "zero" /\ r.type = "tcp" THEN "ok" ELSE "bad"

\* A node that is not in the map will be asked for; one that accepted a
\* connection recovers, and will be given up.
GetDetectResult(h) ==
  /\ h \in client.todo
  /\ client' = [client EXCEPT
       !.todo = @ \ {h},
       !.add  = IF h \notin DOMAIN mDetectMapAll THEN @ \cup {h} ELSE @,
       !.del  = IF h \in DOMAIN mDetectMapAll /\ Class(mDetectMapAll[h]) = "ok"
                THEN @ \cup {h} ELSE @]
  /\ UNCHANGED <<mDetectMapAll, mDetectMapNewadd, mDetectMapNewdel, thread>>

\* Mutants: the queue of nodes to drop is not looked at; to take a node out of
\* it is thought to be enough.
AddDetectOnly ==
  /\ client.todo = {} /\ client.add # {}
  /\ mDetectMapNewadd' = mDetectMapNewadd \cup client.add
  /\ client' = [client EXCEPT !.add = {}]
  /\ UNCHANGED <<mDetectMapAll, mDetectMapNewdel, thread>>
AddDetectOrKeep ==
  /\ client.todo = {} /\ client.add # {}
  /\ mDetectMapNewdel' = mDetectMapNewdel \ client.add
  /\ mDetectMapNewadd' = mDetectMapNewadd \cup (client.add \ mDetectMapNewdel)
  /\ client' = [client EXCEPT !.add = {}]
  /\ UNCHANGED <<mDetectMapAll, thread>>

AddDetect ==
  /\ client.todo = {} /\ client.add # {}
  /\ mDetectMapNewdel' = mDetectMapNewdel \ client.add
  /\ mDetectMapNewadd' = mDetectMapNewadd \cup client.add
  /\ client' = [client EXCEPT !.add = {}]
  /\ UNCHANGED <<mDetectMapAll, thread>>

\* Mutant: the nodes are deleted at once.
DelDetectAtOnce ==
  /\ client.todo = {} /\ client.add = {} /\ client.del # {}
  /\ mDetectMapNewadd' = mDetectMapNewadd \ client.del
  /\ mDetectMapAll' = Drop(mDetectMapAll, client.del)
  /\ client' = [client EXCEPT !.del = {}]
  /\ UNCHANGED <<mDetectMapNewdel, thread>>

DelDetect ==
  /\ client.todo = {} /\ client.add = {} /\ client.del # {}
  /\ mDetectMapNewadd' = mDetectMapNewadd \ client.del
  /\ mDetectMapNewdel' = mDetectMapNewdel \cup client.del
  /\ client' = [client EXCEPT !.del = {}]
  /\ UNCHANGED <<mDetectMapAll, thread>>

-----------------------------------------------------------------------------
(* The detect thread: one pass of Run.                                     *)

\* The map when the times of some of its nodes have passed.
Passed(f, due, expired) ==
  [h \in DOMAIN f |-> [f[h] EXCEPT !.due = @ \/ h \in due, !.expired = @ \/ h \in expired]]

\* With nothing to probe the queue of nodes to drop is emptied and the thread
\* waits; else it takes both queues and reads the time.  Any time of a node may
\* have passed by then, the expiry of one still in the queue included.
TakeQueues ==
  /\ thread.pc = "take"
  /\ mDetectMapNewdel' = {}
  /\ IF mDetectMapNewadd = {} /\ mDetectMapAll = Empty
     THEN UNCHANGED <<mDetectMapAll, mDetectMapNewadd, thread>>
     ELSE \E due \in SUBSET DOMAIN mDetectMapAll, expired \in SUBSET DOMAIN mDetectMapAll,
               late \in SUBSET mDetectMapNewadd :
            /\ mDetectMapNewadd' = {}
            /\ mDetectMapAll' = Passed(mDetectMapAll, due, expired)
            /\ thread' = [thread EXCEPT !.pc = "delete", !.add = mDetectMapNewadd,
                                        !.late = late, !.del = mDetectMapNewdel]
  /\ UNCHANGED client

DeleteNodes ==
  /\ thread.pc = "delete"
  /\ mDetectMapAll' = Drop(mDetectMapAll, thread.del)
  /\ thread' = [thread EXCEPT !.pc = "new", !.del = {}]
  /\ UNCHANGED <<mDetectMapNewadd, mDetectMapNewdel, client>>

\* DoDetectNode pings and connects, and keeps what it found to itself until it
\* writes the fields of the result, in whatever order they get to memory.  (The
\* time of the probe goes with the last of them: before, mRc still has its
\* initial value, which is read like a result that is not there.)
DoDetectNode(h, found) == [node |-> h, found |-> found, left |-> Field]

\* Mutant: the time of the next probe is never thought to have come.
DueOnce(r) == ~r.done

\* A result is probed when it has none or its time for the next had come.
Due(r) == ~r.done \/ r.due

FreshResult(h) ==
  [rc |-> "init", type |-> "unknown", done |-> FALSE, due |-> FALSE, expired |-> h \in thread.late]

\* Mutant: a node of the queue is put into the map and left to the second loop.
ProbeNewLater ==
  /\ thread.pc = "new" /\ thread.probe = NoProbe
  /\ IF thread.add = {}
     THEN /\ thread' = [thread EXCEPT !.pc = "all", !.todo = DOMAIN mDetectMapAll]
          /\ UNCHANGED mDetectMapAll
     ELSE \E h \in thread.add :
            /\ mDetectMapAll' = IF h \in DOMAIN mDetectMapAll THEN mDetectMapAll
                                ELSE With(mDetectMapAll, h, FreshResult(h))
            /\ thread' = [thread EXCEPT !.add = @ \ {h}, !.late = @ \ {h}]
  /\ UNCHANGED <<mDetectMapNewadd, mDetectMapNewdel, client>>

\* The first loop, over the nodes of the queue.  One that is in the map keeps
\* its result and its old expiry.
ProbeNew ==
  /\ thread.pc = "new" /\ thread.probe = NoProbe
  /\ IF thread.add = {}
     THEN /\ thread' = [thread EXCEPT !.pc = "all", !.todo = DOMAIN mDetectMapAll]
          /\ UNCHANGED mDetectMapAll
     ELSE \E h \in thread.add, found \in Found :
            LET known == h \in DOMAIN mDetectMapAll
                r     == IF known THEN mDetectMapAll[h] ELSE FreshResult(h)
            IN  /\ mDetectMapAll' = IF known THEN mDetectMapAll ELSE With(mDetectMapAll, h, r)
                /\ thread' = [thread EXCEPT
                     !.add   = @ \ {h},
                     !.late  = @ \ {h},
                     !.probe = IF Due(r) THEN DoDetectNode(h, found) ELSE @]
  /\ UNCHANGED <<mDetectMapNewadd, mDetectMapNewdel, client>>

\* The second loop, over the whole map.
ProbeAll ==
  /\ thread.pc = "all" /\ thread.probe = NoProbe
  /\ IF thread.todo = {}
     THEN thread' = [thread EXCEPT !.pc = "expire"]
     ELSE \E h \in thread.todo, found \in Found :
            LET r == mDetectMapAll[h]
            IN  thread' = [thread EXCEPT
                  !.todo   = @ \ {h},
                  !.expire = IF r.expired THEN @ \cup {h} ELSE @,
                  !.probe  = IF ~r.expired /\ Due(r) THEN DoDetectNode(h, found) ELSE @]
  /\ UNCHANGED <<mDetectMapAll, mDetectMapNewadd, mDetectMapNewdel, client>>

\* Mutant: the type is only written when it is better than the old one.
WriteBetter(r, left, found) ==
  [r EXCEPT !.rc   = IF "rc" \in left THEN @ ELSE found.rc,
            !.type = IF "type" \in left \/ @ = "tcp" THEN @ ELSE found.type,
            !.done = IF left = {} THEN TRUE ELSE @,
            !.due  = IF left = {} THEN FALSE ELSE @]

\* A result with all fields of found but those left; HasDetect sets the times.
Write(r, left, found) ==
  [r EXCEPT !.rc   = IF "rc" \in left THEN @ ELSE found.rc,
            !.type = IF "type" \in left THEN @ ELSE found.type,
            !.done = IF left = {} THEN TRUE ELSE @,
            !.due  = IF left = {} THEN FALSE ELSE @]

WriteResult ==
  /\ \E field \in thread.probe.left :
       LET p    == thread.probe
           left == p.left \ {field}
       IN  /\ mDetectMapAll' = [mDetectMapAll EXCEPT ![p.node] = Write(@, left, p.found)]
           /\ thread' = [thread EXCEPT
                !.probe = IF left = {} THEN NoProbe ELSE [@ EXCEPT !.left = left]]
  /\ UNCHANGED <<mDetectMapNewadd, mDetectMapNewdel, client>>

DeleteExpired ==
  /\ thread.pc = "expire"
  /\ mDetectMapAll' = Drop(mDetectMapAll, thread.expire)
  /\ thread' = [thread EXCEPT !.pc = "clear", !.expire = {}]
  /\ UNCHANGED <<mDetectMapNewadd, mDetectMapNewdel, client>>

\* Mutant: the map is cleared one node too late.
Above(n) == n > mDetectMaxNode

Full(n) == n >= mDetectMaxNode

CleanAll ==
  /\ thread.pc = "clear"
  /\ mDetectMapAll' = IF Full(Cardinality(DOMAIN mDetectMapAll)) THEN Empty ELSE mDetectMapAll
  /\ thread' = [thread EXCEPT !.pc = "take"]
  /\ UNCHANGED <<mDetectMapNewadd, mDetectMapNewdel, client>>

Pass == TakeQueues \/ DeleteNodes \/ ProbeNew \/ ProbeAll \/ WriteResult
          \/ DeleteExpired \/ CleanAll

Next ==
  \/ RebuildErrRoute
  \/ \E h \in Host : GetDetectResult(h)
  \/ AddDetect
  \/ DelDetect
  \/ Pass

TakeQueuesDue(h) ==
  TakeQueues /\ (h \in DOMAIN mDetectMapAll => mDetectMapAll'[h].due)

\* The detect thread keeps running, whatever a probe takes, and time passes.
Fairness == WF_vars(Pass) /\ \A h \in Host : SF_vars(TakeQueuesDue(h))

Spec == Init /\ [][Next]_vars /\ Fairness

-----------------------------------------------------------------------------
(* Properties.                                                             *)

\* A node is never to be probed and to be dropped at once: the later of
\* AddDetect and DelDetect wins, although the pass deletes before it adds.
LaterRequestWins ==
  /\ mDetectMapNewadd \cap mDetectMapNewdel = {}
  /\ thread.add \cap thread.del = {}

\* The map is below its maximum between two passes, however many nodes the
\* queue brings; a pass adds no more nodes than it took.
Bounded ==
  thread.pc = "take" => Cardinality(DOMAIN mDetectMapAll) < mDetectMaxNode

\* A node that was asked for and not given up leaves the map, by expiry or
\* because the map is full, only with a result: expiry counts from the call of
\* AddDetect, and a long pass (a connection may take minutes) can use it up
\* before the node is first probed.
ProbedBeforeDropped ==
  [][\A h \in DOMAIN mDetectMapAll \ DOMAIN mDetectMapAll' :
       thread.pc # "delete" => mDetectMapAll[h].done]_vars

\* GetDetectResult reads while the fields of a result are written one by one.
\* A result half written never says more than a finished probe of that node:
\* an answer turns good only to what was found, and in the end it is that.
NoFalseAnswer ==
  [][\A h \in DOMAIN mDetectMapAll \cap DOMAIN mDetectMapAll' :
       LET p   == thread.probe
           new == Class(mDetectMapAll'[h])
       IN  IF p.left # {} /\ p.node = h
           THEN LET says == Class([done |-> TRUE, rc |-> p.found.rc, type |-> p.found.type])
                IN  /\ new \in {Class(mDetectMapAll[h]), "bad", says}
                    /\ thread'.probe = NoProbe => new = says
           ELSE new = Class(mDetectMapAll[h])]_vars

\* What the engine will be told about a host: a node in the queue is one
\* without a result.
Shown(h) ==
  IF h \in DOMAIN mDetectMapAll THEN Class(mDetectMapAll[h])
  ELSE IF h \in mDetectMapNewadd \cup thread.add THEN "bad" ELSE "none"

Board == INSTANCE DetectBoard WITH detect <- [h \in Host |-> Shown(h)]

\* The thread and its queues implement the board of answers that the QoS
\* engine works with: a node that was asked for is on it from then on, with a
\* result or without, until it expires, is given up or the map is cleared.
ImplementsBoard == Board!Spec

\* Liveness: a node that again and again is on the board without a good result
\* is probed again and again.  The QoS engine's recovery rests on it.
ProbedWhileWaiting ==
  \A h \in Host : []<>(Shown(h) = "bad") => []<>(thread.probe.left # {} /\ thread.probe.node = h)
==============================================================================
