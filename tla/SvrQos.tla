------------------------------- MODULE SvrQos --------------------------------
(***************************************************************************)
(* The QoS engine of AgentSvrd (agentserver/src/SvrQos.cpp): the known     *)
(* Svrs, the route table of every kind (a (gid, xid) pair), the error      *)
(* table of the Svrs taken out of it, and the operations on them.          *)
(*                                                                         *)
(* Two threads of the code share this state without a lock.  The server    *)
(* thread answers QUERY (QueryNode, then Select) and REPORT (CallerNode,   *)
(* then CallerRebuild); svc is its program counter, and each of its        *)
(* handlers is split where the code goes from rebuilding the routes to     *)
(* using them.  The router thread applies configuration (SaveNode,         *)
(* ModNode, CleanNode) and may run between any two of those steps.         *)
(*                                                                         *)
(* Times are ages (now minus the stored time), saturated just above the    *)
(* largest value they are compared with.  Loads are computed in the code   *)
(* from measured latency, success rate and weight: here a rebuild picks    *)
(* each from Loads.  Weights only enter the load, so they are left out.    *)
(***************************************************************************)
EXTENDS SvrStat, Sequences, FiniteSets

CONSTANTS
  Svr, Kind, Host,
  KindOf, HostOf,      \* functions: the kind of a Svr, its host and port
  Loads, DelayLoads,   \* loads a rebuild may compute; delay_load values
  AvgErrRates,         \* average error rates of an overloaded kind
  RebuildTm,           \* REBUILD of qos.xml
  DefaultRebuildTm,    \* the initialiser of SvrKind_t::mRebuildTm
  ProbeResults,        \* what probes can find: depends on the privilege to ping
  ProbeBegin,          \* BEGIN: seconds down before probe results count
  DownTime, DownReq,   \* DOWN_TIME, REQ_COUNT: recovery without a TCP probe
  MaxPre, MaxReports,  \* model bounds: calls of a kind, reports on a node per period
  ReqCap               \* model bound: where mReqAllAfterDown saturates

ASSUME QosAssumption ==
  /\ IsFiniteSet(Svr)
  /\ KindOf \in [Svr -> Kind]
  /\ HostOf \in [Svr -> Host]
  /\ Loads \subseteq Nat \ {0} /\ DelayLoads \subseteq Nat \ {0}
  /\ AvgErrRates \subseteq 0 .. RateUnit
  /\ ProbeResults \subseteq {"bad", "nopri", "ok"}
  /\ RebuildTm \in Nat \ {0} /\ DefaultRebuildTm \in Nat \ {0}
  /\ ProbeBegin \in Nat \ {0} /\ DownTime \in Nat \ {0} /\ DownReq \in Nat \ {0}
  /\ MaxPre \in Nat /\ MaxReports \in Nat /\ ReqCap \in Nat

VARIABLES
  known,         \* the keys of mMapReqSvr
  stat,          \* the SvrStat_t of every known Svr
  mRouteTable,   \* kind -> its route table and the attributes of the map's key
  mErrTable,     \* kind -> its Svrs that are down
  down,          \* mStopTime (as an age) and mReqAllAfterDown of those, and what
                 \* a history needs to tell a new answer from an old one
  detect,        \* what GetDetectResult answers about a host and port
  svc            \* where the server thread is

vars == <<known, stat, mRouteTable, mErrTable, down, detect, svc>>

\* found: whether a probe of the host, since the entry now in the detect
\* thread's map was added, has ended "since" the node went down; or the entry
\* was there "before", with an accepted connection.
DownSince == [age : Nat, req : Int, found : {"no", "before", "since"}]
Up        == [age |-> 0, req |-> 0, found |-> "no"]
Route     == [tab : Seq(Svr), age : Nat, period : Nat, index : Nat]
Detected  == {"none",   \* not in the detect thread's map
              "bad",    \* in it: not probed yet, ping or connect failed
              "nopri",  \* no privilege to ping
              "ok"}     \* a TCP connection was accepted
Idle      == [op |-> "idle"]
Busy      == [op : {"select", "rebuild"}, kind : Kind]

TypeOK ==
  /\ known \subseteq Svr
  /\ stat \in [Svr -> Stat]
  /\ DOMAIN mRouteTable \subseteq Kind
  /\ \A k \in DOMAIN mRouteTable : mRouteTable[k] \in Route
  /\ DOMAIN mErrTable \subseteq Kind
  /\ \A k \in DOMAIN mErrTable : mErrTable[k] \subseteq Svr
  /\ down \in [Svr -> DownSince]
  /\ detect \in [Host -> Detected]
  /\ svc \in {Idle} \cup Busy

-----------------------------------------------------------------------------
(* Maps and tables.                                                        *)

Put(f, k, v) == [x \in DOMAIN f \cup {k} |-> IF x = k THEN v ELSE f[x]]
Erase(f, k)  == [x \in DOMAIN f \ {k} |-> f[x]]

Nodes(t)     == {t[i] : i \in DOMAIN t}
Without(t, i) == [j \in 1 .. Len(t) - 1 |-> IF j < i THEN t[j] ELSE t[j + 1]]

RouteNodes(k) == IF k \in DOMAIN mRouteTable THEN Nodes(mRouteTable[k].tab) ELSE {}
ErrNodes(k)   == IF k \in DOMAIN mErrTable THEN mErrTable[k] ELSE {}

MinOf(S) == CHOOSE x \in S : \A y \in S : x <= y
Highest(S) == {x \in S : \A y \in S : x >= y}

\* The sum of F over the nodes of a table.
Total(tab, F(_)) ==
  LET sum[i \in 0 .. Len(tab)] == IF i = 0 THEN 0 ELSE sum[i - 1] + F(tab[i])
  IN  sum[Len(tab)]

\* What inserting the nodes of S into an empty multimap can leave: they are
\* ordered by Before, a strict partial order.
Tables(S, Before(_, _)) ==
  {t \in [1 .. Cardinality(S) -> S] :
     /\ Nodes(t) = S
     /\ \A i, j \in DOMAIN t : i < j => t[i] # t[j] /\ ~Before(t[j], t[i])}

Unordered(a, b) == FALSE

FreshRoute(t, period) == [tab |-> t, age |-> 0, period |-> period, index |-> 0]

-----------------------------------------------------------------------------
(* Configuration: SaveNode, ModNode, DelNode, CleanNode.                   *)

\* Mutant: a new Svr starts with statistics of its own behind the last node.
AllocFreshNode(s) ==
  LET k   == KindOf[s]
      tab == IF k \in DOMAIN mRouteTable THEN mRouteTable[k].tab ELSE <<>>
  IN  /\ known' = known \cup {s}
      /\ stat' = [stat EXCEPT ![s] = InitStat]
      /\ mRouteTable' = Put(mRouteTable, k,
                            IF k \in DOMAIN mRouteTable
                            THEN [mRouteTable[k] EXCEPT !.tab = Append(@, s)]
                            ELSE FreshRoute(<<s>>, RebuildTm))

\* A Svr not seen before gets the limit and the whole statistics of the most
\* loaded node of its kind's table, when there is one.
AllocNode(s) ==
  LET k   == KindOf[s]
      tab == IF k \in DOMAIN mRouteTable THEN mRouteTable[k].tab ELSE <<>>
  IN  /\ known' = known \cup {s}
      /\ stat' = [stat EXCEPT
                    ![s] = IF tab = <<>> THEN InitStat ELSE stat[tab[Len(tab)]]]
      /\ mRouteTable' = Put(mRouteTable, k,
                            IF k \in DOMAIN mRouteTable
                            THEN [mRouteTable[k] EXCEPT !.tab = Append(@, s)]
                            ELSE FreshRoute(<<s>>, RebuildTm))

SaveNode(s) ==
  /\ s \notin known
  /\ AllocNode(s)
  /\ UNCHANGED <<mErrTable, down, detect, svc>>

\* Mutants: the kind stays with its last entry gone, or with a table that was
\* freed; a Svr that is down is not looked for.
RouteTableKept(rt, s) ==
  LET k == KindOf[s]
  IN  IF k \notin DOMAIN rt THEN rt
      ELSE LET at == {i \in DOMAIN rt[k].tab : rt[k].tab[i] = s}
           IN  IF at = {} THEN rt ELSE [rt EXCEPT ![k].tab = Without(@, MinOf(at))]
RouteTableFreed(rt, s) ==
  IF KindOf[s] \in DOMAIN rt
  THEN [rt EXCEPT ![KindOf[s]] = IF Len(@.tab) = 1 THEN [freed |-> TRUE] ELSE @] ELSE rt
ErrTableKept(et, s) == et

\* DelRouteNode: the first table entry of s goes, and with the last entry the
\* kind; then the same in the error table.
RouteTableWithout(rt, s) ==
  LET k == KindOf[s]
  IN  IF k \notin DOMAIN rt THEN rt
      ELSE LET tab == rt[k].tab
               at  == {i \in DOMAIN tab : tab[i] = s}
           IN  IF at = {} THEN rt
               ELSE IF Len(tab) = 1 THEN Erase(rt, k)
               ELSE [rt EXCEPT ![k].tab = Without(tab, MinOf(at))]

ErrTableWithout(et, s) ==
  LET k == KindOf[s]
  IN  IF k \notin DOMAIN et THEN et
      ELSE IF et[k] = {s} THEN Erase(et, k)
      ELSE [et EXCEPT ![k] = @ \ {s}]

DelRouteNode(s) ==
  /\ mRouteTable' = RouteTableWithout(mRouteTable, s)
  /\ mErrTable' = ErrTableWithout(mErrTable, s)

\* The statistics record is freed.
DelNode(s) ==
  /\ s \in known
  /\ known' = known \ {s}
  /\ DelRouteNode(s)
  /\ stat' = [stat EXCEPT ![s] = InitStat]
  /\ down' = [down EXCEPT ![s] = Up]
  /\ UNCHANGED <<detect, svc>>

\* A weight of 0 deletes the Svr; any other is only stored, for the loads.
ModNode(s, weight) ==
  \/ weight = 0 /\ DelNode(s)
  \/ weight > 0 /\ SaveNode(s)

\* A reload deletes every known Svr the same way.
CleanNode ==
  /\ known # {}
  /\ known' = {}
  /\ mRouteTable' = [k \in {c \in DOMAIN mRouteTable :
                              ~(Nodes(mRouteTable[c].tab) \subseteq known)} |->
                       [mRouteTable[k] EXCEPT
                          !.tab = SelectSeq(@, LAMBDA s : s \notin known)]]
  /\ mErrTable' = [k \in {c \in DOMAIN mErrTable : ~(mErrTable[c] \subseteq known)} |->
                     mErrTable[k] \ known]
  /\ stat' = [s \in Svr |-> InitStat]
  /\ down' = [s \in Svr |-> Up]
  /\ UNCHANGED <<detect, svc>>

-----------------------------------------------------------------------------
(* The error table: RebuildErrRoute.                                       *)

\* Probing starts after ProbeBegin seconds; before that, and until a probe
\* succeeds, a node stays where it is.  The probe is not needed without the
\* privilege to ping.  A failed probe postpones recovery, an accepted
\* connection brings it forward.
\* Mutant: without the privilege to ping a node need not wait.
RecoversUnconditionally(s, d, allReqMin) ==
  d.age > ProbeBegin /\ detect[HostOf[s]] \in {"ok", "nopri"}

Probing(d)      == d.age > ProbeBegin
Condition(d, allReqMin) == allReqMin \/ d.age >= DownTime \/ d.req >= DownReq
Recovers(s, d, allReqMin) ==
  /\ Probing(d)
  /\ \/ detect[HostOf[s]] = "ok"
     \/ detect[HostOf[s]] = "nopri" /\ Condition(d, allReqMin)

\* Mutants: nobody asks for a probe; an entry not probed yet reads as a good one.
AddNothing(S, dn) == detect
AddDetectGood(S, dn) ==
  LET asked == {HostOf[s] : s \in {x \in S : Probing(dn[x])}}
  IN  [h \in Host |-> IF h \in asked /\ detect[h] = "none" THEN "ok" ELSE detect[h]]

\* AddDetect for the hosts nobody probes yet.  DelDetect, for those that
\* answered, only queues: DetectForget is the deletion.
AddDetect(S, dn) ==
  LET asked == {HostOf[s] : s \in {x \in S : Probing(dn[x])}}
  IN  [h \in Host |-> IF h \in asked /\ detect[h] = "none" THEN "bad" ELSE detect[h]]

\* AddErrRoute: the node begins to be down.
Stopped(s) == [Up EXCEPT !.found = IF detect[HostOf[s]] = "ok" THEN "before" ELSE "no"]

\* Who comes back, out of error list S with down records dn.
Back(S, dn, allReqMin) == {s \in S : Recovers(s, dn[s], allReqMin)}

\* Mutant: the list of a kind is written back but never erased.
ErrLeftKept(k, left) == IF left = {} THEN mErrTable ELSE Put(mErrTable, k, left)

\* The error table of kind k after S \ back is left in it.
ErrLeft(k, left) == IF left = {} THEN Erase(mErrTable, k) ELSE Put(mErrTable, k, left)

-----------------------------------------------------------------------------
(* RebuildRoute(k).                                                        *)

\* The kind has no table: every Svr of it is down, or there is none.  The
\* error table is tried at once, whatever the time.  The new table belongs to
\* the SvrKind_t of the caller, so its period is the default one.
RebuildAllDown(k) ==
  LET back == Back(ErrNodes(k), down, TRUE)
  IN  /\ k \notin DOMAIN mRouteTable
      /\ \E avg \in AvgErrRates, t \in Tables(back, Unordered) :
           /\ mRouteTable' = IF back = {} THEN mRouteTable
                             ELSE Put(mRouteTable, k, FreshRoute(t, DefaultRebuildTm))
           /\ stat' = [s \in Svr |->
                         IF s \in back THEN Recovered(stat[s], 1, avg) ELSE stat[s]]
      /\ mErrTable' = ErrLeft(k, ErrNodes(k) \ back)
      /\ detect' = AddDetect(ErrNodes(k), down)
      /\ down' = [s \in Svr |-> IF s \in back THEN Up ELSE down[s]]

Late(k) == mRouteTable[k].age > 2 * mRouteTable[k].period
Due(k)  == mRouteTable[k].age >= mRouteTable[k].period /\ ~Late(k)

\* Too early; or so late that the clock is suspected, and only the time of the
\* last rebuild is set.
RebuildNotDue(k) ==
  /\ k \in DOMAIN mRouteTable
  /\ ~Due(k)
  /\ mRouteTable' = IF Late(k) THEN [mRouteTable EXCEPT ![k].age = 0] ELSE mRouteTable
  /\ UNCHANGED <<stat, mErrTable, down, detect>>

Saturated(n) == IF n \in -ReqCap .. ReqCap THEN n
                ELSE IF n > ReqCap THEN ReqCap ELSE -ReqCap

\* The period is over: every node's statistics become a new limit (after), the
\* nodes at the minimum go to the error table, those of the error table that
\* recover come back behind the nodes of the same load, and the table is
\* ordered by the new loads.
RebuildWith(k, load, delay, avg, high) ==
  LET tab   == mRouteTable[k].tab
      old   == Nodes(tab)
      pos   == [s \in old |-> MinOf({i \in DOMAIN tab : tab[i] = s})]
      \* the calls of the period, rejected ones taken off
      calls == Total(tab, LAMBDA s : stat[s].reqAll - stat[s].rej)
      after == [s \in Svr |->
                  IF s \in old
                  THEN [ReqRebuild(stat[s], delay[s]) EXCEPT !.load = load[s]]
                  ELSE stat[s]]
      kept  == {s \in old : Selectable(after[s])}
      errs  == ErrNodes(k) \cup (old \ kept)
      dn    == [s \in Svr |->
                  IF s \in old \ kept THEN Stopped(s)
                  ELSE IF s \in ErrNodes(k) THEN [down[s] EXCEPT !.req = Saturated(@ + calls)]
                  ELSE down[s]]
      back  == Back(errs, dn, kept = {})
      st    == [s \in Svr |->
                  IF s \notin back THEN after[s]
                  ELSE IF kept = {} THEN Recovered(after[s], 1, avg)
                  ELSE Recovered(after[s], high, after[s].avgErr)]
      Before(a, b) == \/ st[a].load < st[b].load
                      \/ /\ st[a].load = st[b].load
                         /\ a \in kept
                         /\ b \in kept => pos[a] < pos[b]
  IN  /\ stat' = st
      /\ down' = [s \in Svr |-> IF s \in back THEN Up ELSE dn[s]]
      /\ detect' = AddDetect(errs, dn)
      /\ mErrTable' = ErrLeft(k, errs \ back)
      /\ \E t \in Tables(kept \cup back, Before) :
           mRouteTable' = IF t = <<>> THEN Erase(mRouteTable, k)
                          ELSE [mRouteTable EXCEPT ![k].tab = t, ![k].age = 0, ![k].index = 0]

RebuildDue(k) ==
  /\ k \in DOMAIN mRouteTable
  /\ Due(k)
  /\ LET old == Nodes(mRouteTable[k].tab)
     IN  \E load \in [old -> Loads], delay \in [old -> DelayLoads], avg \in AvgErrRates :
           \E high \in Highest({load[s] : s \in old}) : RebuildWith(k, load, delay, avg, high)

RebuildRoute(k) == RebuildAllDown(k) \/ RebuildNotDue(k) \/ RebuildDue(k)

-----------------------------------------------------------------------------
(* The server thread: QUERY and REPORT.                                    *)

\* The bound on calls per period, lifted when this query ends the period.
Counting(k) ==
  k \in DOMAIN mRouteTable =>
    Due(k) \/ Total(mRouteTable[k].tab, LAMBDA s : stat[s].preAll) < MaxPre

\* QueryNode, up to the routes being rebuilt.
QueryNode(k) ==
  /\ svc = Idle
  /\ Counting(k)
  /\ RebuildRoute(k)
  /\ svc' = [op |-> "select", kind |-> k]
  /\ UNCHANGED known

\* The rest of GetRouteNode, over table tab (indices 0 .. n-1 as in the code).
\* Weighted round robin compares load times the calls given out so far.
Node(tab, i)       == tab[i + 1]
Work(st, tab, i)   == st[Node(tab, i)].load * st[Node(tab, i)].preAll

\* Where the scan starts: at mPindex, or the first node after it with less
\* work than the first one, or else at the first.
StartAt(tab, index) ==
  LET from    == IF index < Len(tab) THEN index ELSE 0
      lighter == {i \in from .. Len(tab) - 1 : Work(stat, tab, i) < Work(stat, tab, 0)}
  IN  IF from = 0 \/ lighter = {} THEN 0 ELSE MinOf(lighter)

\* Mutant: the scan never moves past the node it found.
NextIndexStuck(tab, start, i, st) == start

\* mPindex after node i was given out by a scan that started at start; st is
\* the statistics with that call counted.
NextIndex(tab, start, i, st) ==
  IF i = 0
  THEN IF Len(tab) > 1 /\ Work(st, tab, 1) < Work(stat, tab, 0) THEN 1 ELSE start
  ELSE IF Work(st, tab, i) >= Work(st, tab, 0) THEN (i + 1) % Len(tab) ELSE start

\* The scan hands out the first node that does not refuse; every refusal
\* counts as a call given out.  When all refuse the query is rejected, and
\* the rejection is counted at the node the scan started from.
SelectFrom(k) ==
  LET tab      == mRouteTable[k].tab
      n        == Len(tab)
      start    == StartAt(tab, mRouteTable[k].index)
      at(j)    == (start + j) % n
      accepts  == {j \in 0 .. n - 1 : ~Refuses(stat[Node(tab, at(j))])}
      tried    == IF accepts = {} THEN 0 .. n - 1 ELSE 0 .. MinOf(accepts) - 1
      refused  == {Node(tab, at(j)) : j \in tried}
  IN  IF accepts = {}
      THEN /\ stat' = [s \in Svr |->
                         IF s \notin refused THEN stat[s]
                         ELSE [Refused(stat[s]) EXCEPT
                                 !.rej = IF s = Node(tab, start) THEN @ + 1 ELSE @]]
           /\ mRouteTable' = [mRouteTable EXCEPT ![k].index = start]
      ELSE LET i  == at(MinOf(accepts))
               st == [s \in Svr |->
                        IF s = Node(tab, i) THEN Granted(stat[s])
                        ELSE IF s \in refused THEN Refused(stat[s]) ELSE stat[s]]
           IN  /\ stat' = st
               /\ mRouteTable' = [mRouteTable EXCEPT ![k].index = NextIndex(tab, start, i, st)]

\* Without a table the query fails.
Select ==
  /\ svc.op = "select"
  /\ IF svc.kind \in DOMAIN mRouteTable /\ mRouteTable[svc.kind].tab # <<>>
     THEN SelectFrom(svc.kind)
     ELSE UNCHANGED <<stat, mRouteTable>>
  /\ svc' = Idle
  /\ UNCHANGED <<known, mErrTable, down, detect>>

\* A reported outcome is counted for any known Svr, in a table or down; a
\* report about an unknown one changes nothing.
CallerNode(s, ok) ==
  /\ svc = Idle
  /\ s \in known
  /\ stat[s].suc + stat[s].err < MaxReports
  /\ stat' = [stat EXCEPT ![s] = IF ok THEN Succeeded(@) ELSE Failed(@)]
  /\ svc' = [op |-> "rebuild", kind |-> KindOf[s]]
  /\ UNCHANGED <<known, mRouteTable, mErrTable, down, detect>>

CallerRebuild ==
  /\ svc.op = "rebuild"
  /\ RebuildRoute(svc.kind)
  /\ svc' = Idle
  /\ UNCHANGED known

-----------------------------------------------------------------------------
(* Time, and the detect thread as far as the engine can see it.            *)

Tick ==
  /\ mRouteTable' = [k \in DOMAIN mRouteTable |->
                       [mRouteTable[k] EXCEPT
                          !.age = Smaller(@ + 1, 2 * mRouteTable[k].period + 1)]]
  /\ down' = [s \in Svr |->
                IF s \in ErrNodes(KindOf[s])
                THEN [down[s] EXCEPT !.age = Smaller(@ + 1, Larger(DownTime, ProbeBegin + 1))]
                ELSE down[s]]
  /\ UNCHANGED <<known, stat, mErrTable, detect, svc>>

\* For the nodes that are down on host h.
Found(h, when) ==
  down' = [s \in Svr |-> IF HostOf[s] = h /\ s \in ErrNodes(KindOf[s])
                         THEN [down[s] EXCEPT !.found = when] ELSE down[s]]

DetectProbe(h) ==
  /\ detect[h] # "none"
  /\ \E r \in ProbeResults : detect' = [detect EXCEPT ![h] = r]
  /\ Found(h, "since")
  /\ UNCHANGED <<known, stat, mRouteTable, mErrTable, svc>>

\* A queued deletion, the expiry of an entry, or the map being cleared.
DetectForget(h) ==
  /\ detect[h] # "none"
  /\ detect' = [detect EXCEPT ![h] = "none"]
  /\ Found(h, "no")
  /\ UNCHANGED <<known, stat, mRouteTable, mErrTable, svc>>

Init ==
  /\ known = {}
  /\ stat = [s \in Svr |-> InitStat]
  /\ mRouteTable = [k \in {} |-> FreshRoute(<<>>, RebuildTm)]
  /\ mErrTable = [k \in {} |-> {}]
  /\ down = [s \in Svr |-> Up]
  /\ detect = [h \in Host |-> "none"]
  /\ svc = Idle

Next ==
  \/ \E k \in Kind : QueryNode(k)
  \/ Select
  \/ \E s \in Svr, ok \in BOOLEAN : CallerNode(s, ok)
  \/ CallerRebuild
  \/ \E s \in Svr, weight \in {0, 1} : ModNode(s, weight)
  \/ CleanNode
  \/ Tick
  \/ \E h \in Host : DetectProbe(h)
  \/ \E h \in Host : DetectForget(h)

Spec == Init /\ [][Next]_vars

\* The server thread finishes what it began and time passes.  Clients query
\* every kind again and again, and are served between the reports of others.
\* The detect thread probes an entry in the second it is added, and later
\* every ten, long before it expires.
Fairness ==
  /\ WF_vars(Select) /\ WF_vars(CallerRebuild) /\ WF_vars(Tick)
  /\ \A k \in Kind : SF_vars(QueryNode(k))
  /\ \A h \in Host : SF_vars(DetectProbe(h))

FairSpec == Spec /\ Fairness

-----------------------------------------------------------------------------
(* Safety.                                                                 *)

\* Every known Svr is in the route table or in the error table of its kind,
\* once and not in both, and nothing else is.  The tables are moved node by
\* node by RebuildRoute, RebuildErrRoute and DelRouteNode: a node lost between
\* them is never selected again, one kept in both outlives its freed mStat.
Partition ==
  /\ known = UNION {RouteNodes(k) \cup ErrNodes(k) : k \in Kind}
  /\ \A k \in Kind :
       /\ RouteNodes(k) \cup ErrNodes(k) \subseteq {s \in Svr : KindOf[s] = k}
       /\ RouteNodes(k) \cap ErrNodes(k) = {}
  /\ \A k \in DOMAIN mRouteTable : \A i, j \in DOMAIN mRouteTable[k].tab :
       mRouteTable[k].tab[i] = mRouteTable[k].tab[j] => i = j

\* A kind in either map has nodes there.  RebuildRoute returns early on an
\* empty route table, so a kind left with one would never try its error table.
NoEmptyTable ==
  /\ \A k \in DOMAIN mRouteTable : mRouteTable[k].tab # <<>>
  /\ \A k \in DOMAIN mErrTable : mErrTable[k] # {}

\* The first node of a table has the least load, and the others follow in
\* order: the round robin of GetRouteNode measures every node against the
\* first one.  New, recovered and rebuilt nodes are inserted by different code.
OrderedByLoad ==
  \A k \in DOMAIN mRouteTable : LET tab == mRouteTable[k].tab IN
    \A i, j \in DOMAIN tab : i < j => stat[tab[i]].load <= stat[tab[j]].load

\* A node in the error table has a limit that was set and shrunk to the minimum.
DownAtMinimum ==
  \A k \in Kind : \A s \in ErrNodes(k) : stat[s].limit \in 1 .. ReqMin

\* A node leaves the route table for the error table only when its error rate
\* of the period exceeded the allowed one, or its limit was at the minimum
\* already (RebuildRoute, ReqRebuild).
OnlyFailingGoDown ==
  [][\A s \in known : s \in RouteNodes(KindOf[s]) /\ s \in ErrNodes(KindOf[s])'
       => ~WithinErrMin(Settled(stat[s])) \/ stat[s].limit \in 1 .. ReqMin]_vars

\* A node stays in the error table longer than ProbeBegin, and comes back on a
\* probe that ended since it went down, of the entry that is now in the detect
\* thread's map; or on one that had succeeded when it went down, for a node of
\* another kind or for its own last outage, and whose entry is still there:
\* GetDetectResult does not tell when a probe was made.  Where pinging is not
\* allowed, it comes back while other nodes stay only after DownTime or after
\* calls were made to them (RebuildErrRoute).
RecoveryIsProbed ==
  [][\A s \in known : s \in ErrNodes(KindOf[s]) /\ s \in RouteNodes(KindOf[s])'
       => /\ down[s].age > ProbeBegin
          /\ \/ detect[HostOf[s]] = "ok" /\ down[s].found # "no"
             \/ /\ detect[HostOf[s]] = "nopri"
                /\ \/ RouteNodes(KindOf[s]) \cap RouteNodes(KindOf[s])' = {}
                   \/ down[s].age >= DownTime \/ down[s].req >= DownReq
                   \/ \E r \in RouteNodes(KindOf[s]) : stat[r].reqAll > 0]_vars

\* A query is rejected for overload only if every node of the table had a
\* failure in the period: a node without one takes calls past its limit
\* (RouteCheck, and the scan of GetRouteNode over all nodes).
RejectOnlyIfAllFail ==
  [][\A s \in known : stat'[s].rej > stat[s].rej
       => \A r \in RouteNodes(KindOf[s]) : stat[r].err > 0]_vars

\* The weighted round robin shares the calls of a period: as long as no call
\* failed, no node has more work (load times calls) than one call of its own
\* above the first node.  The second node has at most two calls of the first
\* node less than it.  Every other may lag by one call of the second node more:
\* after a round the first node takes the calls until the second is the lighter
\* one, whatever the others have (the scan and mPindex of GetRouteNode).  For
\* periods that begin with fresh counters and whose set of nodes does not change.
Balanced ==
  \A k \in DOMAIN mRouteTable :
    LET tab     == mRouteTable[k].tab
        load(i) == stat[Node(tab, i)].load
        work(i) == Work(stat, tab, i)
    IN  (\A s \in Nodes(tab) : stat[s].err = 0) =>
          \A i \in 1 .. Len(tab) - 1 :
            /\ work(i) <= work(0) + load(i)
            /\ work(i) >= work(0) - 2 * load(0) - (IF i = 1 THEN 0 ELSE load(1))

\* From some time on, results that wait to be read are kept: every kind is
\* queried more often than the EXPIRE seconds (600) an entry of the detect
\* thread lives.
ResultsWait ==
  <>[][\A s \in known : s \in ErrNodes(KindOf[s]) /\ detect[HostOf[s]] = "ok"
       => detect'[HostOf[s]] # "none"]_vars

\* Liveness, where every host accepts connections again: a kind all of whose
\* Svrs are down does not stay without a route table.  Every query tries the
\* error table at once (RebuildRoute), and its probes must get registered,
\* made and read.
OutageEnds ==
  ResultsWait =>
    \A k \in Kind : (k \in DOMAIN mErrTable /\ k \notin DOMAIN mRouteTable)
                      ~> (k \in DOMAIN mRouteTable \/ k \notin DOMAIN mErrTable)
==============================================================================
