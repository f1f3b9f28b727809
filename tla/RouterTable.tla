---------------------------- MODULE RouterTable -----------------------------
(***************************************************************************)
(* The tables of the SvrQos of RouterSvrd (routerserver/src/SvrQos.cpp).   *)
(* It is a copy of the agent's engine, of which RouterSvrd uses the node   *)
(* map, to find out which Svrs are new: every Svr is put into a table of   *)
(* routes as well, with limits, and nothing asks the routes, reports to    *)
(* them or deletes them.  RouterSync has the same map, as its agents see   *)
(* it, with the versions; here are the tables behind it.                   *)
(***************************************************************************)
EXTENDS Integers, SequencesExt

CONSTANTS
    Kinds,          \* <<mGid, mXid>>
    Hosts,          \* <<mHost, mPort>>
    Weights,        \* those of svr.xml; 0 is one of them
    MaxSaves        \* bound: calls of SaveNode

INIT_LIMIT == "mReqCfg"     \* the limits of qos.xml

VARIABLES
    mMapReqSvr,     \* the nodes that are known -> the weight of the map's key
    mRouteTable,    \* by kind: the routes in their order; no kind, no table
    limits,         \* by node, the mReqCfg its SvrStat_t began with
    saves

tableVars == <<mMapReqSvr, mRouteTable, limits, saves>>

Nodes == Kinds \X Hosts
Put(f, x, y) == [z \in DOMAIN f \cup {x} |-> IF z = x THEN y ELSE f[z]]

Init == mMapReqSvr = << >> /\ mRouteTable = << >> /\ limits = << >> /\ saves = 0

-----------------------------------------------------------------------------
(* LoadStatCfg and AddRouteNode: a route goes behind those of its key, and *)
(* all keys are the 1 that mLoadX begins with.  The limits of the last     *)
(* route of the table are taken over.                                      *)
Routes(k) == IF k \in DOMAIN mRouteTable THEN mRouteTable[k] ELSE << >>
LoadStatCfg == INIT_LIMIT
StatCfg(k) == IF Routes(k) = << >> THEN LoadStatCfg ELSE limits[Last(Routes(k)).node]
AddRouteNode(n, w) ==
    mRouteTable' = Put(mRouteTable, n[1], Append(Routes(n[1]), [node |-> n, mWeight |-> w]))

AllocNode(n, w) ==
    /\ n \notin DOMAIN mMapReqSvr
    /\ mMapReqSvr' = Put(mMapReqSvr, n, w)
    /\ limits' = Put(limits, n, StatCfg(n[1]))
    /\ AddRouteNode(n, w)

\* Mutant: the search ends at the first route that is not the node.
ModFirst(routes, n, w) ==
    IF routes[1].node = n THEN [routes EXCEPT ![1].mWeight = w] ELSE routes

(* The route of n, with another weight.                                    *)
ModRoute(routes, n, w) ==
    [i \in DOMAIN routes |->
        IF routes[i].node = n THEN [routes[i] EXCEPT !.mWeight = w] ELSE routes[i]]

ModRouteNode(n, w) ==
    mRouteTable' = [mRouteTable EXCEPT ![n[1]] = ModRoute(@, n, w)]

(* The error tables stay empty: only a rebuild fills them.                 *)
SaveNode(n, w) ==
    /\ saves < MaxSaves /\ saves' = saves + 1
    /\ \/ AllocNode(n, w)
       \/ /\ n \in DOMAIN mMapReqSvr
          /\ IF w # mMapReqSvr[n]
             THEN mMapReqSvr' = Put(mMapReqSvr, n, w) /\ ModRouteNode(n, w)
             ELSE UNCHANGED <<mMapReqSvr, mRouteTable>>
          /\ UNCHANGED limits

Next == \E n \in Nodes, w \in Weights : SaveNode(n, w)

Spec == Init /\ [][Next]_tableVars

(* What InitSvrReq sends to an agent.                                      *)
GetSvrAll == {<<n, mMapReqSvr[n]>> : n \in DOMAIN mMapReqSvr}

-----------------------------------------------------------------------------
TypeOK ==
    /\ DOMAIN mMapReqSvr \subseteq Nodes /\ DOMAIN mRouteTable \subseteq Kinds
    /\ \A n \in DOMAIN mMapReqSvr : mMapReqSvr[n] \in Weights
    /\ DOMAIN limits = DOMAIN mMapReqSvr /\ saves \in 0 .. MaxSaves

(* The two tables stay one: every node that an agent is told of has one    *)
(* route, in the table of its kind and with the weight it is told, and     *)
(* there is no other route, though routes are never deleted.               *)
RoutedOnce ==
    /\ \A k \in DOMAIN mRouteTable : \A i \in DOMAIN mRouteTable[k] :
            /\ mRouteTable[k][i].node[1] = k
            /\ <<mRouteTable[k][i].node, mRouteTable[k][i].mWeight>> \in GetSvrAll
            /\ \A j \in DOMAIN mRouteTable[k] : mRouteTable[k][j].node = mRouteTable[k][i].node => i = j
    /\ \A n \in DOMAIN mMapReqSvr : \E i \in DOMAIN Routes(n[1]) : Routes(n[1])[i].node = n
    /\ \A n \in DOMAIN limits : limits[n] = INIT_LIMIT
=============================================================================
