---------------------------- MODULE SvrQos_proofs ----------------------------
(***************************************************************************)
(* The safety of the QoS engine, for any Svrs, kinds, hosts and settings.  *)
(*                                                                         *)
(* The inductive invariant IInv says the same as TypeOK, Partition,        *)
(* NoEmptyTable, OrderedByLoad and DownAtMinimum together, table by table  *)
(* and Svr by Svr, in operators of the two maps and the statistics, so     *)
(* that a step that changes one kind is a fact about one table.            *)
(***************************************************************************)
EXTENDS MCSvrQos, SvrStat_proofs, SequenceTheorems, FiniteSetTheorems

OfKind(k) == {s \in Svr : KindOf[s] = k}

\* One entry of mRouteTable.
TableOK(k, r, st) ==
  /\ r \in Route
  /\ r.tab # <<>>
  /\ Nodes(r.tab) \subseteq OfKind(k)
  /\ \A i, j \in DOMAIN r.tab :
       /\ r.tab[i] = r.tab[j] => i = j
       /\ i < j => st[r.tab[i]].load <= st[r.tab[j]].load

\* One entry of mErrTable.
ListOK(k, S, st) ==
  /\ S # {}
  /\ S \subseteq OfKind(k)
  /\ \A s \in S : st[s].limit \in 1 .. ReqMin

RoutesOK(rt, st) == \A k \in DOMAIN rt : k \in Kind /\ TableOK(k, rt[k], st)
ListsOK(et, st)  == \A k \in DOMAIN et : k \in Kind /\ ListOK(k, et[k], st)

InRoute(rt, s) == KindOf[s] \in DOMAIN rt /\ s \in Nodes(rt[KindOf[s]].tab)
InList(et, s)  == KindOf[s] \in DOMAIN et /\ s \in et[KindOf[s]]

Covers(kn, rt, et) ==
  \A s \in Svr : /\ s \in kn <=> InRoute(rt, s) \/ InList(et, s)
                 /\ ~(InRoute(rt, s) /\ InList(et, s))

IInv ==
  /\ known \subseteq Svr
  /\ stat \in [Svr -> Stat]
  /\ down \in [Svr -> DownSince]
  /\ detect \in [Host -> Detected]
  /\ svc \in {Idle} \cup Busy
  /\ RoutesOK(mRouteTable, stat)
  /\ ListsOK(mErrTable, stat)
  /\ Covers(known, mRouteTable, mErrTable)

-----------------------------------------------------------------------------
(* Tables.                                                                 *)

\* Every Svr has a kind and a host (the constants' assumption).
LEMMA KindType == ASSUME NEW s \in Svr PROVE KindOf[s] \in Kind /\ HostOf[s] \in Host
  BY QosAssumption

\* The fields of a route table's record, and its nodes as a function.
LEMMA RouteFields ==
  ASSUME NEW r \in Route
  PROVE  /\ r.tab \in Seq(Svr) /\ r.age \in Nat /\ r.period \in Nat /\ r.index \in Nat
         /\ DOMAIN r.tab = 1 .. Len(r.tab) /\ Len(r.tab) \in Nat
         /\ r.tab \in [1 .. Len(r.tab) -> Svr]
  BY LenProperties DEF Route

\* A node is in a table when it is one of its entries.
LEMMA InNodes ==
  ASSUME NEW t, NEW s
  PROVE  s \in Nodes(t) <=> \E i \in DOMAIN t : t[i] = s
  BY DEF Nodes

\* A table without its entry i has the same nodes but that one, in the same
\* order (DelRouteNode).
LEMMA WithoutFacts ==
  ASSUME NEW t \in Seq(Svr), NEW i \in DOMAIN t, Len(t) # 1,
         \A a, b \in DOMAIN t : t[a] = t[b] => a = b
  PROVE  /\ Without(t, i) \in Seq(Svr) /\ Without(t, i) # <<>>
         /\ Nodes(Without(t, i)) = Nodes(t) \ {t[i]}
         /\ \A a, b \in DOMAIN Without(t, i) :
              \E c, d \in DOMAIN t : /\ Without(t, i)[a] = t[c] /\ Without(t, i)[b] = t[d]
                                     /\ (a < b <=> c < d) /\ (a = b <=> c = d)
  <1> DEFINE n == Len(t)
             w == Without(t, i)
             up(a) == IF a < i THEN a ELSE a + 1
  <1>1. n \in Nat /\ DOMAIN t = 1 .. n /\ t \in [1 .. n -> Svr] /\ i \in 1 .. n /\ n > 1
    <2>1. n \in Nat /\ DOMAIN t = 1 .. n /\ t \in [1 .. n -> Svr] BY LenProperties
    <2>2. i \in 1 .. n /\ n # 1 BY <2>1
    <2> QED BY <2>1, <2>2
  <1>2. w = [j \in 1 .. n - 1 |-> t[up(j)]] /\ \A j \in 1 .. n - 1 : up(j) \in 1 .. n
    BY <1>1 DEF Without
  <1>3. w \in [1 .. n - 1 -> Svr] /\ \A j \in 1 .. n - 1 : w[j] = t[up(j)]
    BY <1>1, <1>2
  <1>4. w \in Seq(Svr) /\ DOMAIN w = 1 .. n - 1
    BY <1>1, <1>3, SeqDef
  <1>5. w # <<>>
    BY <1>1, <1>4
  <1>6. Nodes(w) = Nodes(t) \ {t[i]}
    <2>1. ASSUME NEW s, s \in Nodes(w) PROVE s \in Nodes(t) \ {t[i]}
      <3>1. PICK j \in 1 .. n - 1 : w[j] = s BY <2>1, <1>4, InNodes
      <3>2. s = t[up(j)] /\ up(j) \in 1 .. n /\ up(j) # i BY <3>1, <1>1, <1>2, <1>3
      <3> QED BY <3>2, <1>1, InNodes
    <2>2. ASSUME NEW s, s \in Nodes(t), s # t[i] PROVE s \in Nodes(w)
      <3>1. PICK j \in 1 .. n : t[j] = s BY <2>2, <1>1, InNodes
      <3>2. CASE j < i
        <4>1. j \in 1 .. n - 1 /\ w[j] = s BY <3>1, <3>2, <1>1, <1>3
        <4> QED BY <4>1, <1>4, InNodes
      <3>3. CASE j > i
        <4>1. j - 1 \in 1 .. n - 1 /\ w[j - 1] = s BY <3>1, <3>3, <1>1, <1>3
        <4> QED BY <4>1, <1>4, InNodes
      <3> QED BY <3>1, <3>2, <3>3, <2>2, <1>1
    <2> QED BY <2>1, <2>2
  <1>7. ASSUME NEW a \in DOMAIN w, NEW b \in DOMAIN w
        PROVE  \E c, d \in DOMAIN t : /\ w[a] = t[c] /\ w[b] = t[d]
                                      /\ (a < b <=> c < d) /\ (a = b <=> c = d)
    <2>1. /\ up(a) \in DOMAIN t /\ up(b) \in DOMAIN t /\ w[a] = t[up(a)] /\ w[b] = t[up(b)]
          /\ (a < b <=> up(a) < up(b)) /\ (a = b <=> up(a) = up(b))
      BY <1>1, <1>2, <1>3, <1>4
    <2> QED BY <2>1
  <1> QED BY <1>4, <1>5, <1>6, <1>7

\* Deleting one entry of two or more leaves a table in order, without
\* duplicates and not empty (DelRouteNode).
LEMMA WithoutOK ==
  ASSUME NEW k, NEW r, NEW st, TableOK(k, r, st), NEW i \in DOMAIN r.tab, Len(r.tab) # 1
  PROVE  TableOK(k, [r EXCEPT !.tab = Without(r.tab, i)], st)
  <1> DEFINE w == Without(r.tab, i)
             q == [r EXCEPT !.tab = w]
  <1>1. r \in Route /\ r.tab \in Seq(Svr) BY RouteFields DEF TableOK
  <1>2. /\ w \in Seq(Svr) /\ w # <<>> /\ Nodes(w) \subseteq Nodes(r.tab)
        /\ \A a, b \in DOMAIN w :
             \E c, d \in DOMAIN r.tab : /\ w[a] = r.tab[c] /\ w[b] = r.tab[d]
                                        /\ (a < b <=> c < d) /\ (a = b <=> c = d)
    <2>1. \A a, b \in DOMAIN r.tab : r.tab[a] = r.tab[b] => a = b BY DEF TableOK
    <2>2. ASSUME NEW t, t = r.tab
          PROVE  /\ Without(t, i) \in Seq(Svr) /\ Without(t, i) # <<>>
                 /\ Nodes(Without(t, i)) = Nodes(t) \ {t[i]}
                 /\ \A a, b \in DOMAIN Without(t, i) :
                      \E c, d \in DOMAIN t :
                        /\ Without(t, i)[a] = t[c] /\ Without(t, i)[b] = t[d]
                        /\ (a < b <=> c < d) /\ (a = b <=> c = d)
      <3>1. /\ t \in Seq(Svr) /\ i \in DOMAIN t /\ Len(t) # 1
            /\ \A a, b \in DOMAIN t : t[a] = t[b] => a = b
        BY <1>1, <2>1, <2>2
      <3> QED BY <3>1, WithoutFacts
    <2> QED BY <2>2
  <1>3. q \in Route /\ q.tab = w BY <1>1, <1>2 DEF Route
  <1>4. ASSUME NEW a \in DOMAIN w, NEW b \in DOMAIN w
        PROVE  /\ w[a] = w[b] => a = b
               /\ a < b => st[w[a]].load <= st[w[b]].load
    BY <1>2 DEF TableOK
  <1> QED BY <1>2, <1>3, <1>4 DEF TableOK

\* A new node behind a table keeps it in order if its load is the last one's
\* (AddRouteNode).
LEMMA AppendOK ==
  ASSUME NEW k, NEW r, NEW st \in [Svr -> Stat], TableOK(k, r, st),
         NEW s \in OfKind(k), s \notin Nodes(r.tab),
         st[s].load = st[r.tab[Len(r.tab)]].load
  PROVE  /\ TableOK(k, [r EXCEPT !.tab = Append(r.tab, s)], st)
         /\ Nodes(Append(r.tab, s)) = Nodes(r.tab) \cup {s}
  <1> DEFINE t == r.tab
             n == Len(t)
             w == Append(t, s)
             q == [r EXCEPT !.tab = w]
  <1>1. r \in Route /\ t \in Seq(Svr) /\ n \in Nat /\ DOMAIN t = 1 .. n /\ s \in Svr
    BY RouteFields DEF TableOK, OfKind
  <1>2. /\ w \in Seq(Svr) /\ DOMAIN w = 1 .. n + 1 /\ w # <<>>
        /\ \A i \in 1 .. n : w[i] = t[i]
        /\ w[n + 1] = s
    BY <1>1
  <1>3. Nodes(w) = Nodes(t) \cup {s}
    BY <1>1, <1>2 DEF Nodes
  <1>4. q \in Route /\ q.tab = w
    BY <1>1, <1>2 DEF Route
  <1>5. n > 0
    BY <1>1, EmptySeq DEF TableOK
  <1>6. \A i \in 1 .. n : t[i] # s /\ t[i] \in Svr
    BY <1>1 DEF Nodes
  <1>7. \A i \in 1 .. n : st[t[i]].load <= st[t[n]].load
    <2>1. \A i \in 1 .. n : i < n => st[t[i]].load <= st[t[n]].load
      BY <1>1, <1>5 DEF TableOK
    <2>2. st[t[n]].load \in Nat BY <1>5, <1>6, <1>1 DEF Stat
    <2> QED BY <2>1, <2>2, <1>1
  <1>8. ASSUME NEW i \in 1 .. n + 1, NEW j \in 1 .. n + 1
        PROVE  /\ w[i] = w[j] => i = j
               /\ i < j => st[w[i]].load <= st[w[j]].load
    <2>1. CASE i \in 1 .. n /\ j \in 1 .. n
      BY <2>1, <1>1, <1>2 DEF TableOK
    <2>2. CASE i = n + 1 \/ j = n + 1
      BY <2>2, <1>1, <1>2, <1>6, <1>7
    <2> QED BY <2>1, <2>2, <1>1
  <1> QED BY <1>2, <1>3, <1>4, <1>8 DEF TableOK
\* The order and the content of a table do not depend on anything else of the
\* statistics than the loads of its nodes.
LEMMA TableFrame ==
  ASSUME NEW k, NEW r, NEW st, NEW st2, TableOK(k, r, st),
         \A s \in OfKind(k) : st2[s].load = st[s].load
  PROVE  TableOK(k, r, st2)
  <1>1. \A i \in DOMAIN r.tab : r.tab[i] \in OfKind(k)
    BY DEF TableOK, Nodes
  <1> QED BY <1>1 DEF TableOK

\* The route tables do not depend on anything of the statistics but loads.
LEMMA RoutesFrame ==
  ASSUME NEW rt, NEW st, NEW st2, RoutesOK(rt, st),
         \A s \in Svr : st2[s].load = st[s].load
  PROVE  RoutesOK(rt, st2)
  BY TableFrame DEF RoutesOK, OfKind

\* The error lists do not depend on anything of the statistics but limits.
LEMMA ListsFrame ==
  ASSUME NEW et, NEW st, NEW st2, ListsOK(et, st),
         \A s \in Svr : st2[s].limit = st[s].limit
  PROVE  ListsOK(et, st2)
  BY DEF ListsOK, ListOK, OfKind

\* Changing the one entry of kind k.
LEMMA RoutesUpdate ==
  ASSUME NEW rt, NEW st, NEW st2, RoutesOK(rt, st),
         NEW k \in Kind, NEW r, TableOK(k, r, st2),
         \A s \in Svr : KindOf[s] # k => st2[s].load = st[s].load
  PROVE  /\ RoutesOK(Put(rt, k, r), st2)
         /\ \A s \in Svr : InRoute(Put(rt, k, r), s) <=>
              IF KindOf[s] = k THEN s \in Nodes(r.tab) ELSE InRoute(rt, s)
  <1>1. ASSUME NEW c \in DOMAIN rt, c # k PROVE c \in Kind /\ TableOK(c, rt[c], st2)
    <2>1. \A s \in OfKind(c) : st2[s].load = st[s].load BY <1>1 DEF OfKind
    <2> QED BY <2>1, <1>1, TableFrame DEF RoutesOK
  <1> QED BY <1>1 DEF RoutesOK, Put, InRoute

\* Erasing the table of kind k takes exactly its Svrs out of the route tables.
LEMMA RoutesErase ==
  ASSUME NEW rt, NEW st, NEW st2, RoutesOK(rt, st), NEW k,
         \A s \in Svr : KindOf[s] # k => st2[s].load = st[s].load
  PROVE  /\ RoutesOK(Erase(rt, k), st2)
         /\ \A s \in Svr : InRoute(Erase(rt, k), s) <=> KindOf[s] # k /\ InRoute(rt, s)
  <1>1. ASSUME NEW c \in DOMAIN rt, c # k PROVE c \in Kind /\ TableOK(c, rt[c], st2)
    <2>1. \A s \in OfKind(c) : st2[s].load = st[s].load BY <1>1 DEF OfKind
    <2> QED BY <2>1, <1>1, TableFrame DEF RoutesOK
  <1> QED BY <1>1 DEF RoutesOK, Erase, InRoute

\* Changing the error list of kind k changes who is down in that kind only.
LEMMA ListsUpdate ==
  ASSUME NEW et, NEW st, NEW st2, ListsOK(et, st),
         NEW k \in Kind, NEW S, ListOK(k, S, st2),
         \A s \in Svr : KindOf[s] # k => st2[s].limit = st[s].limit
  PROVE  /\ ListsOK(Put(et, k, S), st2)
         /\ \A s \in Svr : InList(Put(et, k, S), s) <=>
              IF KindOf[s] = k THEN s \in S ELSE InList(et, s)
  <1>1. ASSUME NEW c \in DOMAIN et, c # k PROVE c \in Kind /\ ListOK(c, et[c], st2)
    <2>1. \A s \in OfKind(c) : s \in Svr /\ st2[s].limit = st[s].limit
      BY <1>1 DEF OfKind
    <2> QED BY <2>1, <1>1 DEF ListsOK, ListOK
  <1> QED BY <1>1 DEF ListsOK, Put, InList

\* Erasing the error list of kind k leaves no Svr of it down.
LEMMA ListsErase ==
  ASSUME NEW et, NEW st, NEW st2, ListsOK(et, st), NEW k,
         \A s \in Svr : KindOf[s] # k => st2[s].limit = st[s].limit
  PROVE  /\ ListsOK(Erase(et, k), st2)
         /\ \A s \in Svr : InList(Erase(et, k), s) <=> KindOf[s] # k /\ InList(et, s)
  <1>1. ASSUME NEW c \in DOMAIN et, c # k PROVE c \in Kind /\ ListOK(c, et[c], st2)
    <2>1. \A s \in OfKind(c) : s \in Svr /\ st2[s].limit = st[s].limit
      BY <1>1 DEF OfKind
    <2> QED BY <2>1, <1>1 DEF ListsOK, ListOK
  <1> QED BY <1>1 DEF ListsOK, Erase, InList

\* RouteNodes and ErrNodes, and the invariants the runs check.
LEMMA NodesOfKind ==
  ASSUME RoutesOK(mRouteTable, stat), ListsOK(mErrTable, stat)
  PROVE  \A k : /\ RouteNodes(k) \subseteq OfKind(k) /\ ErrNodes(k) \subseteq OfKind(k)
                /\ \A s \in OfKind(k) : /\ s \in RouteNodes(k) <=> InRoute(mRouteTable, s)
                                        /\ s \in ErrNodes(k) <=> InList(mErrTable, s)
  BY DEF RoutesOK, ListsOK, TableOK, ListOK, RouteNodes, ErrNodes, InRoute, InList, OfKind

\* What IInv is for: the invariants the runs check follow from it.
LEMMA Consequences ==
  ASSUME IInv
  PROVE  TypeOK /\ Partition /\ NoEmptyTable /\ OrderedByLoad /\ DownAtMinimum
  <1> USE DEF IInv
  <1>1. TypeOK
    BY DEF TypeOK, RoutesOK, ListsOK, TableOK, ListOK, OfKind
  <1>2. NoEmptyTable
    BY DEF NoEmptyTable, RoutesOK, ListsOK, TableOK, ListOK
  <1>3. OrderedByLoad
    BY DEF OrderedByLoad, RoutesOK, TableOK
  <1>4. DownAtMinimum
    BY DEF DownAtMinimum, ErrNodes, ListsOK, ListOK
  <1>5. Partition
    <2>1. \A k \in Kind : /\ RouteNodes(k) \cup ErrNodes(k) \subseteq {s \in Svr : KindOf[s] = k}
                          /\ RouteNodes(k) \cap ErrNodes(k) = {}
      BY NodesOfKind DEF Covers, OfKind
    <2>2. \A s \in Svr : s \in known <=> s \in RouteNodes(KindOf[s]) \/ s \in ErrNodes(KindOf[s])
      BY NodesOfKind DEF Covers, OfKind
    <2>3. known = UNION {RouteNodes(k) \cup ErrNodes(k) : k \in Kind}
      BY <2>1, <2>2, KindType
    <2>4. \A k \in DOMAIN mRouteTable : \A i, j \in DOMAIN mRouteTable[k].tab :
            mRouteTable[k].tab[i] = mRouteTable[k].tab[j] => i = j
      BY DEF RoutesOK, TableOK
    <2> QED BY <2>1, <2>3, <2>4 DEF Partition
  <1> QED BY <1>1, <1>2, <1>3, <1>4, <1>5

-----------------------------------------------------------------------------
(* The initial state.                                                      *)

\* The statistics of a Svr nobody called are well formed (LoadStatCfg).
LEMMA InitStatType == InitStat \in Stat
  BY DEF InitStat, Stat

\* IInv holds of the engine as it is constructed.
LEMMA InitInv == ASSUME Init PROVE IInv
  <1>1. stat \in [Svr -> Stat] BY InitStatType DEF Init
  <1>2. /\ known = {} /\ DOMAIN mRouteTable = {} /\ DOMAIN mErrTable = {}
        /\ down \in [Svr -> DownSince] /\ detect \in [Host -> Detected] /\ svc = Idle
    BY DEF Init, Up, DownSince, Detected
  <1> QED BY <1>1, <1>2 DEF IInv, RoutesOK, ListsOK, Covers, InRoute, InList
-----------------------------------------------------------------------------
(* Configuration steps.                                                    *)

\* A table just made is well formed (the constructor of SvrKind_t).
LEMMA FreshRouteType ==
  ASSUME NEW t \in Seq(Svr), NEW p \in Nat
  PROVE  FreshRoute(t, p) \in Route /\ FreshRoute(t, p).tab = t
  BY DEF FreshRoute, Route

\* A table of one node is in order (AddRouteNode on a new kind).
LEMMA SingletonOK ==
  ASSUME NEW k, NEW s \in OfKind(k), NEW st, NEW p \in Nat
  PROVE  TableOK(k, FreshRoute(<<s>>, p), st) /\ Nodes(<<s>>) = {s}
  <1>1. s \in Svr /\ <<s>> \in Seq(Svr) /\ <<s>> # <<>> /\ DOMAIN <<s>> = {1} /\ <<s>>[1] = s
    BY DEF OfKind
  <1>2. Nodes(<<s>>) = {s}
    BY <1>1 DEF Nodes
  <1>3. FreshRoute(<<s>>, p) \in Route /\ FreshRoute(<<s>>, p).tab = <<s>>
    BY <1>1, FreshRouteType
  <1>4. \A i, j \in DOMAIN <<s>> : i = j /\ ~(i < j)
    BY <1>1
  <1> QED BY <1>1, <1>2, <1>3, <1>4, Zenon DEF TableOK

\* A new Svr is put at the end of its table with the load of the last node,
\* so the order and IInv stay (SaveNode, AllocNode, AddRouteNode).
LEMMA SaveNodeInv ==
  ASSUME IInv, NEW s \in Svr, SaveNode(s)
  PROVE  IInv'
  <1> DEFINE k   == KindOf[s]
             has == k \in DOMAIN mRouteTable
             old == mRouteTable[k]
             tab == IF has THEN old.tab ELSE <<>>
             r   == IF has THEN [old EXCEPT !.tab = Append(@, s)]
                    ELSE FreshRoute(<<s>>, RebuildTm)
             new == IF tab = <<>> THEN InitStat ELSE stat[tab[Len(tab)]]
  <1>1. /\ s \notin known /\ known' = known \cup {s}
        /\ stat' = [stat EXCEPT ![s] = new]
        /\ mRouteTable' = Put(mRouteTable, k, r)
        /\ mErrTable' = mErrTable /\ down' = down /\ detect' = detect /\ svc' = svc
    BY DEF SaveNode, AllocNode
  <1>2. k \in Kind /\ s \in OfKind(k) /\ stat \in [Svr -> Stat]
    BY KindType DEF OfKind, IInv
  <1>3. ~InRoute(mRouteTable, s) /\ ~InList(mErrTable, s)
    BY <1>1 DEF IInv, Covers
  <1>4. /\ stat' \in [Svr -> Stat]
        /\ TableOK(k, r, stat')
        /\ Nodes(r.tab) = {s} \cup (IF has THEN Nodes(old.tab) ELSE {})
    <2>1. CASE has
      <3>1. TableOK(k, old, stat) /\ old \in Route /\ old.tab # <<>>
        BY <2>1 DEF IInv, RoutesOK, TableOK
      <3>2. Len(old.tab) \in DOMAIN old.tab /\ old.tab[Len(old.tab)] \in Svr
        BY <3>1, RouteFields, EmptySeq
      <3>3. s \notin Nodes(old.tab)
        BY <1>3, <2>1 DEF InRoute
      <3>4. old.tab[Len(old.tab)] # s
        BY <3>2, <3>3, InNodes
      <3>5. /\ stat' \in [Svr -> Stat] /\ stat'[s] = stat[old.tab[Len(old.tab)]]
            /\ \A x \in Svr : x # s => stat'[x] = stat[x]
        BY <1>1, <1>2, <2>1, <3>1, <3>2
      <3>6. \A i \in DOMAIN old.tab : old.tab[i] \in Svr /\ old.tab[i] # s
        BY <3>1, <3>3, InNodes DEF TableOK, OfKind
      <3>7. TableOK(k, old, stat')
        BY <3>1, <3>5, <3>6 DEF TableOK
      <3>8. stat'[s].load = stat'[old.tab[Len(old.tab)]].load
        BY <3>2, <3>4, <3>5
      <3>9. r = [old EXCEPT !.tab = Append(old.tab, s)] /\ r.tab = Append(old.tab, s)
        BY <2>1, <3>1 DEF Route
      <3>10. /\ TableOK(k, [old EXCEPT !.tab = Append(old.tab, s)], stat')
             /\ Nodes(Append(old.tab, s)) = Nodes(old.tab) \cup {s}
        <4>1. ASSUME NEW q, q = old, NEW st, st = stat'
              PROVE  /\ TableOK(k, [q EXCEPT !.tab = Append(q.tab, s)], st)
                     /\ Nodes(Append(q.tab, s)) = Nodes(q.tab) \cup {s}
          <5>1. /\ st \in [Svr -> Stat] /\ TableOK(k, q, st) /\ s \notin Nodes(q.tab)
                /\ st[s].load = st[q.tab[Len(q.tab)]].load
            BY <4>1, <3>3, <3>5, <3>7, <3>8
          <5> QED BY <1>2, <5>1, AppendOK
        <4> QED BY <4>1
      <3> QED BY <2>1, <3>5, <3>9, <3>10
    <2>2. CASE ~has
      <3>1. new = InitStat /\ stat' \in [Svr -> Stat]
        BY <1>1, <1>2, <2>2, InitStatType
      <3>2. r.tab = <<s>>
        BY <2>2 DEF FreshRoute
      <3> QED BY <1>2, <2>2, <3>1, <3>2, SingletonOK, QosAssumption
    <2> QED BY <2>1, <2>2
  <1>5. \A x \in Svr : x # s => stat'[x] = stat[x]
    BY <1>1, <1>2
  <1> HIDE DEF r, new
  <1>6. /\ RoutesOK(mRouteTable', stat')
        /\ \A x \in Svr : InRoute(mRouteTable', x) <=> x = s \/ InRoute(mRouteTable, x)
    <2>1. \A x \in Svr : KindOf[x] # k => stat'[x].load = stat[x].load
      BY <1>5
    <2>2. RoutesOK(mRouteTable, stat) BY DEF IInv
    <2>3. /\ RoutesOK(Put(mRouteTable, k, r), stat')
          /\ \A x \in Svr : InRoute(Put(mRouteTable, k, r), x) <=>
               IF KindOf[x] = k THEN x \in Nodes(r.tab) ELSE InRoute(mRouteTable, x)
      BY <1>2, <1>4, <2>1, <2>2, RoutesUpdate
    <2> QED BY <1>1, <2>3, <1>4 DEF InRoute
  <1>7. ListsOK(mErrTable', stat')
    <2>1. \A c \in DOMAIN mErrTable : s \notin mErrTable[c]
      BY <1>3 DEF InList, IInv, ListsOK, ListOK, OfKind
    <2> QED BY <2>1, <1>1, <1>5 DEF IInv, ListsOK, ListOK, OfKind
  <1>8. Covers(known', mRouteTable', mErrTable')
    BY <1>1, <1>3, <1>6 DEF IInv, Covers
  <1> QED BY <1>1, <1>4, <1>6, <1>7, <1>8 DEF IInv
\* The smallest of one number is that number: a node is in a table once.
LEMMA MinOfOne == ASSUME NEW i \in Nat PROVE MinOf({i}) = i
  BY DEF MinOf

\* A Svr taken out of the route tables is in none of them, and no other Svr
\* is concerned (DelRouteNode).
LEMMA RouteTableWithoutInv ==
  ASSUME NEW rt, NEW st, RoutesOK(rt, st), NEW s \in Svr
  PROVE  /\ RoutesOK(RouteTableWithout(rt, s), st)
         /\ \A x \in Svr : InRoute(RouteTableWithout(rt, s), x) <=> x # s /\ InRoute(rt, x)
  <1> DEFINE k   == KindOf[s]
             r   == rt[k]
             at  == {i \in DOMAIN r.tab : r.tab[i] = s}
             new == RouteTableWithout(rt, s)
  <1>1. k \in Kind BY KindType
  <1>2. CASE ~InRoute(rt, s)
    <2>1. k \in DOMAIN rt => at = {} BY <1>2, InNodes DEF InRoute
    <2>2. new = rt BY <2>1 DEF RouteTableWithout
    <2> QED BY <1>2, <2>2
  <1>3. CASE InRoute(rt, s)
    <2>1. k \in DOMAIN rt /\ TableOK(k, r, st) /\ r \in Route
      BY <1>3 DEF InRoute, RoutesOK, TableOK
    <2>2. PICK i \in DOMAIN r.tab : r.tab[i] = s
      BY <1>3, InNodes DEF InRoute
    <2>3. at = {i} /\ i \in Nat /\ MinOf(at) = i
      <3>1. at = {i} BY <2>1, <2>2 DEF TableOK
      <3>2. i \in Nat BY <2>1, <2>2, RouteFields
      <3> QED BY <3>1, <3>2, MinOfOne
    <2>4. CASE Len(r.tab) = 1
      <3>1. new = Erase(rt, k)
        BY <2>1, <2>3, <2>4 DEF RouteTableWithout
      <3>2. \A x \in Svr : KindOf[x] = k /\ InRoute(rt, x) => x = s
        <4>1. DOMAIN r.tab = 1 .. 1 BY <2>1, <2>4, RouteFields
        <4>2. Nodes(r.tab) = {s} BY <4>1, <2>2 DEF Nodes
        <4> QED BY <4>2 DEF InRoute
      <3> QED BY <3>1, <3>2, RoutesErase
    <2>5. CASE Len(r.tab) # 1
      <3> DEFINE q == [r EXCEPT !.tab = Without(r.tab, i)]
      <3>1. TableOK(k, q, st) BY <2>1, <2>5, WithoutOK
      <3>2. q.tab = Without(r.tab, i) BY <2>1 DEF Route
      <3>3. Nodes(Without(r.tab, i)) = Nodes(r.tab) \ {s}
        <4>1. ASSUME NEW t, t = r.tab PROVE Nodes(Without(t, i)) = Nodes(t) \ {t[i]}
          <5>1. /\ t \in Seq(Svr) /\ i \in DOMAIN t /\ Len(t) # 1
                /\ \A a, b \in DOMAIN t : t[a] = t[b] => a = b
            BY <4>1, <2>1, <2>5, RouteFields DEF TableOK
          <5> QED BY <5>1, WithoutFacts
        <4> QED BY <4>1, <2>2
      <3>4. new = Put(rt, k, q)
        <4>1. new = [rt EXCEPT ![k].tab = Without(r.tab, i)]
          BY <2>1, <2>3, <2>5, Zenon DEF RouteTableWithout
        <4>2. [rt EXCEPT ![k].tab = Without(r.tab, i)] = [rt EXCEPT ![k] = q]
          OBVIOUS
        <4>3. DOMAIN rt \cup {k} = DOMAIN rt BY <2>1
        <4>4. new = [x \in DOMAIN rt |-> IF x = k THEN q ELSE rt[x]]
          BY <4>1, <4>2
        <4> QED BY <4>3, <4>4 DEF Put
      <3> HIDE DEF q
      <3>5. /\ RoutesOK(Put(rt, k, q), st)
            /\ \A x \in Svr : InRoute(Put(rt, k, q), x) <=>
                 IF KindOf[x] = k THEN x \in Nodes(q.tab) ELSE InRoute(rt, x)
        BY <1>1, <3>1, RoutesUpdate
      <3> QED BY <2>1, <3>2, <3>3, <3>4, <3>5 DEF InRoute
    <2> QED BY <2>4, <2>5
  <1> QED BY <1>2, <1>3

\* The same for the error table (DelRouteNode).
LEMMA ErrTableWithoutInv ==
  ASSUME NEW et, NEW st, ListsOK(et, st), NEW s \in Svr
  PROVE  /\ ListsOK(ErrTableWithout(et, s), st)
         /\ \A x \in Svr : InList(ErrTableWithout(et, s), x) <=> x # s /\ InList(et, x)
  <1> DEFINE k   == KindOf[s]
             new == ErrTableWithout(et, s)
  <1>1. CASE k \notin DOMAIN et
    BY <1>1 DEF ErrTableWithout, InList
  <1>2. CASE k \in DOMAIN et /\ et[k] = {s}
    BY <1>2 DEF ErrTableWithout, InList, Erase, ListsOK
  <1>3. CASE k \in DOMAIN et /\ et[k] # {s}
    <2>1. new = [et EXCEPT ![k] = et[k] \ {s}]
      BY <1>3 DEF ErrTableWithout
    <2>2. DOMAIN new = DOMAIN et /\ new[k] = et[k] \ {s}
          /\ \A c \in DOMAIN et : c # k => new[c] = et[c]
      BY <1>3, <2>1
    <2>3. ListOK(k, et[k] \ {s}, st)
      BY <1>3 DEF ListsOK, ListOK
    <2> HIDE DEF new
    <2>4. ListsOK(new, st) BY <1>3, <2>2, <2>3 DEF ListsOK
    <2>5. \A x \in Svr : InList(new, x) <=> x # s /\ InList(et, x)
      BY <1>3, <2>2 DEF InList
    <2> QED BY <2>4, <2>5 DEF new
  <1> QED BY <1>1, <1>2, <1>3

\* A deleted Svr leaves no trace in either table (DelNode, ModNode of weight 0).
LEMMA DelNodeInv ==
  ASSUME IInv, NEW s \in Svr, DelNode(s)
  PROVE  IInv'
  <1> DEFINE rt2 == RouteTableWithout(mRouteTable, s)
             et2 == ErrTableWithout(mErrTable, s)
             st2 == [stat EXCEPT ![s] = InitStat]
  <1>1. /\ known' = known \ {s} /\ mRouteTable' = rt2 /\ mErrTable' = et2
        /\ stat' = st2 /\ down' = [down EXCEPT ![s] = Up]
        /\ detect' = detect /\ svc' = svc
    BY DEF DelNode, DelRouteNode
  <1>2. /\ RoutesOK(rt2, stat)
        /\ \A x \in Svr : InRoute(rt2, x) <=> x # s /\ InRoute(mRouteTable, x)
    BY RouteTableWithoutInv DEF IInv
  <1>3. /\ ListsOK(et2, stat)
        /\ \A x \in Svr : InList(et2, x) <=> x # s /\ InList(mErrTable, x)
    BY ErrTableWithoutInv DEF IInv
  <1>4. /\ stat' \in [Svr -> Stat] /\ down' \in [Svr -> DownSince]
        /\ \A x \in Svr : x # s => st2[x] = stat[x]
    BY <1>1, InitStatType DEF IInv, DownSince, Up
  <1> HIDE DEF rt2, et2, st2
  <1>5. RoutesOK(rt2, st2)
    <2>1. \A k \in DOMAIN rt2 : \A i \in DOMAIN rt2[k].tab :
            rt2[k].tab[i] \in Svr /\ rt2[k].tab[i] # s
      BY <1>2 DEF RoutesOK, TableOK, OfKind, InRoute, Nodes
    <2> QED BY <1>2, <1>4, <2>1 DEF RoutesOK, TableOK
  <1>6. ListsOK(et2, st2)
    <2>1. \A k \in DOMAIN et2 : \A x \in et2[k] : x \in Svr /\ x # s
      BY <1>3 DEF ListsOK, ListOK, OfKind, InList
    <2> QED BY <1>3, <1>4, <2>1 DEF ListsOK, ListOK
  <1>7. Covers(known', rt2, et2)
    BY <1>1, <1>2, <1>3 DEF IInv, Covers
  <1> QED BY <1>1, <1>4, <1>5, <1>6, <1>7 DEF IInv

\* A reload leaves nothing: every node of every table is a known Svr.
LEMMA CleanNodeInv ==
  ASSUME IInv, CleanNode
  PROVE  IInv'
  <1>1. \A k \in DOMAIN mRouteTable : Nodes(mRouteTable[k].tab) \subseteq known
    BY DEF IInv, RoutesOK, TableOK, OfKind, Covers, InRoute
  <1>2. \A k \in DOMAIN mErrTable : mErrTable[k] \subseteq known
    BY DEF IInv, ListsOK, ListOK, OfKind, Covers, InList
  <1>3. DOMAIN mRouteTable' = {}
    BY <1>1 DEF CleanNode
  <1>4. DOMAIN mErrTable' = {}
    BY <1>2 DEF CleanNode
  <1>5. /\ known' = {} /\ stat' \in [Svr -> Stat] /\ down' \in [Svr -> DownSince]
        /\ detect' = detect /\ svc' = svc
    BY InitStatType DEF CleanNode, DownSince, Up
  <1> QED BY <1>3, <1>4, <1>5 DEF IInv, RoutesOK, ListsOK, Covers, InRoute, InList
-----------------------------------------------------------------------------
(* Rebuilding the routes of one kind.                                      *)

\* An arrangement of a set of Svrs is a table of exactly those.
LEMMA ArrangementFacts ==
  ASSUME NEW S, S \subseteq Svr, NEW t \in [1 .. Cardinality(S) -> S], Nodes(t) = S
  PROVE  t \in Seq(Svr) /\ (t = <<>> <=> S = {})
  <1>1. Cardinality(S) \in Nat
    <2>1. IsFiniteSet(S) BY QosAssumption, FS_Subset
    <2> QED BY <2>1, FS_CardinalityType
  <1>2. t \in [1 .. Cardinality(S) -> Svr]
    OBVIOUS
  <1>3. t \in Seq(Svr)
    BY <1>1, <1>2, SeqDef
  <1>4. t = <<>> => S = {}
    <2>1. DOMAIN <<>> = {} OBVIOUS
    <2> QED BY <2>1, InNodes
  <1>5. S = {} => t = <<>>
    <2>1. S = {} => DOMAIN t = {} BY InNodes
    <2>2. DOMAIN t = {} => Len(t) = 0 BY <1>3, LenProperties
    <2> QED BY <1>3, <2>1, <2>2, EmptySeq
  <1> QED BY <1>3, <1>4, <1>5

\* Asking for probes keeps the detect thread's answers in their range.
LEMMA AddDetectType ==
  ASSUME NEW S, NEW dn, detect \in [Host -> Detected]
  PROVE  AddDetect(S, dn) \in [Host -> Detected]
  BY DEF AddDetect, Detected

\* What is left to show of a rebuild that changes the entries of kind k only:
\* a new table R (none: empty) and a new error list L of the same Svrs.
LEMMA KindStep ==
  ASSUME IInv, NEW k \in Kind, NEW R, NEW L, NEW r,
         known' = known, stat' \in [Svr -> Stat], down' \in [Svr -> DownSince],
         detect' \in [Host -> Detected], svc' \in {Idle} \cup Busy,
         \A s \in Svr : KindOf[s] # k =>
            stat'[s].load = stat[s].load /\ stat'[s].limit = stat[s].limit,
         R \cap L = {},
         \A s \in OfKind(k) : s \in R \cup L <=>
            InRoute(mRouteTable, s) \/ InList(mErrTable, s),
         \/ R = {} /\ mRouteTable' = Erase(mRouteTable, k)
         \/ R = {} /\ k \notin DOMAIN mRouteTable /\ mRouteTable' = mRouteTable
         \/ TableOK(k, r, stat') /\ Nodes(r.tab) = R /\ mRouteTable' = Put(mRouteTable, k, r),
         L = {} \/ ListOK(k, L, stat'),
         mErrTable' = IF L = {} THEN Erase(mErrTable, k) ELSE Put(mErrTable, k, L)
  PROVE  IInv'
  <1> DEFINE rt == mRouteTable'
             et == mErrTable'
             st == stat'
  <1>1. /\ RoutesOK(rt, st)
        /\ \A s \in Svr : InRoute(rt, s) <=>
             IF KindOf[s] = k THEN s \in R ELSE InRoute(mRouteTable, s)
    <2>0. RoutesOK(mRouteTable, stat) BY DEF IInv
    <2>1. CASE R = {} /\ mRouteTable' = Erase(mRouteTable, k)
      <3>1. /\ RoutesOK(Erase(mRouteTable, k), st)
            /\ \A s \in Svr : InRoute(Erase(mRouteTable, k), s) <=>
                 KindOf[s] # k /\ InRoute(mRouteTable, s)
        BY <2>0, RoutesErase
      <3> QED BY <2>1, <3>1
    <2>2. CASE TableOK(k, r, stat') /\ Nodes(r.tab) = R /\ mRouteTable' = Put(mRouteTable, k, r)
      <3>1. /\ RoutesOK(Put(mRouteTable, k, r), st)
            /\ \A s \in Svr : InRoute(Put(mRouteTable, k, r), s) <=>
                 IF KindOf[s] = k THEN s \in Nodes(r.tab) ELSE InRoute(mRouteTable, s)
        BY <2>0, <2>2, RoutesUpdate
      <3> QED BY <2>2, <3>1
    <2>3. CASE R = {} /\ k \notin DOMAIN mRouteTable /\ mRouteTable' = mRouteTable
      <3>1. \A c \in DOMAIN mRouteTable : TableOK(c, mRouteTable[c], st)
        <4>1. \A c \in DOMAIN mRouteTable : \A s \in OfKind(c) : st[s].load = stat[s].load
          BY <2>3 DEF OfKind
        <4> QED BY <2>0, <4>1, TableFrame DEF RoutesOK
      <3> QED BY <2>0, <2>3, <3>1 DEF RoutesOK, InRoute
    <2> QED BY <2>1, <2>2, <2>3
  <1>2. /\ ListsOK(et, st)
        /\ \A s \in Svr : InList(et, s) <=>
             IF KindOf[s] = k THEN s \in L ELSE InList(mErrTable, s)
    <2>1. ListsOK(mErrTable, stat) BY DEF IInv
    <2>2. \A s \in Svr : KindOf[s] # k => st[s].limit = stat[s].limit
      OBVIOUS
    <2>3. CASE L = {}
      <3>1. /\ ListsOK(Erase(mErrTable, k), st)
            /\ \A s \in Svr : InList(Erase(mErrTable, k), s) <=>
                 KindOf[s] # k /\ InList(mErrTable, s)
        BY <2>1, <2>2, ListsErase
      <3> QED BY <2>3, <3>1
    <2>4. CASE L # {}
      <3>1. /\ ListsOK(Put(mErrTable, k, L), st)
            /\ \A s \in Svr : InList(Put(mErrTable, k, L), s) <=>
                 IF KindOf[s] = k THEN s \in L ELSE InList(mErrTable, s)
        BY <2>1, <2>2, <2>4, ListsUpdate
      <3> QED BY <2>4, <3>1
    <2> QED BY <2>3, <2>4
  <1>3. Covers(known', rt, et)
    <2>1. \A s \in Svr : KindOf[s] = k => s \in OfKind(k) BY DEF OfKind
    <2> HIDE DEF rt, et
    <2> QED BY <1>1, <1>2, <2>1 DEF IInv, Covers
  <1> QED BY <1>1, <1>2, <1>3 DEF IInv

\* A kind without a table gets one of the nodes that come back, all of load
\* 1, and keeps the others down (RebuildRoute's first branch).
LEMMA RebuildAllDownInv ==
  ASSUME IInv, NEW k \in Kind, RebuildAllDown(k), known' = known, svc' \in {Idle} \cup Busy
  PROVE  IInv'
  <1> DEFINE back == Back(ErrNodes(k), down, TRUE)
             left == ErrNodes(k) \ back
  <1>1. PICK avg \in AvgErrRates, t \in [1 .. Cardinality(back) -> back] :
          /\ Nodes(t) = back
          /\ \A i, j \in DOMAIN t : i < j => t[i] # t[j]
          /\ mRouteTable' = IF back = {} THEN mRouteTable
                            ELSE Put(mRouteTable, k, FreshRoute(t, DefaultRebuildTm))
          /\ stat' = [s \in Svr |->
                        IF s \in back THEN Recovered(stat[s], 1, avg) ELSE stat[s]]
    <2> DEFINE Step(avg, t) ==
                 /\ mRouteTable' = IF back = {} THEN mRouteTable
                                   ELSE Put(mRouteTable, k, FreshRoute(t, DefaultRebuildTm))
                 /\ stat' = [s \in Svr |->
                               IF s \in back THEN Recovered(stat[s], 1, avg) ELSE stat[s]]
    <2>1. \E avg \in AvgErrRates, t \in Tables(back, Unordered) : Step(avg, t)
      BY Zenon DEF RebuildAllDown
    <2> HIDE DEF Step, back
    <2>2. PICK avg \in AvgErrRates, t \in Tables(back, Unordered) : Step(avg, t)
      BY <2>1
    <2>3. /\ t \in [1 .. Cardinality(back) -> back] /\ Nodes(t) = back
          /\ \A i, j \in DOMAIN t : i < j => t[i] # t[j]
      BY <2>2 DEF Tables, Unordered
    <2>4. \A i, j \in DOMAIN t : i < j => t[i] # t[j] BY <2>3
    <2> QED BY <2>2, <2>3 DEF Step, back
  <1>2. /\ k \notin DOMAIN mRouteTable
        /\ mErrTable' = ErrLeft(k, left)
        /\ detect' = AddDetect(ErrNodes(k), down)
        /\ down' = [s \in Svr |-> IF s \in back THEN Up ELSE down[s]]
    BY DEF RebuildAllDown
  <1>3. ErrNodes(k) \subseteq OfKind(k) /\ back \subseteq ErrNodes(k)
    BY NodesOfKind DEF IInv, Back
  <1>4. avg \in Nat /\ 1 \in Nat
    BY <1>1, QosAssumption, Positive
  <1>5. /\ stat' \in [Svr -> Stat]
        /\ \A s \in Svr : IF s \in back THEN stat'[s].load = 1 ELSE stat'[s] = stat[s]
    BY <1>1, <1>4, RecoveredType DEF IInv
  <1>6. down' \in [Svr -> DownSince] /\ detect' \in [Host -> Detected]
    <2>1. detect \in [Host -> Detected] /\ down \in [Svr -> DownSince] BY DEF IInv
    <2>2. AddDetect(ErrNodes(k), down) \in [Host -> Detected] BY <2>1, AddDetectType
    <2>3. Up \in DownSince BY DEF Up, DownSince
    <2> QED BY <1>2, <2>1, <2>2, <2>3
  <1>7. \A s \in Svr : KindOf[s] # k =>
          stat'[s].load = stat[s].load /\ stat'[s].limit = stat[s].limit
    BY <1>3, <1>5 DEF OfKind
  <1>8. \A s \in OfKind(k) : s \in back \cup left <=>
          InRoute(mRouteTable, s) \/ InList(mErrTable, s)
    BY <1>2, <1>3, NodesOfKind DEF IInv, InRoute, OfKind
  <1>9. left = {} \/ ListOK(k, left, stat')
    <2>1. \A s \in left : s \in Svr /\ stat'[s] = stat[s] /\ stat[s].limit \in 1 .. ReqMin
      BY <1>3, <1>5 DEF OfKind, ErrNodes, IInv, ListsOK, ListOK
    <2> QED BY <1>3, <2>1 DEF ListOK
  <1>10. mErrTable' = IF left = {} THEN Erase(mErrTable, k) ELSE Put(mErrTable, k, left)
    BY <1>2 DEF ErrLeft
  <1>11. \/ back = {} /\ k \notin DOMAIN mRouteTable /\ mRouteTable' = mRouteTable
         \/ /\ TableOK(k, FreshRoute(t, DefaultRebuildTm), stat')
            /\ Nodes(FreshRoute(t, DefaultRebuildTm).tab) = back
            /\ mRouteTable' = Put(mRouteTable, k, FreshRoute(t, DefaultRebuildTm))
    <2>1. CASE back = {}
      BY <1>1, <1>2, <2>1
    <2>2. CASE back # {}
      <3> DEFINE r == FreshRoute(t, DefaultRebuildTm)
      <3>1. /\ t \in [1 .. Cardinality(back) -> back] /\ Nodes(t) = back
            /\ \A i, j \in DOMAIN t : i < j => t[i] # t[j]
        BY <1>1
      <3>2. t \in Seq(Svr) /\ t # <<>>
        BY <1>3, <2>2, <3>1, ArrangementFacts DEF OfKind
      <3>3. r \in Route /\ r.tab = t
        BY <3>2, FreshRouteType, QosAssumption
      <3>4. DOMAIN t = 1 .. Len(t) /\ Len(t) \in Nat /\ \A i \in DOMAIN t : t[i] \in back
        BY <3>2, <3>1, LenProperties, InNodes
      <3>5. ASSUME NEW i \in DOMAIN t, NEW j \in DOMAIN t
            PROVE  /\ t[i] = t[j] => i = j
                   /\ i < j => stat'[t[i]].load <= stat'[t[j]].load
        <4>1. i \in Nat /\ j \in Nat BY <3>4, <3>5
        <4>2. stat'[t[i]].load = 1 /\ stat'[t[j]].load = 1
          BY <1>3, <1>5, <3>4, <3>5 DEF OfKind
        <4>3. i < j \/ j < i \/ i = j BY <4>1
        <4>4. i < j => t[i] # t[j] BY <3>1
        <4>5. j < i => t[j] # t[i] BY <3>1
        <4> QED BY <4>2, <4>3, <4>4, <4>5
      <3>6. TableOK(k, r, stat')
        <4> HIDE DEF r
        <4>1. Nodes(r.tab) \subseteq OfKind(k) BY <1>3, <3>1, <3>3
        <4>2. r.tab # <<>> BY <3>2, <3>3
        <4> QED BY <3>3, <3>5, <4>1, <4>2, Zenon DEF TableOK
      <3> QED BY <1>1, <2>2, <3>1, <3>3, <3>6
    <2> QED BY <2>1, <2>2
  <1>12. back \cap left = {} OBVIOUS
  <1> HIDE DEF back, left
  <1>13. ASSUME NEW r, r = FreshRoute(t, DefaultRebuildTm) PROVE IInv'
    <2>1. \/ back = {} /\ mRouteTable' = Erase(mRouteTable, k)
          \/ back = {} /\ k \notin DOMAIN mRouteTable /\ mRouteTable' = mRouteTable
          \/ TableOK(k, r, stat') /\ Nodes(r.tab) = back /\ mRouteTable' = Put(mRouteTable, k, r)
      BY <1>11, <1>13
    <2>2. known' = known /\ stat' \in [Svr -> Stat] /\ svc' \in {Idle} \cup Busy
      BY <1>5
    <2> QED BY <1>6, <1>7, <1>8, <1>9, <1>10, <1>12, <2>1, <2>2, KindStep, Zenon
  <1> QED BY <1>13

\* A step that leaves the tables, the loads and the limits alone.
LEMMA QuietStep ==
  ASSUME IInv, known' = known, stat' \in [Svr -> Stat], down' \in [Svr -> DownSince],
         detect' \in [Host -> Detected], svc' \in {Idle} \cup Busy,
         \A s \in Svr : stat'[s].load = stat[s].load /\ stat'[s].limit = stat[s].limit,
         mErrTable' = mErrTable, DOMAIN mRouteTable' = DOMAIN mRouteTable,
         \A k \in DOMAIN mRouteTable :
            mRouteTable'[k] \in Route /\ mRouteTable'[k].tab = mRouteTable[k].tab
  PROVE  IInv'
  <1>1. RoutesOK(mRouteTable', stat')
    <2>1. RoutesOK(mRouteTable, stat') BY RoutesFrame DEF IInv
    <2> QED BY <2>1 DEF RoutesOK, TableOK
  <1>2. ListsOK(mErrTable', stat')
    BY ListsFrame DEF IInv
  <1>3. Covers(known', mRouteTable', mErrTable')
    BY DEF IInv, Covers, InRoute
  <1> QED BY <1>1, <1>2, <1>3 DEF IInv

\* Only the time of the last rebuild is set, if anything.
LEMMA RebuildNotDueInv ==
  ASSUME IInv, NEW k \in Kind, RebuildNotDue(k), known' = known, svc' \in {Idle} \cup Busy
  PROVE  IInv'
  <1>1. /\ stat' = stat /\ mErrTable' = mErrTable /\ down' = down /\ detect' = detect
        /\ \/ mRouteTable' = mRouteTable
           \/ mRouteTable' = [mRouteTable EXCEPT ![k].age = 0]
    BY DEF RebuildNotDue
  <1>2. \A c \in DOMAIN mRouteTable :
          /\ mRouteTable[c] \in Route
          /\ [mRouteTable[c] EXCEPT !.age = 0] \in Route
          /\ [mRouteTable[c] EXCEPT !.age = 0].tab = mRouteTable[c].tab
    BY DEF IInv, RoutesOK, TableOK, Route
  <1>3. /\ DOMAIN mRouteTable' = DOMAIN mRouteTable
        /\ \A c \in DOMAIN mRouteTable :
             mRouteTable'[c] \in Route /\ mRouteTable'[c].tab = mRouteTable[c].tab
    BY <1>1, <1>2
  <1>4. stat' \in [Svr -> Stat] /\ down' \in [Svr -> DownSince] /\ detect' \in [Host -> Detected]
    BY <1>1 DEF IInv
  <1> QED BY <1>1, <1>3, <1>4, QuietStep

\* The end of a period moves nodes between the two tables and reorders them:
\* nobody is lost, kept twice or out of order, and whoever is down is at the
\* minimum limit (RebuildRoute, RebuildErrRoute).
LEMMA RebuildWithInv ==
  ASSUME IInv, NEW k \in DOMAIN mRouteTable,
         NEW load \in [Nodes(mRouteTable[k].tab) -> Loads],
         NEW delay \in [Nodes(mRouteTable[k].tab) -> DelayLoads],
         NEW avg \in AvgErrRates, NEW high \in Nat,
         RebuildWith(k, load, delay, avg, high), known' = known, svc' \in {Idle} \cup Busy
  PROVE  IInv'
  <1> DEFINE tab   == mRouteTable[k].tab
             old   == Nodes(tab)
             pos   == [s \in old |-> MinOf({i \in DOMAIN tab : tab[i] = s})]
             calls == Total(tab, LAMBDA s : stat[s].reqAll - stat[s].rej)
             after == [s \in Svr |->
                         IF s \in old
                         THEN [ReqRebuild(stat[s], delay[s]) EXCEPT !.load = load[s]]
                         ELSE stat[s]]
             kept  == {s \in old : Selectable(after[s])}
             errs  == ErrNodes(k) \cup (old \ kept)
             dn    == [s \in Svr |->
                         IF s \in old \ kept THEN Stopped(s)
                         ELSE IF s \in ErrNodes(k)
                              THEN [down[s] EXCEPT !.req = Saturated(@ + calls)]
                              ELSE down[s]]
             back  == Back(errs, dn, kept = {})
             left  == errs \ back
             st    == [s \in Svr |->
                         IF s \notin back THEN after[s]
                         ELSE IF kept = {} THEN Recovered(after[s], 1, avg)
                         ELSE Recovered(after[s], high, after[s].avgErr)]
             Before(a, b) == \/ st[a].load < st[b].load
                             \/ /\ st[a].load = st[b].load
                                /\ a \in kept
                                /\ b \in kept => pos[a] < pos[b]
             Moved(t) == mRouteTable' = IF t = <<>> THEN Erase(mRouteTable, k)
                                        ELSE [mRouteTable EXCEPT ![k].tab = t, ![k].age = 0,
                                                                 ![k].index = 0]
  <1>1. /\ stat' = st
        /\ down' = [s \in Svr |-> IF s \in back THEN Up ELSE dn[s]]
        /\ detect' = AddDetect(errs, dn)
        /\ mErrTable' = ErrLeft(k, left)
        /\ \E t \in Tables(kept \cup back, Before) : Moved(t)
    BY Zenon DEF RebuildWith
  <1>2. PICK t \in [1 .. Cardinality(kept \cup back) -> kept \cup back] :
          /\ Moved(t)
          /\ Nodes(t) = kept \cup back
          /\ \A i, j \in DOMAIN t : i < j => t[i] # t[j] /\ ~(st[t[j]].load < st[t[i]].load)
    <2>1. PICK t \in Tables(kept \cup back, Before) : Moved(t)
      BY <1>1
    <2> HIDE DEF Moved, kept, back, st, pos
    <2>2. /\ t \in [1 .. Cardinality(kept \cup back) -> kept \cup back]
          /\ Nodes(t) = kept \cup back
          /\ \A i, j \in DOMAIN t : i < j => t[i] # t[j] /\ ~Before(t[j], t[i])
      BY <2>1, Zenon DEF Tables
    <2>3. \A i, j \in DOMAIN t : i < j => t[i] # t[j] /\ ~(st[t[j]].load < st[t[i]].load)
      BY <2>2
    <2> QED BY <2>1, <2>2, <2>3
  <1> HIDE DEF Before, pos, calls
  <1>3. /\ RoutesOK(mRouteTable, stat) /\ ListsOK(mErrTable, stat)
        /\ stat \in [Svr -> Stat] /\ down \in [Svr -> DownSince]
        /\ detect \in [Host -> Detected]
    BY DEF IInv
  <1>4. /\ k \in Kind /\ TableOK(k, mRouteTable[k], stat) /\ mRouteTable[k] \in Route
        /\ old \subseteq OfKind(k) /\ old = RouteNodes(k)
        /\ ErrNodes(k) \subseteq OfKind(k) /\ OfKind(k) \subseteq Svr
        /\ old \cap ErrNodes(k) = {}
    <2>1. k \in Kind /\ TableOK(k, mRouteTable[k], stat) BY <1>3 DEF RoutesOK
    <2>2. old = RouteNodes(k) BY DEF RouteNodes
    <2>3. OfKind(k) \subseteq Svr BY DEF OfKind
    <2> HIDE DEF old
    <2>4. old \subseteq OfKind(k) /\ ErrNodes(k) \subseteq OfKind(k) BY <1>3, <2>2, NodesOfKind
    <2>5. old \cap ErrNodes(k) = {}
      BY <1>3, <2>2, <2>3, <2>4, NodesOfKind DEF IInv, Covers
    <2> QED BY <2>1, <2>2, <2>3, <2>4, <2>5 DEF TableOK
  <1>5. /\ load \in [old -> Nat] /\ delay \in [old -> Nat \ {0}]
        /\ avg \in Nat /\ high \in Nat /\ 1 \in Nat
    BY QosAssumption, Positive
  <1> HIDE DEF old, tab
  \* The records at the end of the period.
  <1>6. /\ after \in [Svr -> Stat]
        /\ \A s \in Svr : s \notin old => after[s] = stat[s]
        /\ \A s \in old \ kept : after[s].limit \in 1 .. ReqMin
    <2>1. ASSUME NEW s \in old PROVE after[s] \in Stat
      <3>1. ReqRebuild(stat[s], delay[s]) \in Stat
        BY <1>3, <1>4, <1>5, ReqRebuildType
      <3>2. s \in Svr /\ load[s] \in Nat BY <1>4, <1>5
      <3> QED BY <3>1, <3>2 DEF Stat
    <2>2. \A s \in Svr : s \notin old => after[s] = stat[s] OBVIOUS
    <2>3. after \in [Svr -> Stat] BY <1>3, <2>1, <2>2
    <2> HIDE DEF after
    <2>4. \A s \in old \ kept : after[s].limit \in Nat /\ after[s].limit # 0
                                /\ ~(after[s].limit > ReqMin)
      BY <1>4, <2>3, StatIsLoose DEF Selectable
    <2> QED BY <2>2, <2>3, <2>4, Positive
  <1> HIDE DEF after
  \* Who moves where.
  <1>7. /\ kept \subseteq old /\ errs = ErrNodes(k) \cup (old \ kept)
        /\ back \subseteq errs /\ kept \cap errs = {}
    BY <1>4 DEF Back
  <1>8. dn \in [Svr -> DownSince]
    <2>1. \A n : Saturated(n) \in Int BY QosAssumption DEF Saturated
    <2>2. \A s \in Svr : [down[s] EXCEPT !.req = Saturated(@ + calls)] \in DownSince
      BY <1>3, <2>1 DEF DownSince
    <2>3. \A s \in Svr : Stopped(s) \in DownSince BY DEF Stopped, Up, DownSince
    <2> QED BY <1>3, <2>2, <2>3
  <1> HIDE DEF kept, errs, dn
  <1> HIDE DEF back
  <1>9. /\ st \in [Svr -> Stat]
        /\ \A s \in Svr : s \notin back => st[s] = after[s]
    <2>1. \A s \in Svr : after[s] \in Stat /\ after[s].avgErr \in Nat
      BY <1>6, StatIsLoose, Fields
    <2>2. \A s \in Svr : /\ Recovered(after[s], 1, avg) \in Stat
                         /\ Recovered(after[s], high, after[s].avgErr) \in Stat
      BY <1>5, <2>1, RecoveredType
    <2> QED BY <2>1, <2>2
  <1>10. stat' \in [Svr -> Stat] /\ stat' = st
    BY <1>1, <1>9
  <1> HIDE DEF st
  <1>11. down' \in [Svr -> DownSince] /\ detect' \in [Host -> Detected]
    <2>1. AddDetect(errs, dn) \in [Host -> Detected] BY <1>3, AddDetectType
    <2>2. Up \in DownSince BY DEF Up, DownSince
    <2> QED BY <1>1, <1>8, <2>1, <2>2
  <1>12. \A s \in Svr : KindOf[s] # k =>
           stat'[s].load = stat[s].load /\ stat'[s].limit = stat[s].limit
    <2>1. \A s \in Svr : KindOf[s] # k => s \notin old /\ s \notin back
      BY <1>4, <1>7 DEF OfKind
    <2> QED BY <2>1, <1>6, <1>9, <1>10
  <1>13. /\ (kept \cup back) \cap left = {}
         /\ (kept \cup back) \cup left = old \cup ErrNodes(k)
    BY <1>7
  <1>14. \A s \in OfKind(k) : s \in (kept \cup back) \cup left <=>
           InRoute(mRouteTable, s) \/ InList(mErrTable, s)
    BY <1>3, <1>4, <1>13, NodesOfKind
  <1>15. left = {} \/ ListOK(k, left, stat')
    <2>1. \A s \in left : s \in OfKind(k) /\ s \in Svr /\ stat'[s] = after[s]
      BY <1>4, <1>7, <1>9, <1>10
    <2>2. \A s \in left : after[s].limit \in 1 .. ReqMin
      <3>1. \A s \in ErrNodes(k) : stat[s].limit \in 1 .. ReqMin
        BY <1>3 DEF ErrNodes, ListsOK, ListOK
      <3>2. \A s \in left : s \in old \ kept \/ (s \in ErrNodes(k) /\ s \notin old /\ s \in Svr)
        BY <1>4, <1>7
      <3> QED BY <1>6, <3>1, <3>2
    <2> QED BY <2>1, <2>2 DEF ListOK
  <1>16. mErrTable' = IF left = {} THEN Erase(mErrTable, k) ELSE Put(mErrTable, k, left)
    BY <1>1 DEF ErrLeft
  <1> DEFINE r == [mRouteTable[k] EXCEPT !.tab = t, !.age = 0, !.index = 0]
  <1>17. \/ kept \cup back = {} /\ mRouteTable' = Erase(mRouteTable, k)
         \/ /\ TableOK(k, r, stat') /\ Nodes(r.tab) = kept \cup back
            /\ mRouteTable' = Put(mRouteTable, k, r)
    <2>1. kept \cup back \subseteq OfKind(k) /\ kept \cup back \subseteq Svr
      BY <1>4, <1>7
    <2>2. t \in Seq(Svr) /\ (t = <<>> <=> kept \cup back = {})
      <3>1. ASSUME NEW S, S = kept \cup back
            PROVE  t \in Seq(Svr) /\ (t = <<>> <=> S = {})
        BY <1>2, <2>1, <3>1, ArrangementFacts
      <3> QED BY <3>1
    <2>3. CASE t = <<>>
      BY <1>2, <2>2, <2>3
    <2>4. CASE t # <<>>
      <3>1. r \in Route /\ r.tab = t
        BY <1>4, <2>2 DEF Route
      <3>2. mRouteTable' = Put(mRouteTable, k, r)
        <4>1. mRouteTable' = [mRouteTable EXCEPT ![k].tab = t, ![k].age = 0, ![k].index = 0]
          BY <1>2, <2>4
        <4>2. mRouteTable' = [mRouteTable EXCEPT ![k] = r]
          BY <4>1
        <4>3. DOMAIN mRouteTable \cup {k} = DOMAIN mRouteTable OBVIOUS
        <4> HIDE DEF r
        <4> QED BY <4>2, <4>3 DEF Put
      <3>3. DOMAIN t = 1 .. Len(t) /\ Len(t) \in Nat /\ \A i \in DOMAIN t : t[i] \in Svr
        BY <2>2, LenProperties
      <3>4. ASSUME NEW i \in DOMAIN t, NEW j \in DOMAIN t
            PROVE  /\ t[i] = t[j] => i = j
                   /\ i < j => stat'[t[i]].load <= stat'[t[j]].load
        <4>1. i \in Nat /\ j \in Nat BY <3>3
        <4>2. i < j \/ j < i \/ i = j BY <4>1
        <4>3. i < j => t[i] # t[j] /\ ~(st[t[j]].load < st[t[i]].load) BY <1>2
        <4>4. j < i => t[j] # t[i] BY <1>2
        <4>5. st[t[i]].load \in Nat /\ st[t[j]].load \in Nat
          BY <1>9, <3>3, StatIsLoose, Fields
        <4> QED BY <1>10, <4>2, <4>3, <4>4, <4>5
      <3>5. Nodes(r.tab) = kept \cup back BY <1>2, <3>1
      <3> HIDE DEF r
      <3>6. r.tab # <<>> /\ Nodes(r.tab) \subseteq OfKind(k)
        BY <2>1, <2>4, <3>1, <3>5
      <3>7. TableOK(k, r, stat')
        BY <3>1, <3>4, <3>6, Zenon DEF TableOK
      <3> QED BY <3>2, <3>5, <3>7
    <2> QED BY <2>3, <2>4
  <1> HIDE DEF r, left
  <1>18. ASSUME NEW R, R = kept \cup back, NEW q, q = r PROVE IInv'
    <2>1. /\ R \cap left = {}
          /\ \A s \in OfKind(k) : s \in R \cup left <=>
               InRoute(mRouteTable, s) \/ InList(mErrTable, s)
          /\ k \in Kind
      BY <1>4, <1>13, <1>14, <1>18
    <2>2. \/ R = {} /\ mRouteTable' = Erase(mRouteTable, k)
          \/ R = {} /\ k \notin DOMAIN mRouteTable /\ mRouteTable' = mRouteTable
          \/ TableOK(k, q, stat') /\ Nodes(q.tab) = R /\ mRouteTable' = Put(mRouteTable, k, q)
      BY <1>17, <1>18
    <2>3. known' = known /\ svc' \in {Idle} \cup Busy
      OBVIOUS
    <2> QED BY <1>10, <1>11, <1>12, <1>15, <1>16, <2>1, <2>2, <2>3, KindStep, Zenon
  <1> QED BY <1>18

\* Any rebuild preserves IInv.
LEMMA RebuildRouteInv ==
  ASSUME IInv, NEW k \in Kind, RebuildRoute(k), known' = known, svc' \in {Idle} \cup Busy
  PROVE  IInv'
  <1>1. CASE RebuildAllDown(k) BY <1>1, RebuildAllDownInv
  <1>2. CASE RebuildNotDue(k) BY <1>2, RebuildNotDueInv
  <1>3. CASE RebuildDue(k)
    <2>1. /\ k \in DOMAIN mRouteTable
          /\ \E load \in [Nodes(mRouteTable[k].tab) -> Loads],
                delay \in [Nodes(mRouteTable[k].tab) -> DelayLoads], avg \in AvgErrRates :
               \E high \in Highest({load[s] : s \in Nodes(mRouteTable[k].tab)}) :
                  RebuildWith(k, load, delay, avg, high)
      BY <1>3, Zenon DEF RebuildDue
    <2>2. PICK load \in [Nodes(mRouteTable[k].tab) -> Loads],
               delay \in [Nodes(mRouteTable[k].tab) -> DelayLoads], avg \in AvgErrRates :
             \E high \in Highest({load[s] : s \in Nodes(mRouteTable[k].tab)}) :
                RebuildWith(k, load, delay, avg, high)
      BY <2>1, Zenon
    <2>3. PICK high \in Highest({load[s] : s \in Nodes(mRouteTable[k].tab)}) :
             RebuildWith(k, load, delay, avg, high)
      BY <2>2, Zenon
    <2>4. high \in Nat BY QosAssumption DEF Highest
    <2> QED BY <2>1, <2>3, <2>4, RebuildWithInv, Zenon
  <1> QED BY <1>1, <1>2, <1>3 DEF RebuildRoute

-----------------------------------------------------------------------------
(* The other steps.                                                        *)

\* A set of natural numbers has a least element (used for the scan's start).
LEMMA MinOfNat ==
  ASSUME NEW S, S \subseteq Nat, S # {}
  PROVE  MinOf(S) \in S
  <1>1. PICK x \in S : \A y \in S : ~(<<y, x>> \in OpToRel(<, Nat))
    BY NatLessThanWellFounded, WFMin
  <1>2. \A y \in S : ~(y < x)
    <2>1. \A y \in S : y < x => <<y, x>> \in OpToRel(<, Nat)
      BY DEF OpToRel
    <2> QED BY <1>1, <2>1
  <1>3. \A y \in S : x <= y
    BY <1>2
  <1> QED BY <1>3 DEF MinOf

\* A scan gives out or rejects a call: counters and mPindex change.
LEMMA SelectInv == ASSUME IInv, Select PROVE IInv'
  <1> DEFINE k == svc.kind
             t == mRouteTable[k].tab
  <1>1. /\ known' = known /\ mErrTable' = mErrTable /\ down' = down /\ detect' = detect
        /\ svc' \in {Idle} \cup Busy
        /\ down' \in [Svr -> DownSince] /\ detect' \in [Host -> Detected]
    BY DEF Select, IInv
  <1>2. CASE stat' = stat /\ mRouteTable' = mRouteTable
    BY <1>1, <1>2 DEF IInv
  <1>3. CASE k \in DOMAIN mRouteTable /\ t # <<>> /\ SelectFrom(k)
    <2> DEFINE Same(s) == /\ stat'[s] \in Stat
                          /\ stat'[s].load = stat[s].load /\ stat'[s].limit = stat[s].limit
    <2>1. /\ stat' \in [Svr -> Stat] /\ \A s \in Svr : Same(s)
          /\ \E i \in Nat : mRouteTable' = [mRouteTable EXCEPT ![k].index = i]
      <3> DEFINE n       == Len(t)
                 start   == StartAt(t, mRouteTable[k].index)
                 at(j)   == (start + j) % n
                 accepts == {j \in 0 .. n - 1 : ~Refuses(stat[Node(t, at(j))])}
                 tried   == IF accepts = {} THEN 0 .. n - 1 ELSE 0 .. MinOf(accepts) - 1
                 refused == {Node(t, at(j)) : j \in tried}
                 one     == Node(t, at(MinOf(accepts)))
                 st      == [s \in Svr |->
                               IF s = one THEN Granted(stat[s])
                               ELSE IF s \in refused THEN Refused(stat[s]) ELSE stat[s]]
      <3>1. \A s \in Svr : \A x \in {stat[s], Granted(stat[s]), Refused(stat[s]),
                                     [Refused(stat[s]) EXCEPT !.rej = @ + 1]} :
              x \in Stat /\ x.load = stat[s].load /\ x.limit = stat[s].limit
        <4>1. \A s \in Svr : stat[s] \in Stat
          BY DEF IInv
        <4>2. ASSUME NEW s \in Svr, NEW x \in {Granted(stat[s]), Refused(stat[s]),
                                              [Refused(stat[s]) EXCEPT !.rej = @ + 1]}
              PROVE  x \in Stat /\ x.load = stat[s].load /\ x.limit = stat[s].limit
          <5> DEFINE a == stat[s]
          <5>1. a \in Stat
            BY <4>1
          <5> HIDE DEF a
          <5>2. \A y \in {Granted(a), Refused(a), [Refused(a) EXCEPT !.rej = @ + 1]} :
                  y \in Stat /\ y.load = a.load /\ y.limit = a.limit
            BY <5>1, CountersType
          <5> QED BY <5>2 DEF a
        <4> QED BY <4>1, <4>2
      <3>2. n \in Nat /\ n > 0 /\ start \in Nat
        <4>1. t \in Seq(Svr) /\ mRouteTable[k].index \in Nat
          BY <1>3, RouteFields DEF IInv, RoutesOK, TableOK
        <4>2. n \in Nat /\ n > 0 BY <1>3, <4>1, LenProperties, EmptySeq
        <4>3. start \in Nat
          <5> DEFINE from    == IF mRouteTable[k].index < n THEN mRouteTable[k].index ELSE 0
                     lighter == {i \in from .. n - 1 : Work(stat, t, i) < Work(stat, t, 0)}
          <5>1. start = IF from = 0 \/ lighter = {} THEN 0 ELSE MinOf(lighter)
            BY Zenon DEF StartAt
          <5>2. lighter \subseteq Nat BY <4>1, <4>2
          <5> HIDE DEF lighter, from, start
          <5>3. lighter # {} => MinOf(lighter) \in Nat BY <5>2, MinOfNat
          <5> QED BY <5>1, <5>3
        <4> QED BY <4>2, <4>3
      <3> HIDE DEF n, start
      <3>3. CASE accepts = {}
        <4>1. /\ stat' = [s \in Svr |->
                            IF s \notin refused THEN stat[s]
                            ELSE [Refused(stat[s]) EXCEPT
                                    !.rej = IF s = Node(t, start) THEN @ + 1 ELSE @]]
              /\ mRouteTable' = [mRouteTable EXCEPT ![k].index = start]
          BY <1>3, <3>3, Zenon DEF SelectFrom, n, start
        <4> HIDE DEF refused
        <4>2. ASSUME NEW s \in Svr PROVE Same(s)
          <5>1. stat'[s] \in {stat[s], Refused(stat[s]), [Refused(stat[s]) EXCEPT !.rej = @ + 1]}
            <6>1. s \notin refused => stat'[s] = stat[s] BY <4>1
            <6>2. s \in refused /\ s = Node(t, start) =>
                    stat'[s] = [Refused(stat[s]) EXCEPT !.rej = @ + 1]
              BY <4>1
            <6>3. s \in refused /\ s # Node(t, start) =>
                    stat'[s] = [Refused(stat[s]) EXCEPT !.rej = @]
              BY <4>1
            <6>4. [Refused(stat[s]) EXCEPT !.rej = @] = Refused(stat[s])
              BY <3>1 DEF Stat
            <6> QED BY <6>1, <6>2, <6>3, <6>4
          <5> QED BY <3>1, <5>1, Zenon
        <4>3. stat' \in [Svr -> Stat]
          <5>1. DOMAIN stat' = Svr /\ stat' = [s \in Svr |-> stat'[s]] BY <4>1
          <5> HIDE DEF Same
          <5> QED BY <4>2, <5>1 DEF Same
        <4> QED BY <3>2, <4>1, <4>2, <4>3
      <3>4. CASE accepts # {}
        <4>1. /\ stat' = st
              /\ mRouteTable' = [mRouteTable EXCEPT
                                   ![k].index = NextIndex(t, start, at(MinOf(accepts)), st)]
          BY <1>3, <3>4, Zenon DEF SelectFrom, n, start
        <4> HIDE DEF refused, one
        <4>2. \A s \in Svr : stat'[s] \in {stat[s], Granted(stat[s]), Refused(stat[s])}
          BY <4>1
        <4>3. \A s \in Svr : Same(s)
          BY <3>1, <4>2, Zenon
        <4>4. stat' \in [Svr -> Stat]
          BY <4>1, <4>3
        <4>5. NextIndex(t, start, at(MinOf(accepts)), st) \in Nat
          <5>1. MinOf(accepts) \in Nat
            <6>1. accepts \subseteq Nat BY <3>2
            <6> HIDE DEF accepts
            <6> QED BY <3>4, <6>1, MinOfNat
          <5> HIDE DEF accepts
          <5> DEFINE i == at(MinOf(accepts))
          <5>2. i \in Nat BY <3>2, <5>1
          <5> HIDE DEF i
          <5>3. (i + 1) % n \in Nat BY <3>2, <5>2
          <5> QED BY <3>2, <5>3, Zenon DEF NextIndex, n, i
        <4> QED BY <4>1, <4>3, <4>4, <4>5
      <3> QED BY <3>3, <3>4
    <2>2. \A i \in Nat : \A c \in DOMAIN mRouteTable :
            /\ mRouteTable[c] \in Route
            /\ [mRouteTable[c] EXCEPT !.index = i] \in Route
            /\ [mRouteTable[c] EXCEPT !.index = i].tab = mRouteTable[c].tab
      BY DEF IInv, RoutesOK, TableOK, Route
    <2>3. /\ DOMAIN mRouteTable' = DOMAIN mRouteTable
          /\ \A c \in DOMAIN mRouteTable :
               mRouteTable'[c] \in Route /\ mRouteTable'[c].tab = mRouteTable[c].tab
      <3>1. PICK i \in Nat : mRouteTable' = [mRouteTable EXCEPT ![k].index = i]
        BY <2>1
      <3>2. mRouteTable' = [c \in DOMAIN mRouteTable |->
                              IF c = k THEN [mRouteTable[c] EXCEPT !.index = i]
                              ELSE mRouteTable[c]]
        BY <3>1
      <3> QED BY <2>2, <3>2
    <2> QED BY <1>1, <2>1, <2>3, QuietStep
  <1> QED BY <1>2, <1>3 DEF Select

\* Counting a reported outcome preserves IInv (CallerNode).
LEMMA CallerNodeInv ==
  ASSUME IInv, NEW s \in Svr, NEW ok \in BOOLEAN, CallerNode(s, ok)
  PROVE  IInv'
  <1>1. /\ known' = known /\ mErrTable' = mErrTable /\ mRouteTable' = mRouteTable
        /\ down' = down /\ detect' = detect
        /\ stat' = [stat EXCEPT ![s] = IF ok THEN Succeeded(@) ELSE Failed(@)]
        /\ svc' = [op |-> "rebuild", kind |-> KindOf[s]]
    BY DEF CallerNode
  <1>2. svc' \in {Idle} \cup Busy
    BY <1>1, KindType DEF Busy
  <1>3. stat \in [Svr -> Stat] /\ stat[s] \in Stat
    BY DEF IInv
  <1>4. \A x \in {Succeeded(stat[s]), Failed(stat[s])} :
          x \in Stat /\ x.limit = stat[s].limit /\ x.load = stat[s].load
    BY <1>3, CountersType
  <1>5. /\ stat' \in [Svr -> Stat]
        /\ \A x \in Svr : stat'[x].load = stat[x].load /\ stat'[x].limit = stat[x].limit
    BY <1>1, <1>3, <1>4
  <1>6. /\ down' \in [Svr -> DownSince] /\ detect' \in [Host -> Detected]
        /\ \A k \in DOMAIN mRouteTable : mRouteTable[k] \in Route
    BY <1>1 DEF IInv, RoutesOK, TableOK
  <1> QED BY <1>1, <1>2, <1>5, <1>6, QuietStep

\* Time passing preserves IInv: only ages change.
LEMMA TickInv == ASSUME IInv, Tick PROVE IInv'
  <1>1. /\ known' = known /\ stat' = stat /\ mErrTable' = mErrTable /\ detect' = detect
        /\ svc' = svc
        /\ mRouteTable' = [k \in DOMAIN mRouteTable |->
                             [mRouteTable[k] EXCEPT
                                !.age = Smaller(@ + 1, 2 * mRouteTable[k].period + 1)]]
        /\ down' = [s \in Svr |->
                      IF s \in ErrNodes(KindOf[s])
                      THEN [down[s] EXCEPT
                              !.age = Smaller(@ + 1, Larger(DownTime, ProbeBegin + 1))]
                      ELSE down[s]]
    BY DEF Tick
  <1>2. \A a, b \in Nat : Smaller(a + 1, b) \in Nat /\ Larger(a, b) \in Nat
    BY DEF Smaller, Larger
  <1>3. down' \in [Svr -> DownSince]
    <2>1. ASSUME NEW d \in DownSince
          PROVE  [d EXCEPT !.age = Smaller(@ + 1, Larger(DownTime, ProbeBegin + 1))] \in DownSince
      <3>1. d.age \in Nat BY DEF DownSince
      <3>2. Larger(DownTime, ProbeBegin + 1) \in Nat BY <1>2, QosAssumption
      <3>3. Smaller(d.age + 1, Larger(DownTime, ProbeBegin + 1)) \in Nat BY <1>2, <3>1, <3>2
      <3> QED BY <3>3 DEF DownSince
    <2> QED BY <1>1, <2>1 DEF IInv
  <1>4. ASSUME NEW k \in DOMAIN mRouteTable
        PROVE  mRouteTable'[k] \in Route /\ mRouteTable'[k].tab = mRouteTable[k].tab
    <2>1. mRouteTable[k] \in Route BY DEF IInv, RoutesOK, TableOK
    <2>2. mRouteTable[k].age \in Nat /\ 2 * mRouteTable[k].period + 1 \in Nat
      BY <2>1, RouteFields
    <2>3. Smaller(mRouteTable[k].age + 1, 2 * mRouteTable[k].period + 1) \in Nat
      BY <1>2, <2>2
    <2> QED BY <1>1, <2>1, <2>3 DEF Route
  <1>5. /\ DOMAIN mRouteTable' = DOMAIN mRouteTable
        /\ stat' \in [Svr -> Stat] /\ detect' \in [Host -> Detected]
        /\ svc' \in {Idle} \cup Busy
    BY <1>1 DEF IInv
  <1> QED BY <1>1, <1>3, <1>4, <1>5, QuietStep

\* A probe or a deletion in the detect thread preserves IInv.
LEMMA DetectInv ==
  ASSUME IInv, NEW h \in Host, DetectProbe(h) \/ DetectForget(h)
  PROVE  IInv'
  <1>1. /\ known' = known /\ stat' = stat /\ mRouteTable' = mRouteTable
        /\ mErrTable' = mErrTable /\ svc' = svc
    BY DEF DetectProbe, DetectForget
  <1>2. detect' \in [Host -> Detected]
    BY QosAssumption DEF DetectProbe, DetectForget, IInv, Detected
  <1>3. down' \in [Svr -> DownSince]
    <2>1. Found(h, "since") \/ Found(h, "no")
      BY DEF DetectProbe, DetectForget
    <2> QED BY <2>1 DEF Found, IInv, DownSince
  <1> QED BY <1>1, <1>2, <1>3 DEF IInv

\* Every step of the system, and a stuttering one, preserves IInv.
LEMMA NextInv == ASSUME IInv, [Next]_vars PROVE IInv'
  <1>1. CASE UNCHANGED vars
    BY <1>1 DEF vars, IInv
  <1>2. ASSUME NEW k \in Kind, QueryNode(k) PROVE IInv'
    <2>1. RebuildRoute(k) /\ known' = known /\ svc' \in {Idle} \cup Busy
      BY <1>2 DEF QueryNode, Busy
    <2> QED BY <2>1, RebuildRouteInv
  <1>3. CASE Select
    BY <1>3, SelectInv
  <1>4. ASSUME NEW s \in Svr, NEW ok \in BOOLEAN, CallerNode(s, ok) PROVE IInv'
    BY <1>4, CallerNodeInv
  <1>5. CASE CallerRebuild
    <2>1. svc.kind \in Kind
      BY <1>5 DEF CallerRebuild, IInv, Idle, Busy
    <2>2. RebuildRoute(svc.kind) /\ known' = known /\ svc' \in {Idle} \cup Busy
      BY <1>5 DEF CallerRebuild
    <2> QED BY <2>1, <2>2, RebuildRouteInv
  <1>6. ASSUME NEW s \in Svr, NEW weight, ModNode(s, weight) PROVE IInv'
    BY <1>6, DelNodeInv, SaveNodeInv DEF ModNode
  <1>7. CASE CleanNode
    BY <1>7, CleanNodeInv
  <1>8. CASE Tick
    BY <1>8, TickInv
  <1>9. ASSUME NEW h \in Host, DetectProbe(h) \/ DetectForget(h) PROVE IInv'
    BY <1>9, DetectInv
  <1> QED
    BY <1>1, <1>2, <1>3, <1>4, <1>5, <1>6, <1>7, <1>8, <1>9 DEF Next

\* IInv holds in every reachable state.
THEOREM Invariance == Spec => []IInv
  <1>1. Init => IInv BY InitInv
  <1>2. IInv /\ [Next]_vars => IInv' BY NextInv
  <1> QED BY <1>1, <1>2, PTL DEF Spec

\* The state of the engine is well formed, whatever the clients report, the
\* router thread applies and the probes find (all of SvrQos.cpp's handlers).
THEOREM TypeCorrect == Spec => []TypeOK
  <1>1. IInv => TypeOK BY Consequences
  <1> QED BY <1>1, Invariance, PTL

\* No Svr is lost or duplicated by the moves between the route table and the
\* error table (RebuildRoute, RebuildErrRoute, AllocNode, DelRouteNode).
THEOREM PartitionCorrect == Spec => []Partition
  <1>1. IInv => Partition BY Consequences
  <1> QED BY <1>1, Invariance, PTL

\* No kind is left with an empty table in either map (RebuildRoute,
\* RebuildErrRoute, DelRouteNode).
THEOREM NoEmptyTableCorrect == Spec => []NoEmptyTable
  <1>1. IInv => NoEmptyTable BY Consequences
  <1> QED BY <1>1, Invariance, PTL

\* The tables stay ordered by load, for any loads the rebuilds compute
\* (AddRouteNode, RebuildRoute, RebuildErrRoute).
THEOREM OrderedByLoadCorrect == Spec => []OrderedByLoad
  <1>1. IInv => OrderedByLoad BY Consequences
  <1> QED BY <1>1, Invariance, PTL

\* What is in the error table has a limit that was set and is at the minimum,
\* for any thresholds, even those that make no sense (RebuildRoute).
THEOREM DownAtMinimumCorrect == Spec => []DownAtMinimum
  <1>1. IInv => DownAtMinimum BY Consequences
  <1> QED BY <1>1, Invariance, PTL

-----------------------------------------------------------------------------
(* Who goes down.                                                          *)

Failing(s) == ~WithinErrMin(Settled(stat[s])) \/ stat[s].limit \in 1 .. ReqMin

\* Who is in the error table of a kind after a rebuild of it.
LEMMA ErrLeftNodes ==
  ASSUME NEW k, NEW L, mErrTable' = ErrLeft(k, L)
  PROVE  \A c : ErrNodes(c)' \subseteq IF c = k THEN L ELSE ErrNodes(c)
  BY DEF ErrLeft, ErrNodes, Put, Erase

\* The one step that takes a node out of the route table of a kind that has one.
LEMMA RebuildWithDown ==
  ASSUME IInv, ReqMin < ReqMax, NEW k \in DOMAIN mRouteTable,
         NEW load \in [Nodes(mRouteTable[k].tab) -> Loads],
         NEW delay \in [Nodes(mRouteTable[k].tab) -> DelayLoads], NEW avg, NEW high,
         RebuildWith(k, load, delay, avg, high),
         NEW s \in Svr, s \in ErrNodes(KindOf[s])', s \notin ErrNodes(KindOf[s])
  PROVE  Failing(s)
  <1> DEFINE tab   == mRouteTable[k].tab
             old   == Nodes(tab)
             calls == Total(tab, LAMBDA x : stat[x].reqAll - stat[x].rej)
             after == [x \in Svr |->
                         IF x \in old
                         THEN [ReqRebuild(stat[x], delay[x]) EXCEPT !.load = load[x]]
                         ELSE stat[x]]
             kept  == {x \in old : Selectable(after[x])}
             errs  == ErrNodes(k) \cup (old \ kept)
             dn    == [x \in Svr |->
                         IF x \in old \ kept THEN Stopped(x)
                         ELSE IF x \in ErrNodes(k)
                              THEN [down[x] EXCEPT !.req = Saturated(@ + calls)]
                              ELSE down[x]]
             back  == Back(errs, dn, kept = {})
  <1>1. mErrTable' = ErrLeft(k, errs \ back)
    BY Zenon DEF RebuildWith
  <1> HIDE DEF dn, back
  <1>2. s \in old \ kept
    <2> HIDE DEF old, kept
    <2> QED BY <1>1, ErrLeftNodes
  <1>3. stat[s] \in Stat /\ delay[s] \in Nat \ {0}
    BY <1>2, QosAssumption DEF IInv
  <1>4. ReqRebuild(stat[s], delay[s]) \in Stat
    BY <1>3, ReqRebuildType
  <1>5. after[s].limit = ReqRebuild(stat[s], delay[s]).limit
    <2>1. after[s] = [ReqRebuild(stat[s], delay[s]) EXCEPT !.load = load[s]]
      BY <1>2
    <2> QED BY <1>4, <2>1 DEF Stat
  <1>6. ~Selectable(ReqRebuild(stat[s], delay[s]))
    BY <1>2, <1>5 DEF Selectable
  <1>7. ~Selectable(stat[s]) \/ ~WithinErrMin(Settled(stat[s]))
    BY <1>3, <1>6, ReqRebuildType
  <1>8. ~Selectable(stat[s]) => stat[s].limit \in 1 .. ReqMin
    BY <1>3, StatIsLoose, Positive DEF Selectable
  <1> QED BY <1>7, <1>8 DEF Failing

\* A step that takes a node down found it failing or at the minimum: the only
\* action that adds to an error list is the end of a period, where
\* ReqRebuildType says what a node not failing keeps.
LEMMA OnlyFailingStep ==
  ASSUME IInv, ReqMin < ReqMax, Next, NEW s \in known,
         s \in RouteNodes(KindOf[s]), s \in ErrNodes(KindOf[s])'
  PROVE  Failing(s)
  <1>1. s \in Svr /\ s \notin ErrNodes(KindOf[s])
    BY NodesOfKind DEF IInv, Covers, OfKind
  <1>2. mErrTable' # mErrTable
    BY <1>1 DEF ErrNodes
  <1>3. ASSUME NEW k \in Kind, RebuildRoute(k) PROVE Failing(s)
    <2>1. CASE RebuildAllDown(k)
      <3>1. mErrTable' = ErrLeft(k, ErrNodes(k) \ Back(ErrNodes(k), down, TRUE))
        BY <2>1 DEF RebuildAllDown
      <3> QED BY <1>1, <3>1, ErrLeftNodes
    <2>2. CASE RebuildNotDue(k)
      BY <1>2, <2>2 DEF RebuildNotDue
    <2>3. CASE RebuildDue(k)
      <3>1. /\ k \in DOMAIN mRouteTable
            /\ \E load \in [Nodes(mRouteTable[k].tab) -> Loads],
                  delay \in [Nodes(mRouteTable[k].tab) -> DelayLoads], avg \in AvgErrRates :
                 \E high \in Highest({load[x] : x \in Nodes(mRouteTable[k].tab)}) :
                    RebuildWith(k, load, delay, avg, high)
        BY <2>3, Zenon DEF RebuildDue
      <3>2. PICK load \in [Nodes(mRouteTable[k].tab) -> Loads],
                 delay \in [Nodes(mRouteTable[k].tab) -> DelayLoads], avg \in AvgErrRates :
               \E high \in Highest({load[x] : x \in Nodes(mRouteTable[k].tab)}) :
                  RebuildWith(k, load, delay, avg, high)
        BY <3>1, Zenon
      <3>3. PICK high : RebuildWith(k, load, delay, avg, high)
        BY <3>2, Zenon
      <3> QED BY <1>1, <3>1, <3>3, RebuildWithDown, Zenon
    <2> QED BY <1>3, <2>1, <2>2, <2>3 DEF RebuildRoute
  <1>4. ASSUME NEW k \in Kind, QueryNode(k) PROVE Failing(s)
    BY <1>3, <1>4 DEF QueryNode
  <1>5. CASE CallerRebuild
    <2>1. svc.kind \in Kind /\ RebuildRoute(svc.kind)
      BY <1>5 DEF CallerRebuild, IInv, Idle, Busy
    <2> QED BY <1>3, <2>1
  <1>6. ASSUME NEW x \in Svr, DelNode(x) PROVE FALSE
    <2>1. mErrTable' = ErrTableWithout(mErrTable, x)
      BY <1>6 DEF DelNode, DelRouteNode
    <2>2. /\ ListsOK(mErrTable', stat)
          /\ \A y \in Svr : InList(mErrTable', y) <=> y # x /\ InList(mErrTable, y)
      BY <1>6, <2>1, ErrTableWithoutInv DEF IInv
    <2> QED BY <1>1, <2>2 DEF InList, ErrNodes
  <1>7. CASE CleanNode
    BY <1>1, <1>7 DEF CleanNode, ErrNodes
  <1>8. ASSUME NEW x \in Svr, NEW weight, ModNode(x, weight) PROVE FALSE
    BY <1>2, <1>6, <1>8 DEF ModNode, SaveNode
  <1> QED
    BY <1>2, <1>4, <1>5, <1>7, <1>8
    DEF Next, Select, CallerNode, Tick, DetectProbe, DetectForget

\* No healthy node is taken out of service: with REQ_MIN below REQ_MAX a node
\* goes down only after a period with too many errors, or with a limit at the
\* minimum already (RebuildRoute, ReqRebuild).
THEOREM OnlyFailingGoDownCorrect ==
  ASSUME ReqMin < ReqMax
  PROVE  Spec => OnlyFailingGoDown
  <1>1. IInv /\ [Next]_vars =>
          [\A s \in known : s \in RouteNodes(KindOf[s]) /\ s \in ErrNodes(KindOf[s])'
             => ~WithinErrMin(Settled(stat[s])) \/ stat[s].limit \in 1 .. ReqMin]_vars
    BY OnlyFailingStep DEF Failing
  <1> QED BY <1>1, Invariance, PTL DEF Spec, OnlyFailingGoDown

-----------------------------------------------------------------------------
(* Who comes back, and who is rejected.                                    *)

\* A set of natural numbers has a least element.
LEMMA LeastOfNat ==
  ASSUME NEW S, S \subseteq Nat, S # {}
  PROVE  \E x \in S : \A y \in S : ~(y < x)
  <1>1. PICK x \in S : \A y \in S : ~(<<y, x>> \in OpToRel(<, Nat))
    BY NatLessThanWellFounded, WFMin
  <1>2. \A y \in S : y < x => <<y, x>> \in OpToRel(<, Nat)
    BY DEF OpToRel
  <1> QED BY <1>1, <1>2

\* A sequence of numbers has its partial sums.
LEMMA SumsExist ==
  ASSUME NEW n \in Nat, NEW a \in [1 .. n -> Int]
  PROVE  \E f : f = [i \in 0 .. n |-> IF i = 0 THEN 0 ELSE f[i - 1] + a[i]]
  <1> DEFINE Sums(m, f) == f = [i \in 0 .. m |-> IF i = 0 THEN 0 ELSE f[i - 1] + a[i]]
             Lacking == {m \in 0 .. n : ~\E f : Sums(m, f)}
  <1> SUFFICES ASSUME Lacking # {} PROVE FALSE
    <2>1. n \in 0 .. n
      OBVIOUS
    <2> HIDE DEF Sums
    <2>2. Lacking = {} => \E f : Sums(n, f)
      BY <2>1
    <2> QED BY <2>2 DEF Sums
  <1>1. PICK m \in Lacking : \A y \in Lacking : ~(y < m)
    <2>1. Lacking \subseteq Nat
      OBVIOUS
    <2> QED BY <2>1, LeastOfNat
  <1>2. m # 0
    <2>1. Sums(0, [i \in 0 .. 0 |-> 0])
      OBVIOUS
    <2> HIDE DEF Sums
    <2> QED BY <1>1, <2>1
  <1>3. m - 1 \in 0 .. n /\ m \in 1 .. n /\ m - 1 < m
    BY <1>1, <1>2
  <1>4. PICK f : Sums(m - 1, f)
    <2> HIDE DEF Sums
    <2> QED BY <1>1, <1>3
  <1> DEFINE g == [i \in 0 .. m |-> IF i = m THEN f[m - 1] + a[m] ELSE f[i]]
  <1>5. Sums(m, g)
    <2>1. \A i \in 0 .. m - 1 : f[i] = IF i = 0 THEN 0 ELSE f[i - 1] + a[i]
      BY <1>4
    <2>2. ASSUME NEW i \in 0 .. m PROVE g[i] = IF i = 0 THEN 0 ELSE g[i - 1] + a[i]
      <3>1. CASE i = m
        <4>1. m - 1 \in 0 .. m /\ m - 1 # m
          BY <1>3
        <4> QED BY <1>3, <3>1, <4>1
      <3>2. CASE i # m
        <4>1. i \in 0 .. m - 1 /\ (i # 0 => i - 1 \in 0 .. m /\ i - 1 # m)
          BY <1>3, <3>2
        <4> QED BY <2>1, <3>2, <4>1
      <3> QED BY <3>1, <3>2
    <2>3. g = [i \in 0 .. m |-> g[i]]
      OBVIOUS
    <2> HIDE DEF g
    <2> QED BY <2>2, <2>3
  <1> HIDE DEF Sums, g
  <1> QED BY <1>1, <1>5

\* The calls of a period are a number, and positive only if a node has calls.
LEMMA CallsOfPeriod ==
  ASSUME NEW tab \in Seq(Svr), stat \in [Svr -> Stat]
  PROVE  /\ Total(tab, LAMBDA s : stat[s].reqAll - stat[s].rej) \in Int
         /\ Total(tab, LAMBDA s : stat[s].reqAll - stat[s].rej) > 0 =>
              \E r \in Nodes(tab) : stat[r].reqAll > 0
  <1> DEFINE n == Len(tab)
             a == [i \in 1 .. n |-> stat[tab[i]].reqAll - stat[tab[i]].rej]
             Sums(f) == f = [i \in 0 .. n |-> IF i = 0 THEN 0
                                              ELSE f[i - 1] + (stat[tab[i]].reqAll - stat[tab[i]].rej)]
             sum == CHOOSE f : Sums(f)
             calls == Total(tab, LAMBDA s : stat[s].reqAll - stat[s].rej)
  <1>1. calls = sum[n]
    BY Zenon DEF Total
  <1> HIDE DEF calls
  <1>2. n \in Nat /\ DOMAIN tab = 1 .. n /\ \A i \in 1 .. n : tab[i] \in Svr
    BY LenProperties
  <1> HIDE DEF n
  <1>3. \A i \in 1 .. n : stat[tab[i]].reqAll \in Nat /\ stat[tab[i]].rej \in Nat
    BY <1>2 DEF Stat
  <1>4. \A i \in 1 .. n : a[i] = stat[tab[i]].reqAll - stat[tab[i]].rej /\ a[i] \in Int
    BY <1>3
  <1>5. \E f : Sums(f)
    <2>1. a \in [1 .. n -> Int]
      BY <1>3
    <2> HIDE DEF a
    <2>2. PICK f : f = [i \in 0 .. n |-> IF i = 0 THEN 0 ELSE f[i - 1] + a[i]]
      BY <1>2, <2>1, SumsExist
    <2>3. \A i \in 0 .. n : f[i] = IF i = 0 THEN 0 ELSE f[i - 1] + a[i]
      BY <2>2
    <2>4. \A i \in 0 .. n : f[i] = IF i = 0 THEN 0
                                   ELSE f[i - 1] + (stat[tab[i]].reqAll - stat[tab[i]].rej)
      BY <1>2, <1>4, <2>3
    <2>5. f = [i \in 0 .. n |-> f[i]]
      BY <2>2
    <2>6. Sums(f)
      BY <2>4, <2>5
    <2> HIDE DEF Sums
    <2> QED BY <2>6
  <1>6. Sums(sum)
    <2> HIDE DEF Sums
    <2> QED BY <1>5, Zenon
  <1>7. \A i \in 0 .. n : sum[i] = IF i = 0 THEN 0 ELSE sum[i - 1] + a[i]
    <2>1. \A i \in 0 .. n : sum[i] = IF i = 0 THEN 0
                                     ELSE sum[i - 1] + (stat[tab[i]].reqAll - stat[tab[i]].rej)
      <3> HIDE DEF sum
      <3> QED BY <1>6
    <2> HIDE DEF sum, a
    <2> QED BY <1>2, <1>4, <2>1
  <1> HIDE DEF sum, Sums, a
  <1> DEFINE Few(x) == x \in Int /\ (x > 0 => \E i \in 1 .. n : a[i] > 0)
  <1>8. Few(sum[n])
    <2> DEFINE Off == {i \in 0 .. n : ~Few(sum[i])}
    <2> SUFFICES ASSUME Off # {} PROVE FALSE
      BY <1>2
    <2>1. PICK m \in Off : \A y \in Off : ~(y < m)
      <3>1. Off \subseteq Nat
        BY <1>2
      <3> HIDE DEF Off
      <3> QED BY <3>1, LeastOfNat
    <2>2. m # 0
      BY <1>2, <1>7, <2>1
    <2>3. m \in 1 .. n /\ m - 1 \in 0 .. n /\ m - 1 < m
      BY <1>2, <2>1, <2>2
    <2>4. Few(sum[m - 1])
      BY <2>1, <2>3
    <2>5. sum[m] = sum[m - 1] + a[m] /\ a[m] \in Int
      BY <1>4, <1>7, <2>1, <2>2, <2>3
    <2> QED BY <2>1, <2>3, <2>4, <2>5
  <1>9. ASSUME NEW i \in 1 .. n, a[i] > 0 PROVE tab[i] \in Nodes(tab) /\ stat[tab[i]].reqAll > 0
    BY <1>2, <1>3, <1>4, <1>9 DEF Nodes
  <1> QED BY <1>1, <1>8, <1>9 DEF calls

\* Saturation raises no number to a positive bound it was below.
LEMMA SaturatedBelow ==
  ASSUME NEW r \in Int, NEW c \in Int, NEW b \in Nat \ {0}, r < b, ~(c > 0)
  PROVE  Saturated(r + c) < b
  <1>1. ReqCap \in Nat
    BY QosAssumption
  <1> QED BY <1>1 DEF Saturated

\* What a recovery from the error table needs.
Probed(s) ==
  /\ down[s].age > ProbeBegin
  /\ \/ detect[HostOf[s]] = "ok"
     \/ /\ detect[HostOf[s]] = "nopri"
        /\ \/ RouteNodes(KindOf[s]) \cap RouteNodes(KindOf[s])' = {}
           \/ down[s].age >= DownTime \/ down[s].req >= DownReq
           \/ \E r \in RouteNodes(KindOf[s]) : stat[r].reqAll > 0

\* At the end of a period, down records that changed in the meantime recover
\* only if they did before, or calls were made.
LEMMA RebuildWithUp ==
  ASSUME IInv, NEW k \in DOMAIN mRouteTable,
         NEW load \in [Nodes(mRouteTable[k].tab) -> Loads],
         NEW delay \in [Nodes(mRouteTable[k].tab) -> DelayLoads], NEW avg, NEW high,
         RebuildWith(k, load, delay, avg, high),
         NEW s \in Svr, s \in ErrNodes(KindOf[s]), s \notin RouteNodes(KindOf[s]),
         s \in RouteNodes(KindOf[s])'
  PROVE  Probed(s)
  <1> DEFINE tab   == mRouteTable[k].tab
             old   == Nodes(tab)
             pos   == [x \in old |-> MinOf({i \in DOMAIN tab : tab[i] = x})]
             calls == Total(tab, LAMBDA x : stat[x].reqAll - stat[x].rej)
             after == [x \in Svr |->
                         IF x \in old
                         THEN [ReqRebuild(stat[x], delay[x]) EXCEPT !.load = load[x]]
                         ELSE stat[x]]
             kept  == {x \in old : Selectable(after[x])}
             errs  == ErrNodes(k) \cup (old \ kept)
             dn    == [x \in Svr |->
                         IF x \in old \ kept THEN Stopped(x)
                         ELSE IF x \in ErrNodes(k)
                              THEN [down[x] EXCEPT !.req = Saturated(@ + calls)]
                              ELSE down[x]]
             back  == Back(errs, dn, kept = {})
             st    == [x \in Svr |->
                         IF x \notin back THEN after[x]
                         ELSE IF kept = {} THEN Recovered(after[x], 1, avg)
                         ELSE Recovered(after[x], high, after[x].avgErr)]
             Before(a, b) == \/ st[a].load < st[b].load
                             \/ /\ st[a].load = st[b].load
                                /\ a \in kept
                                /\ b \in kept => pos[a] < pos[b]
             Moved(t) == mRouteTable' = IF t = <<>> THEN Erase(mRouteTable, k)
                                        ELSE [mRouteTable EXCEPT ![k].tab = t, ![k].age = 0,
                                                                 ![k].index = 0]
  <1>1. \E t \in Tables(kept \cup back, Before) : Moved(t)
    BY Zenon DEF RebuildWith
  <1>2. PICK t : Nodes(t) = kept \cup back /\ Moved(t)
    <2>1. PICK t \in Tables(kept \cup back, Before) : Moved(t)
      BY <1>1
    <2> HIDE DEF Moved, kept, back, st, pos
    <2>2. Nodes(t) = kept \cup back
      BY <2>1, Zenon DEF Tables
    <2> QED BY <2>1, <2>2
  <1>3. /\ tab \in Seq(Svr) /\ stat \in [Svr -> Stat] /\ down \in [Svr -> DownSince]
        /\ old = RouteNodes(k) /\ KindOf[s] \in Kind
    <2>1. TableOK(k, mRouteTable[k], stat)
      BY DEF IInv, RoutesOK
    <2> QED BY <2>1, RouteFields, KindType DEF IInv, TableOK, RouteNodes
  <1>4. calls \in Int /\ (calls > 0 => \E r \in old : stat[r].reqAll > 0)
    BY <1>3, CallsOfPeriod
  <1>5. k = KindOf[s]
    <2> SUFFICES ASSUME k # KindOf[s] PROVE RouteNodes(KindOf[s])' \subseteq RouteNodes(KindOf[s])
      OBVIOUS
    <2> HIDE DEF kept, back
    <2> QED BY <1>2 DEF RouteNodes, Erase
  <1>6. RouteNodes(k)' \subseteq kept \cup back
    <2> HIDE DEF kept, back
    <2>1. CASE t = <<>>
      <3>1. k \notin DOMAIN mRouteTable'
        BY <1>2, <2>1 DEF Erase
      <3> QED BY <3>1 DEF RouteNodes
    <2>2. CASE t # <<>>
      <3>1. mRouteTable[k] \in Route
        BY DEF IInv, RoutesOK, TableOK
      <3>2. mRouteTable'[k].tab = t
        BY <1>2, <2>2, <3>1 DEF Route
      <3> QED BY <1>2, <3>2 DEF RouteNodes
    <2> QED BY <2>1, <2>2
  <1> HIDE DEF calls
  <1>7. s \notin old /\ s \in ErrNodes(k) /\ s \in back
    <2> HIDE DEF back
    <2> QED BY <1>3, <1>5, <1>6
  <1>8. /\ down[s].age \in Nat /\ down[s].req \in Int
        /\ dn[s].age = down[s].age /\ dn[s].req = Saturated(down[s].req + calls)
    <2>1. dn[s] = [down[s] EXCEPT !.req = Saturated(@ + calls)]
      BY <1>7
    <2>2. down[s] \in [age : Nat, req : Int, found : {"no", "before", "since"}]
      BY <1>3 DEF DownSince
    <2> QED BY <2>1, <2>2
  <1>9. Recovers(s, dn[s], kept = {})
    <2> HIDE DEF dn, kept
    <2> QED BY <1>7 DEF Back
  <1>10. kept = {} => old \cap RouteNodes(k)' = {}
    <2> SUFFICES ASSUME kept = {}, NEW x \in old, x \in back PROVE FALSE
      <3> HIDE DEF kept, back, old
      <3> QED BY <1>6
    <2>1. x \in Svr
      BY <1>3 DEF IInv, RoutesOK, TableOK, OfKind
    <2>2. dn[x].age = 0
      <3>1. x \in old \ kept
        OBVIOUS
      <3> HIDE DEF old, kept
      <3> QED BY <2>1, <3>1 DEF Stopped, Up
    <2>3. dn[x].age > ProbeBegin
      <3> HIDE DEF dn, kept
      <3> QED BY DEF Back, Recovers, Probing
    <2> QED BY <2>2, <2>3, QosAssumption
  <1>11. down[s].age > ProbeBegin
    BY <1>8, <1>9, Zenon DEF Recovers, Probing
  <1>12. CASE detect[HostOf[s]] = "ok"
    BY <1>11, <1>12 DEF Probed
  <1>13. CASE detect[HostOf[s]] = "nopri" /\ kept = {}
    BY <1>3, <1>5, <1>10, <1>11, <1>13 DEF Probed
  <1>14. CASE detect[HostOf[s]] = "nopri" /\ (dn[s].age >= DownTime \/ dn[s].req >= DownReq)
    <2>1. calls > 0 \/ down[s].req >= DownReq \/ down[s].age >= DownTime
      <3>1. DownReq \in Nat \ {0}
        BY QosAssumption
      <3>2. down[s].req < DownReq /\ ~(calls > 0) => Saturated(down[s].req + calls) < DownReq
        BY <1>4, <1>8, <3>1, SaturatedBelow
      <3>3. Saturated(down[s].req + calls) \in Int
        BY <1>4, <1>8, QosAssumption DEF Saturated
      <3> HIDE DEF dn
      <3> QED BY <1>4, <1>8, <1>14, <3>1, <3>2, <3>3
    <2> HIDE DEF dn, old
    <2> QED BY <1>3, <1>4, <1>5, <1>11, <1>14, <2>1 DEF Probed
  <1>15. \/ detect[HostOf[s]] = "ok"
         \/ detect[HostOf[s]] = "nopri" /\ (kept = {} \/ dn[s].age >= DownTime \/ dn[s].req >= DownReq)
    <2> HIDE DEF dn, kept
    <2> QED BY <1>9 DEF Recovers, Condition
  <1> QED BY <1>12, <1>13, <1>14, <1>15

\* The steps that leave every route table what it is, or take nodes out of it.
LEMMA NoNewNodes ==
  ASSUME IInv, NEW s \in known, s \notin RouteNodes(KindOf[s]),
         \/ Select \/ Tick \/ CleanNode
         \/ \E x \in Svr, ok \in BOOLEAN : CallerNode(x, ok)
         \/ \E x \in Svr, weight \in {0, 1} : ModNode(x, weight)
         \/ \E h \in Host : DetectProbe(h) \/ DetectForget(h)
         \/ \E k \in Kind : RebuildNotDue(k)
  PROVE  s \notin RouteNodes(KindOf[s])'
  <1> DEFINE Fewer(rt) == KindOf[s] \in DOMAIN rt =>
                            /\ KindOf[s] \in DOMAIN mRouteTable
                            /\ Nodes(rt[KindOf[s]].tab) \subseteq Nodes(mRouteTable[KindOf[s]].tab)
  <1>1. \A k \in DOMAIN mRouteTable : mRouteTable[k] \in Route
    BY DEF IInv, RoutesOK, TableOK
  <1>2. Fewer(mRouteTable') => s \notin RouteNodes(KindOf[s])'
    BY DEF RouteNodes
  <1>3. CASE mRouteTable' = mRouteTable
    BY <1>3 DEF RouteNodes
  <1>4. CASE \E k, i : mRouteTable' = [mRouteTable EXCEPT ![k].index = i]
    <2>1. Fewer(mRouteTable')
      BY <1>1, <1>4 DEF Route
    <2> QED BY <1>2, <2>1
  <1>5. CASE \E k : mRouteTable' = [mRouteTable EXCEPT ![k].age = 0]
    <2>1. Fewer(mRouteTable')
      BY <1>1, <1>5 DEF Route
    <2> QED BY <1>2, <2>1
  <1>6. CASE Select
    <2>1. \/ mRouteTable' = mRouteTable
          \/ \E i : mRouteTable' = [mRouteTable EXCEPT ![svc.kind].index = i]
      BY <1>6, Zenon DEF Select, SelectFrom
    <2> QED BY <1>3, <1>4, <2>1
  <1>7. CASE Tick
    <2>1. Fewer(mRouteTable')
      BY <1>1, <1>7 DEF Tick, Route
    <2> QED BY <1>2, <2>1
  <1>8. CASE CleanNode
    <2>1. s \in Svr /\ known' = {}
      BY <1>8 DEF CleanNode, IInv
    <2>2. Covers(known', mRouteTable', mErrTable')
      BY <1>8, CleanNodeInv DEF IInv
    <2> QED BY <2>1, <2>2 DEF Covers, InRoute, RouteNodes
  <1>9. ASSUME NEW x \in Svr, DelNode(x) PROVE s \notin RouteNodes(KindOf[s])'
    <2>1. mRouteTable' = RouteTableWithout(mRouteTable, x)
      BY <1>9 DEF DelNode, DelRouteNode
    <2>2. \A y \in Svr : InRoute(mRouteTable', y) <=> y # x /\ InRoute(mRouteTable, y)
      BY <2>1, RouteTableWithoutInv DEF IInv
    <2>3. s \in Svr
      BY DEF IInv
    <2> QED BY <2>2, <2>3 DEF InRoute, RouteNodes
  <1>10. ASSUME NEW x \in Svr, SaveNode(x) PROVE s \notin RouteNodes(KindOf[s])'
    <2>1. x # s
      BY <1>10 DEF SaveNode
    <2>2. known' = known \cup {x} /\ mErrTable' = mErrTable /\ IInv'
      BY <1>10, SaveNodeInv DEF SaveNode, AllocNode
    <2>3. s \in Svr /\ InList(mErrTable, s)
      BY DEF IInv, Covers, InRoute, RouteNodes
    <2>4. ~InRoute(mRouteTable', s)
      BY <2>2, <2>3 DEF IInv, Covers, InList
    <2> QED BY <2>4 DEF InRoute, RouteNodes
  <1> QED
    BY <1>3, <1>5, <1>6, <1>7, <1>8, <1>9, <1>10
    DEF ModNode, CallerNode, DetectProbe, DetectForget, RebuildNotDue

\* A node that leaves the error table for the route table was probed, or may
\* come back without: only a rebuild of its kind brings it back.
LEMMA RecoveryStep ==
  ASSUME IInv, Next, NEW s \in known, s \in ErrNodes(KindOf[s]), s \in RouteNodes(KindOf[s])'
  PROVE  Probed(s)
  <1>1. s \in Svr /\ s \notin RouteNodes(KindOf[s])
    BY NodesOfKind DEF IInv, Covers, InList, InRoute, ErrNodes, RouteNodes
  <1>2. ASSUME NEW k \in Kind, RebuildRoute(k) PROVE Probed(s)
    <2>1. CASE RebuildAllDown(k)
      <3> DEFINE back == Back(ErrNodes(k), down, TRUE)
                 Set(t) == mRouteTable' = IF back = {} THEN mRouteTable
                                          ELSE Put(mRouteTable, k, FreshRoute(t, DefaultRebuildTm))
      <3>1. k \notin DOMAIN mRouteTable /\ \E t : Nodes(t) = back /\ Set(t)
        <4>1. \E t \in Tables(back, Unordered) : Set(t)
          BY <2>1, Zenon DEF RebuildAllDown
        <4> HIDE DEF Set, back
        <4>2. PICK t \in Tables(back, Unordered) : Set(t)
          BY <4>1
        <4>3. Nodes(t) = back
          BY <4>2, Zenon DEF Tables
        <4> QED BY <2>1, <4>2, <4>3 DEF RebuildAllDown
      <3>2. PICK t : Nodes(t) = back /\ Set(t)
        BY <3>1
      <3>3. k = KindOf[s] /\ s \in back
        <4> HIDE DEF back
        <4> QED BY <1>1, <3>1, <3>2 DEF RouteNodes, Put, FreshRoute
      <3>4. Recovers(s, down[s], TRUE)
        BY <3>3 DEF Back
      <3>5. RouteNodes(KindOf[s]) = {}
        BY <3>1, <3>3 DEF RouteNodes
      <3> QED BY <3>4, <3>5 DEF Recovers, Probing, Probed
    <2>2. CASE RebuildNotDue(k)
      BY <1>1, <2>2, NoNewNodes
    <2>3. CASE RebuildDue(k)
      <3>1. /\ k \in DOMAIN mRouteTable
            /\ \E load \in [Nodes(mRouteTable[k].tab) -> Loads],
                  delay \in [Nodes(mRouteTable[k].tab) -> DelayLoads], avg \in AvgErrRates :
                 \E high \in Highest({load[x] : x \in Nodes(mRouteTable[k].tab)}) :
                    RebuildWith(k, load, delay, avg, high)
        BY <2>3, Zenon DEF RebuildDue
      <3>2. PICK load \in [Nodes(mRouteTable[k].tab) -> Loads],
                 delay \in [Nodes(mRouteTable[k].tab) -> DelayLoads], avg \in AvgErrRates :
               \E high \in Highest({load[x] : x \in Nodes(mRouteTable[k].tab)}) :
                  RebuildWith(k, load, delay, avg, high)
        BY <3>1, Zenon
      <3>3. PICK high : RebuildWith(k, load, delay, avg, high)
        BY <3>2, Zenon
      <3> QED BY <1>1, <3>1, <3>3, RebuildWithUp, Zenon
    <2> QED BY <1>2, <2>1, <2>2, <2>3 DEF RebuildRoute
  <1>3. ASSUME NEW k \in Kind, QueryNode(k) PROVE Probed(s)
    BY <1>2, <1>3 DEF QueryNode
  <1>4. CASE CallerRebuild
    <2>1. svc.kind \in Kind /\ RebuildRoute(svc.kind)
      BY <1>4 DEF CallerRebuild, IInv, Idle, Busy
    <2> QED BY <1>2, <2>1
  <1> QED BY <1>1, <1>3, <1>4, NoNewNodes DEF Next

\* What is known of the probe behind a good answer about the host of a node
\* that is down: it has ended since, or was there before.
FoundOK ==
  \A s \in Svr : s \in ErrNodes(KindOf[s]) /\ detect[HostOf[s]] = "ok" => down[s].found # "no"

\* A good answer comes only from a probe, not from adding an entry.
LEMMA AddDetectOk ==
  ASSUME NEW S, NEW dn, NEW h \in Host, AddDetect(S, dn)[h] = "ok"
  PROVE  detect[h] = "ok"
  BY DEF AddDetect

\* The end of a period keeps what is known of the nodes that stay down, and
\* looks at the answer for those that go down.
LEMMA RebuildWithFound ==
  ASSUME IInv, FoundOK, NEW k \in DOMAIN mRouteTable, NEW load, NEW delay, NEW avg, NEW high,
         RebuildWith(k, load, delay, avg, high)
  PROVE  FoundOK'
  <1> DEFINE tab   == mRouteTable[k].tab
             old   == Nodes(tab)
             calls == Total(tab, LAMBDA x : stat[x].reqAll - stat[x].rej)
             after == [x \in Svr |->
                         IF x \in old
                         THEN [ReqRebuild(stat[x], delay[x]) EXCEPT !.load = load[x]]
                         ELSE stat[x]]
             kept  == {x \in old : Selectable(after[x])}
             errs  == ErrNodes(k) \cup (old \ kept)
             dn    == [x \in Svr |->
                         IF x \in old \ kept THEN Stopped(x)
                         ELSE IF x \in ErrNodes(k)
                              THEN [down[x] EXCEPT !.req = Saturated(@ + calls)]
                              ELSE down[x]]
             back  == Back(errs, dn, kept = {})
  <1>1. /\ mErrTable' = ErrLeft(k, errs \ back)
        /\ down' = [x \in Svr |-> IF x \in back THEN Up ELSE dn[x]]
        /\ detect' = AddDetect(errs, dn)
    BY Zenon DEF RebuildWith
  <1>2. down \in [Svr -> DownSince] /\ ListsOK(mErrTable, stat) /\ k \in Kind
    BY DEF IInv, RoutesOK
  <1> SUFFICES ASSUME NEW s \in Svr, s \in ErrNodes(KindOf[s])', detect'[HostOf[s]] = "ok"
               PROVE  down'[s].found # "no"
    BY DEF FoundOK
  <1>3. detect[HostOf[s]] = "ok"
    <2> HIDE DEF dn, errs
    <2> QED BY <1>1, AddDetectOk, KindType
  <1>4. s \in IF KindOf[s] = k THEN errs \ back ELSE ErrNodes(KindOf[s])
    <2> HIDE DEF errs, back
    <2> QED BY <1>1, ErrLeftNodes
  <1>5. s \notin back
    <2>1. CASE KindOf[s] = k
      BY <1>4, <2>1
    <2>2. CASE KindOf[s] # k
      <3>1. s \notin ErrNodes(k)
        BY <1>2, <2>2 DEF ListsOK, ListOK, OfKind, ErrNodes
      <3>2. s \notin old
        BY <2>2 DEF IInv, RoutesOK, TableOK, OfKind
      <3> HIDE DEF dn, old, kept
      <3> QED BY <3>1, <3>2 DEF Back
    <2> QED BY <2>1, <2>2
  <1>6. down'[s] = dn[s]
    <2> HIDE DEF back, dn
    <2> QED BY <1>1, <1>5
  <1>7. CASE s \in old \ kept
    <2>1. dn[s] = Stopped(s)
      <3> HIDE DEF old, kept
      <3> QED BY <1>7
    <2> QED BY <1>3, <1>6, <2>1 DEF Stopped, Up
  <1>8. CASE s \notin old \ kept
    <2>1. s \in ErrNodes(KindOf[s])
      <3> HIDE DEF back, old, kept
      <3> QED BY <1>4, <1>8
    <2>2. dn[s] \in {[down[s] EXCEPT !.req = Saturated(@ + calls)], down[s]}
      <3> HIDE DEF old, kept, calls
      <3> QED BY <1>8
    <2>3. dn[s].found = down[s].found
      <3> HIDE DEF dn, calls
      <3> QED BY <1>2, <2>2 DEF DownSince
    <2> QED BY <1>3, <1>6, <2>1, <2>3 DEF FoundOK
  <1> QED BY <1>7, <1>8

\* Every step keeps it: an entry that goes takes the answer along, and every
\* probe that ends is seen by all nodes that are down on its host.
LEMMA FoundStep == ASSUME IInv, FoundOK, [Next]_vars PROVE FoundOK'
  <1>0. down \in [Svr -> DownSince] /\ detect \in [Host -> Detected]
    BY DEF IInv
  <1>1. CASE UNCHANGED <<mErrTable, detect, down>>
    BY <1>1 DEF FoundOK, ErrNodes
  <1>2. ASSUME NEW k \in Kind, RebuildRoute(k) PROVE FoundOK'
    <2>1. CASE RebuildAllDown(k)
      <3> DEFINE back == Back(ErrNodes(k), down, TRUE)
      <3>1. /\ mErrTable' = ErrLeft(k, ErrNodes(k) \ back) /\ detect' = AddDetect(ErrNodes(k), down)
            /\ down' = [s \in Svr |-> IF s \in back THEN Up ELSE down[s]]
        BY <2>1, Zenon DEF RebuildAllDown
      <3>2. \A s \in back : s \in ErrNodes(k)
        BY DEF Back
      <3> HIDE DEF back
      <3>3. ASSUME NEW s \in Svr, s \in ErrNodes(KindOf[s])', detect'[HostOf[s]] = "ok"
            PROVE  down'[s].found # "no"
        <4>1. detect[HostOf[s]] = "ok"
          BY <3>1, <3>3, AddDetectOk, KindType
        <4>2. s \in IF KindOf[s] = k THEN ErrNodes(k) \ back ELSE ErrNodes(KindOf[s])
          BY <3>1, <3>3, ErrLeftNodes
        <4>3. s \in ErrNodes(k) => KindOf[s] = k
          BY DEF IInv, ListsOK, ListOK, OfKind, ErrNodes
        <4>4. s \notin back
          BY <3>2, <4>2, <4>3
        <4> QED BY <3>1, <4>1, <4>2, <4>4 DEF FoundOK
      <3> QED BY <3>3 DEF FoundOK
    <2>2. CASE RebuildNotDue(k)
      BY <1>1, <2>2 DEF RebuildNotDue
    <2>3. CASE RebuildDue(k)
      <3>1. k \in DOMAIN mRouteTable
            /\ \E load, delay, avg, high : RebuildWith(k, load, delay, avg, high)
        BY <2>3, Zenon DEF RebuildDue
      <3> QED BY <3>1, RebuildWithFound, Zenon
    <2> QED BY <1>2, <2>1, <2>2, <2>3 DEF RebuildRoute
  <1>3. ASSUME NEW k \in Kind, QueryNode(k) PROVE FoundOK'
    BY <1>2, <1>3 DEF QueryNode
  <1>4. CASE CallerRebuild
    <2>1. svc.kind \in Kind /\ RebuildRoute(svc.kind)
      BY <1>4 DEF CallerRebuild, IInv, Idle, Busy
    <2> QED BY <1>2, <2>1
  <1>5. ASSUME NEW x \in Svr, DelNode(x) PROVE FoundOK'
    <2>1. /\ mErrTable' = ErrTableWithout(mErrTable, x) /\ detect' = detect
          /\ down' = [down EXCEPT ![x] = Up]
      BY <1>5 DEF DelNode, DelRouteNode
    <2>2. \A y \in Svr : InList(mErrTable', y) <=> y # x /\ InList(mErrTable, y)
      BY <2>1, ErrTableWithoutInv DEF IInv
    <2> QED BY <1>0, <2>1, <2>2 DEF FoundOK, InList, ErrNodes
  <1>6. CASE CleanNode
    <2>1. \A s \in Svr : s \notin ErrNodes(KindOf[s])'
      <3>1. known' = {} /\ IInv'
        BY <1>6, CleanNodeInv DEF CleanNode
      <3> QED BY <3>1 DEF IInv, Covers, InList, ErrNodes
    <2> QED BY <2>1 DEF FoundOK
  <1>7. ASSUME NEW x \in Svr, NEW weight, ModNode(x, weight) PROVE FoundOK'
    BY <1>1, <1>5, <1>7 DEF ModNode, SaveNode, AllocNode
  <1>8. CASE Tick
    <2>1. \A s \in Svr : down'[s].found = down[s].found
      BY <1>0, <1>8 DEF Tick, DownSince
    <2> QED BY <1>8, <2>1 DEF Tick, FoundOK, ErrNodes
  <1>9. ASSUME NEW h \in Host, DetectProbe(h) PROVE FoundOK'
    <2>1. mErrTable' = mErrTable /\ Found(h, "since") /\ \A g \in Host : g # h => detect'[g] = detect[g]
      BY <1>0, <1>9 DEF DetectProbe
    <2>2. ASSUME NEW s \in Svr, s \in ErrNodes(KindOf[s]), detect'[HostOf[s]] = "ok"
          PROVE  down'[s].found # "no"
      <3>1. CASE HostOf[s] = h
        BY <1>0, <2>1, <2>2, <3>1 DEF Found, DownSince
      <3>2. CASE HostOf[s] # h
        BY <1>0, <2>1, <2>2, <3>2, KindType DEF Found, FoundOK
      <3> QED BY <3>1, <3>2
    <2> QED BY <2>1, <2>2 DEF FoundOK, ErrNodes
  <1>10. ASSUME NEW h \in Host, DetectForget(h) PROVE FoundOK'
    <2>1. mErrTable' = mErrTable /\ Found(h, "no") /\ detect' = [detect EXCEPT ![h] = "none"]
      BY <1>10 DEF DetectForget
    <2>2. ASSUME NEW s \in Svr, s \in ErrNodes(KindOf[s]), detect'[HostOf[s]] = "ok"
          PROVE  down'[s].found # "no"
      <3>1. HostOf[s] # h
        BY <1>0, <2>1, <2>2
      <3> QED BY <1>0, <2>1, <2>2, <3>1, KindType DEF Found, FoundOK
    <2> QED BY <2>1, <2>2 DEF FoundOK, ErrNodes
  <1> QED
    BY <1>1, <1>3, <1>4, <1>6, <1>7, <1>8, <1>9, <1>10 DEF Next, Select, CallerNode, vars

\* No node comes back without a probe where one can be made: none on the initial
\* value of an entry, on a failed probe, or on one of an entry that was dropped
\* (RebuildErrRoute).
THEOREM RecoveryIsProbedCorrect == Spec => RecoveryIsProbed
  <1>1. Init => FoundOK
    BY DEF Init, FoundOK, ErrNodes
  <1>2. IInv /\ FoundOK /\ [Next]_vars => FoundOK'
    BY FoundStep
  <1>3. IInv /\ FoundOK /\ [Next]_vars =>
          [\A s \in known : s \in ErrNodes(KindOf[s]) /\ s \in RouteNodes(KindOf[s])'
             => /\ down[s].age > ProbeBegin
                /\ \/ detect[HostOf[s]] = "ok" /\ down[s].found # "no"
                   \/ /\ detect[HostOf[s]] = "nopri"
                      /\ \/ RouteNodes(KindOf[s]) \cap RouteNodes(KindOf[s])' = {}
                         \/ down[s].age >= DownTime \/ down[s].req >= DownReq
                         \/ \E r \in RouteNodes(KindOf[s]) : stat[r].reqAll > 0]_vars
    BY RecoveryStep DEF Probed, FoundOK, IInv
  <1> QED BY <1>1, <1>2, <1>3, Invariance, PTL DEF Spec, RecoveryIsProbed

\* A node that has none of its calls failed does not refuse.
LEMMA RefusesFailing ==
  ASSUME NEW st \in Stat, Refuses(st)
  PROVE  st.err > 0
  <1>1. st.err \in Nat /\ st.reqAll \in Nat /\ ErrMin \in Nat
    BY StatIsLoose, Fields, Positive
  <1>2. ErrMin * (st.reqAll + 1) \in Nat
    BY <1>1
  <1>3. st.err * RateUnit > ErrMin * (st.reqAll + 1)
    BY Zenon DEF Refuses
  <1>4. st.err = 0 => st.err * RateUnit = 0
    BY Positive
  <1> QED BY <1>1, <1>2, <1>3, <1>4

\* Counting an outcome or a call given out rejects nothing; neither is anything
\* rejected in a record that is made anew.
LEMMA CountersRej ==
  ASSUME NEW st \in Stat
  PROVE  /\ Succeeded(st).rej = st.rej /\ Failed(st).rej = st.rej
         /\ Granted(st).rej = st.rej /\ Refused(st).rej = st.rej
         /\ \A load, avg : Recovered(st, load, avg).rej = 0
  BY Zenon DEF Succeeded, Failed, Granted, Refused, Recovered, Stat

\* The scan of GetRouteNode goes once around the table.
LEMMA AllTried ==
  ASSUME NEW n \in Nat, n > 0, NEW start \in Nat, NEW i \in 0 .. n - 1
  PROVE  \E j \in 0 .. n - 1 : (start + j) % n = i
  <1>1. start % n \in 0 .. n - 1 /\ start = n * (start \div n) + (start % n) /\ start \div n \in Int
    <2>1. start % n \in 0 .. n - 1
      OBVIOUS
    <2>2. start = n * (start \div n) + (start % n)
      OBVIOUS
    <2>3. start \div n \in Int
      OBVIOUS
    <2> QED BY <2>1, <2>2, <2>3, Zenon
  <1> DEFINE b == start % n
             q == start \div n
  <1> HIDE DEF b, q
  <1>2. b \in 0 .. n - 1 /\ start = n * q + b /\ q \in Int
    BY <1>1 DEF b, q
  <1>3. CASE i >= b
    <2>1. i - b \in 0 .. n - 1 /\ start + (i - b) = n * q + i
      BY <1>2, <1>3
    <2>2. (n * q + i) % n = i
      BY <1>2
    <2> QED BY <2>1, <2>2
  <1>4. CASE i < b
    <2>1. i - b + n \in 0 .. n - 1 /\ start + (i - b + n) = n * (q + 1) + i
      BY <1>2, <1>4
    <2>2. (n * (q + 1) + i) % n = i
      BY <1>2
    <2> QED BY <2>1, <2>2
  <1> QED BY <1>2, <1>3, <1>4

\* Where a scan starts, and the table it goes through.
LEMMA ScanStart ==
  ASSUME RoutesOK(mRouteTable, stat), NEW k \in DOMAIN mRouteTable
  PROVE  LET t == mRouteTable[k].tab IN
         /\ t \in Seq(Svr) /\ Len(t) \in Nat /\ Len(t) > 0
         /\ StartAt(t, mRouteTable[k].index) \in Nat
         /\ DOMAIN t = 1 .. Len(t) /\ Nodes(t) \subseteq OfKind(k)
  <1> DEFINE t       == mRouteTable[k].tab
             n       == Len(t)
             from    == IF mRouteTable[k].index < n THEN mRouteTable[k].index ELSE 0
             lighter == {i \in from .. n - 1 : Work(stat, t, i) < Work(stat, t, 0)}
  <1>1. /\ t \in Seq(Svr) /\ mRouteTable[k].index \in Nat /\ n \in Nat /\ DOMAIN t = 1 .. n
        /\ Nodes(t) \subseteq OfKind(k) /\ t # <<>>
    BY RouteFields DEF RoutesOK, TableOK
  <1>2. n > 0
    BY <1>1, LenProperties, EmptySeq
  <1>3. StartAt(t, mRouteTable[k].index) \in Nat
    <2>1. StartAt(t, mRouteTable[k].index) =
            IF from = 0 \/ lighter = {} THEN 0 ELSE MinOf(lighter)
      BY Zenon DEF StartAt
    <2>2. lighter \subseteq Nat
      BY <1>1
    <2> HIDE DEF lighter, from
    <2>3. lighter # {} => MinOf(lighter) \in Nat
      BY <2>2, MinOfNat
    <2> QED BY <2>1, <2>3
  <1> QED BY <1>1, <1>2, <1>3

\* The end of a period leaves nothing rejected in the records it makes.
LEMMA RebuildWithRej ==
  ASSUME IInv, NEW k \in DOMAIN mRouteTable,
         NEW load \in [Nodes(mRouteTable[k].tab) -> Loads],
         NEW delay \in [Nodes(mRouteTable[k].tab) -> DelayLoads], NEW avg, NEW high,
         RebuildWith(k, load, delay, avg, high), NEW s \in Svr
  PROVE  stat'[s].rej \in {0, stat[s].rej}
  <1> DEFINE tab   == mRouteTable[k].tab
             old   == Nodes(tab)
             calls == Total(tab, LAMBDA x : stat[x].reqAll - stat[x].rej)
             after == [x \in Svr |->
                         IF x \in old
                         THEN [ReqRebuild(stat[x], delay[x]) EXCEPT !.load = load[x]]
                         ELSE stat[x]]
             kept  == {x \in old : Selectable(after[x])}
             errs  == ErrNodes(k) \cup (old \ kept)
             dn    == [x \in Svr |->
                         IF x \in old \ kept THEN Stopped(x)
                         ELSE IF x \in ErrNodes(k)
                              THEN [down[x] EXCEPT !.req = Saturated(@ + calls)]
                              ELSE down[x]]
             back  == Back(errs, dn, kept = {})
             st    == [x \in Svr |->
                         IF x \notin back THEN after[x]
                         ELSE IF kept = {} THEN Recovered(after[x], 1, avg)
                         ELSE Recovered(after[x], high, after[x].avgErr)]
  <1>1. stat' = st
    BY Zenon DEF RebuildWith
  <1>2. after[s] \in Stat /\ after[s].rej \in {0, stat[s].rej}
    <2>1. stat[s] \in Stat
      BY DEF IInv
    <2>2. CASE s \notin old
      <3> HIDE DEF old
      <3> QED BY <2>1, <2>2
    <2>3. CASE s \in old
      <3>1. delay[s] \in Nat \ {0} /\ load[s] \in Nat
        BY <2>3, QosAssumption
      <3> DEFINE a == ReqRebuild(stat[s], delay[s])
      <3>2. a \in Stat /\ a.rej = 0
        BY <2>1, <3>1, ReqRebuildType
      <3>3. after[s] = [a EXCEPT !.load = load[s]]
        BY <2>3
      <3> HIDE DEF a, after
      <3> QED BY <3>1, <3>2, <3>3 DEF Stat
    <2> QED BY <2>2, <2>3
  <1> HIDE DEF after, kept, back
  <1>3. \/ st[s] = after[s]
        \/ \E l, e : st[s] = Recovered(after[s], l, e)
    OBVIOUS
  <1>4. \A l, e : Recovered(after[s], l, e).rej = 0
    BY <1>2, CountersRej
  <1>5. stat'[s].rej = after[s].rej \/ stat'[s].rej = 0
    <2> HIDE DEF st
    <2> QED BY <1>1, <1>3, <1>4, Zenon
  <1> QED BY <1>2, <1>5

\* A query is rejected only after the scan was refused by every node of the
\* table, and no other step rejects one.
LEMMA RejectStep ==
  ASSUME IInv, Next, NEW s \in known, stat'[s].rej > stat[s].rej,
         NEW r \in RouteNodes(KindOf[s])
  PROVE  stat[r].err > 0
  <1>1. s \in Svr /\ stat \in [Svr -> Stat] /\ stat[s] \in Stat /\ stat[s].rej \in Nat
    BY DEF IInv, Stat
  <1>2. stat'[s].rej \notin {0, stat[s].rej}
    <2>1. ~(0 > stat[s].rej) /\ ~(stat[s].rej > stat[s].rej)
      BY <1>1
    <2> QED BY <2>1
  <1>3. ASSUME NEW k \in Kind, RebuildRoute(k) PROVE FALSE
    <2>1. CASE RebuildAllDown(k)
      <3> DEFINE back == Back(ErrNodes(k), down, TRUE)
      <3>1. PICK avg : stat' = [x \in Svr |->
                                  IF x \in back THEN Recovered(stat[x], 1, avg) ELSE stat[x]]
        <4> HIDE DEF back
        <4> QED BY <2>1, Zenon DEF RebuildAllDown, back
      <3> HIDE DEF back
      <3>2. stat'[s] = stat[s] \/ stat'[s] = Recovered(stat[s], 1, avg)
        BY <1>1, <3>1
      <3>3. Recovered(stat[s], 1, avg).rej = 0
        BY <1>1, CountersRej
      <3> QED BY <1>2, <3>2, <3>3
    <2>2. CASE RebuildNotDue(k)
      BY <1>2, <2>2 DEF RebuildNotDue
    <2>3. CASE RebuildDue(k)
      <3>1. /\ k \in DOMAIN mRouteTable
            /\ \E load \in [Nodes(mRouteTable[k].tab) -> Loads],
                  delay \in [Nodes(mRouteTable[k].tab) -> DelayLoads], avg \in AvgErrRates :
                 \E high \in Highest({load[x] : x \in Nodes(mRouteTable[k].tab)}) :
                    RebuildWith(k, load, delay, avg, high)
        BY <2>3, Zenon DEF RebuildDue
      <3>2. PICK load \in [Nodes(mRouteTable[k].tab) -> Loads],
                 delay \in [Nodes(mRouteTable[k].tab) -> DelayLoads], avg \in AvgErrRates :
               \E high \in Highest({load[x] : x \in Nodes(mRouteTable[k].tab)}) :
                  RebuildWith(k, load, delay, avg, high)
        BY <3>1, Zenon
      <3>3. PICK high : RebuildWith(k, load, delay, avg, high)
        BY <3>2, Zenon
      <3> QED BY <1>1, <1>2, <3>1, <3>3, RebuildWithRej, Zenon
    <2> QED BY <1>3, <2>1, <2>2, <2>3 DEF RebuildRoute
  <1>4. CASE Select
    <2> DEFINE k == svc.kind
               t == mRouteTable[k].tab
    <2>1. k \in DOMAIN mRouteTable /\ t # <<>> /\ SelectFrom(k)
      BY <1>2, <1>4 DEF Select
    <2> DEFINE n       == Len(t)
               start   == StartAt(t, mRouteTable[k].index)
               at(j)   == (start + j) % n
               accepts == {j \in 0 .. n - 1 : ~Refuses(stat[Node(t, at(j))])}
               tried   == IF accepts = {} THEN 0 .. n - 1 ELSE 0 .. MinOf(accepts) - 1
               refused == {Node(t, at(j)) : j \in tried}
               one     == Node(t, at(MinOf(accepts)))
               st      == [x \in Svr |->
                             IF x = one THEN Granted(stat[x])
                             ELSE IF x \in refused THEN Refused(stat[x]) ELSE stat[x]]
    <2>2. /\ t \in Seq(Svr) /\ n \in Nat /\ n > 0 /\ start \in Nat
          /\ DOMAIN t = 1 .. n /\ Nodes(t) \subseteq OfKind(k)
      BY <2>1, ScanStart DEF IInv
    <2> HIDE DEF n, start
    <2>3. accepts = {}
      <3> SUFFICES ASSUME accepts # {} PROVE FALSE
        OBVIOUS
      <3>1. stat' = st
        BY <2>1, Zenon DEF SelectFrom, n, start
      <3> HIDE DEF refused, one
      <3>2. stat'[s] \in {stat[s], Granted(stat[s]), Refused(stat[s])}
        BY <1>1, <3>1
      <3> QED BY <1>1, <1>2, <3>2, CountersRej, Zenon
    <2>4. s \in refused
      <3> SUFFICES ASSUME s \notin refused PROVE stat'[s] = stat[s]
        BY <1>2
      <3>1. stat' = [x \in Svr |->
                       IF x \notin refused THEN stat[x]
                       ELSE [Refused(stat[x]) EXCEPT
                               !.rej = IF x = Node(t, start) THEN @ + 1 ELSE @]]
        BY <2>1, <2>3, Zenon DEF SelectFrom, n, start
      <3> HIDE DEF refused
      <3> QED BY <1>1, <3>1
    <2>5. s \in Nodes(t)
      <3>1. PICK j \in 0 .. n - 1 : s = Node(t, at(j))
        BY <2>3, <2>4
      <3>2. at(j) + 1 \in 1 .. n
        <4>1. (start + j) % n \in 0 .. n - 1
          BY <2>2
        <4> QED BY <2>2, <4>1
      <3> HIDE DEF at
      <3> QED BY <2>2, <3>1, <3>2 DEF Node, Nodes
    <2>6. r \in Nodes(t)
      BY <2>1, <2>2, <2>5 DEF RouteNodes, OfKind
    <2>7. PICK i \in 1 .. n : r = t[i]
      BY <2>2, <2>6 DEF Nodes
    <2>8. PICK j \in 0 .. n - 1 : at(j) = i - 1
      <3>1. i - 1 \in 0 .. n - 1
        BY <2>2
      <3> QED BY <2>2, <3>1, AllTried
    <2>9. Node(t, at(j)) = r
      <3> HIDE DEF at
      <3> QED BY <2>2, <2>7, <2>8 DEF Node
    <2>10. Refuses(stat[r])
      BY <2>3, <2>9
    <2>11. stat[r] \in Stat
      BY <1>1, <2>2, <2>6 DEF OfKind
    <2> QED BY <2>10, <2>11, RefusesFailing
  <1>5. ASSUME NEW x \in Svr, NEW ok \in BOOLEAN, CallerNode(x, ok) PROVE FALSE
    <2>1. stat'[s] \in {stat[s], Succeeded(stat[s]), Failed(stat[s])}
      BY <1>1, <1>5 DEF CallerNode
    <2> QED BY <1>1, <1>2, <2>1, CountersRej, Zenon
  <1>6. CASE CallerRebuild
    <2>1. svc.kind \in Kind /\ RebuildRoute(svc.kind)
      BY <1>6 DEF CallerRebuild, IInv, Idle, Busy
    <2> QED BY <1>3, <2>1
  <1>7. ASSUME NEW k \in Kind, QueryNode(k) PROVE FALSE
    BY <1>3, <1>7 DEF QueryNode
  <1>8. InitStat.rej = 0
    BY DEF InitStat
  <1>9. ASSUME NEW x \in Svr, NEW weight, ModNode(x, weight) PROVE FALSE
    <2>1. CASE DelNode(x)
      <3>1. stat'[s] \in {stat[s], InitStat}
        BY <1>1, <2>1 DEF DelNode
      <3> QED BY <1>2, <1>8, <3>1
    <2>2. CASE SaveNode(x)
      <3>1. stat'[s] = stat[s]
        BY <1>1, <2>2 DEF SaveNode, AllocNode
      <3> QED BY <1>2, <3>1
    <2> QED BY <1>9, <2>1, <2>2 DEF ModNode
  <1>10. CASE CleanNode
    <2>1. stat'[s] = InitStat
      BY <1>1, <1>10 DEF CleanNode
    <2> QED BY <1>2, <1>8, <2>1
  <1> QED
    BY <1>2, <1>4, <1>5, <1>6, <1>7, <1>9, <1>10 DEF Next, Tick, DetectProbe, DetectForget

\* A query is rejected for overload only if every node of its table had a
\* failure in the period (RouteCheck, GetRouteNode).
THEOREM RejectOnlyIfAllFailCorrect == Spec => RejectOnlyIfAllFail
  <1>1. IInv /\ [Next]_vars =>
          [\A s \in known : stat'[s].rej > stat[s].rej
             => \A r \in RouteNodes(KindOf[s]) : stat[r].err > 0]_vars
    BY RejectStep
  <1> QED BY <1>1, Invariance, PTL DEF Spec, RejectOnlyIfAllFail

-----------------------------------------------------------------------------
(* The weighted round robin, within a period (PeriodSpec).                 *)

\* The work and the loads of n nodes, and where the next scan starts.  No node
\* but the first is more than one call above the first.  Before the first
\* node's call, the second has at most one call of the first less than it;
\* during a round, the nodes that the scan has passed are up to it.
Rounds(n, work, load, p) ==
  /\ p \in 0 .. n - 1
  /\ \A i \in 1 .. n - 1 :
       /\ work[i] <= work[0] + load[i]
       /\ work[i] >= work[0] - 2 * load[0] - (IF i = 1 THEN 0 ELSE load[1])
       /\ p = 0 => work[1] >= work[0] - load[0] /\ work[i] >= work[1] - load[1]
       /\ i < p => work[i] >= work[0]

Works(st, t) == [i \in 0 .. Len(t) - 1 |-> Work(st, t, i)]
Weights(st, t) == [i \in 0 .. Len(t) - 1 |-> st[Node(t, i)].load]
Unfailed(st, t) == \A s \in Nodes(t) : st[s].err = 0

PeriodInv ==
  /\ DOMAIN mErrTable = {}
  /\ \A k \in DOMAIN mRouteTable :
       LET r == mRouteTable[k]
       IN  /\ r.age = 0 /\ r.period > 0
           /\ Unfailed(stat, r.tab) => Rounds(Len(r.tab), Works(stat, r.tab), Weights(stat, r.tab), r.index)

\* A number below the divisor is its own remainder.
LEMMA SmallMod == ASSUME NEW n \in Nat, n > 0, NEW a \in 0 .. n - 1 PROVE a % n = a
  OBVIOUS

\* One call of the first node, in numbers: the work and load of the first, the
\* second and any other node.
LEMMA FirstCall ==
  \A w0, l0, w1, l1, w, l \in Nat :
    /\ w <= w0 + l
    /\ w1 <= w0 + l1
    /\ (w1 >= w0 - l0 /\ w >= w1 - l1) \/ (w1 >= w0 /\ w >= w0)
    => /\ w <= (w0 + l0) + l
       /\ w >= (w0 + l0) - 2 * l0 - l1
       /\ w1 >= (w0 + l0) - 2 * l0 - 0
       /\ ~(w1 < w0) => w1 >= (w0 + l0) - l0 /\ w >= w1 - l1
  OBVIOUS

\* The first node is given out: before a round, or when nobody is lighter.
LEMMA FirstServed ==
  ASSUME NEW n \in Nat, n > 0, NEW W \in [0 .. n - 1 -> Nat], NEW L \in [0 .. n - 1 -> Nat],
         NEW p, Rounds(n, W, L, p), p # 0 => \A i \in p .. n - 1 : W[i] >= W[0],
         NEW V, V[0] = W[0] + L[0], \A i \in 1 .. n - 1 : V[i] = W[i]
  PROVE  Rounds(n, V, L, IF n > 1 /\ W[1] < W[0] THEN 1 ELSE 0)
  <1> DEFINE q == IF n > 1 /\ W[1] < W[0] THEN 1 ELSE 0
  <1>1. p \in 0 .. n - 1 /\ W[0] \in Nat /\ L[0] \in Nat
    BY DEF Rounds
  <1>2. ASSUME NEW i \in 1 .. n - 1
        PROVE  /\ V[i] <= V[0] + L[i]
               /\ V[i] >= V[0] - 2 * L[0] - (IF i = 1 THEN 0 ELSE L[1])
               /\ ~(W[1] < W[0]) => V[1] >= V[0] - L[0] /\ V[i] >= V[1] - L[1]
    <2>1. /\ 1 \in 1 .. n - 1 /\ W[i] \in Nat /\ L[i] \in Nat /\ W[1] \in Nat /\ L[1] \in Nat
          /\ V[i] = W[i] /\ V[1] = W[1]
      OBVIOUS
    <2>2. W[i] <= W[0] + L[i] /\ W[1] <= W[0] + L[1]
      BY <2>1 DEF Rounds
    <2>3. (W[1] >= W[0] - L[0] /\ W[i] >= W[1] - L[1]) \/ (W[1] >= W[0] /\ W[i] >= W[0])
      <3>1. CASE p = 0
        BY <3>1 DEF Rounds
      <3>2. CASE p # 0
        <4>1. \A j \in 1 .. n - 1 : W[j] >= W[0]
          <5>1. \A j \in 1 .. n - 1 : j < p => W[j] >= W[0]
            BY DEF Rounds
          <5>2. \A j \in 1 .. n - 1 : j < p \/ j \in p .. n - 1
            BY <1>1
          <5> QED BY <3>2, <5>1, <5>2
        <4> QED BY <2>1, <4>1
      <3> QED BY <3>1, <3>2
    <2>4. /\ W[i] <= (W[0] + L[0]) + L[i]
          /\ W[i] >= (W[0] + L[0]) - 2 * L[0] - L[1]
          /\ W[1] >= (W[0] + L[0]) - 2 * L[0] - 0
          /\ ~(W[1] < W[0]) => W[1] >= (W[0] + L[0]) - L[0] /\ W[i] >= W[1] - L[1]
      <3>1. W[0] \in Nat /\ L[0] \in Nat /\ W[1] \in Nat /\ L[1] \in Nat /\ W[i] \in Nat /\ L[i] \in Nat
        BY <1>1, <2>1
      <3> QED BY <2>2, <2>3, <3>1, FirstCall, ZenonT(60)
    <2>5. V[i] >= V[0] - 2 * L[0] - (IF i = 1 THEN 0 ELSE L[1])
      <3>1. CASE i = 1
        BY <2>1, <2>4, <3>1, Zenon
      <3>2. CASE i # 1
        BY <2>1, <2>4, <3>2, Zenon
      <3> QED BY <3>1, <3>2
    <2> QED BY <2>1, <2>4, <2>5, Zenon
  <1>3. q \in 0 .. n - 1 /\ (q = 0 /\ n > 1 => ~(W[1] < W[0])) /\ ~\E i \in 1 .. n - 1 : i < q
    BY <1>1
  <1>4. \A i \in 1 .. n - 1 : n > 1
    OBVIOUS
  <1> HIDE DEF q
  <1>5. Rounds(n, V, L, q)
    BY <1>2, <1>3, <1>4, Zenon DEF Rounds
  <1> QED BY <1>5 DEF q

\* One call of a node that was lighter than the first, in numbers.
LEMMA LighterCall ==
  ASSUME NEW w0 \in Nat, NEW l0 \in Nat, NEW w \in Nat, NEW l \in Nat, NEW x \in Nat,
         w < w0, w >= w0 - 2 * l0 - x
  PROVE  w + l <= w0 + l /\ w + l >= w0 - 2 * l0 - x
  OBVIOUS

\* A lighter node is given out, and those that the scan passed are not lighter.
LEMMA LighterServed ==
  ASSUME NEW n \in Nat, n > 0, NEW W \in [0 .. n - 1 -> Nat], NEW L \in [0 .. n - 1 -> Nat],
         NEW p \in 1 .. n - 1, Rounds(n, W, L, p), NEW m \in p .. n - 1, W[m] < W[0],
         \A i \in p .. m - 1 : W[i] >= W[0],
         NEW V, V[m] = W[m] + L[m], \A i \in 0 .. n - 1 : i # m => V[i] = W[i]
  PROVE  Rounds(n, V, L, IF V[m] >= V[0] THEN (m + 1) % n ELSE m)
  <1>1. m \in 1 .. n - 1 /\ 0 \in 0 .. n - 1 /\ 1 \in 0 .. n - 1 /\ 1 \in 1 .. n - 1
    OBVIOUS
  <1>2. V[0] = W[0] /\ W[0] \in Nat /\ L[0] \in Nat /\ L[1] \in Nat
    <2>1. m # 0
      OBVIOUS
    <2> QED BY <1>1, <2>1
  <1>3. ASSUME NEW i \in 1 .. n - 1
        PROVE  /\ V[i] \in Nat
               /\ V[i] <= V[0] + L[i]
               /\ V[i] >= V[0] - 2 * L[0] - (IF i = 1 THEN 0 ELSE L[1])
               /\ i < m => V[i] >= V[0]
    <2>1. i \in 0 .. n - 1 /\ W[i] \in Nat /\ L[i] \in Nat
      OBVIOUS
    <2>2. /\ W[i] <= W[0] + L[i]
          /\ W[i] >= W[0] - 2 * L[0] - (IF i = 1 THEN 0 ELSE L[1])
          /\ i < p => W[i] >= W[0]
      BY DEF Rounds
    <2>3. CASE i = m
      <3> DEFINE x == IF i = 1 THEN 0 ELSE L[1]
      <3>1. x \in Nat
        BY <1>2
      <3> HIDE DEF x
      <3>2. W[i] >= W[0] - 2 * L[0] - x
        BY <2>2, Zenon DEF x
      <3>3. W[i] < W[0]
        BY <2>3
      <3>4. W[i] + L[i] <= W[0] + L[i] /\ W[i] + L[i] >= W[0] - 2 * L[0] - x
        BY <1>2, <2>1, <3>1, <3>2, <3>3, LighterCall, Zenon
      <3>5. V[i] = W[i] + L[i] /\ V[i] \in Nat /\ ~(i < m)
        BY <2>1, <2>3
      <3> QED BY <1>2, <3>4, <3>5, Zenon DEF x
    <2>4. CASE i # m
      <3>1. V[i] = W[i]
        BY <2>1, <2>4
      <3>2. i < m => i < p \/ i \in p .. m - 1
        BY <1>1
      <3> QED BY <1>2, <2>1, <2>2, <3>1, <3>2, Zenon
    <2> QED BY <2>3, <2>4
  <1>4. CASE ~(V[m] >= V[0])
    <2>1. m \in 0 .. n - 1 /\ m # 0
      BY <1>1
    <2> QED BY <1>3, <1>4, <2>1, Zenon DEF Rounds
  <1>5. CASE V[m] >= V[0] /\ m < n - 1
    <2>1. m + 1 \in 0 .. n - 1 /\ m + 1 # 0 /\ \A i \in 1 .. n - 1 : i < m + 1 => i < m \/ i = m
      BY <1>1, <1>5
    <2>2. (m + 1) % n = m + 1
      BY <2>1, SmallMod
    <2> QED BY <1>3, <1>5, <2>1, <2>2, Zenon DEF Rounds
  <1>6. CASE V[m] >= V[0] /\ m = n - 1
    <2>1. (m + 1) % n = 0
      BY <1>6
    <2>2. \A i \in 1 .. n - 1 : (i < m \/ i = m) /\ ~(i < 0)
      BY <1>6
    <2>3. \A i \in 1 .. n - 1 : V[i] >= V[0]
      BY <1>3, <1>6, <2>2, Zenon
    <2>4. ASSUME NEW i \in 1 .. n - 1 PROVE V[1] >= V[0] - L[0] /\ V[i] >= V[1] - L[1]
      <3>1. V[i] \in Nat /\ V[1] \in Nat /\ V[0] \in Nat /\ L[0] \in Nat /\ L[1] \in Nat
        BY <1>1, <1>2, <1>3
      <3>2. V[i] >= V[0] /\ V[1] >= V[0] /\ V[1] <= V[0] + L[1]
        BY <1>1, <1>3, <2>3
      <3>3. \A a, b, c, d, e \in Nat : c >= a /\ b >= a /\ b <= a + e => b >= a - d /\ c >= b - e
        OBVIOUS
      <3> QED BY <3>1, <3>2, <3>3, Zenon
    <2>5. 0 \in 0 .. n - 1
      OBVIOUS
    <2> QED BY <1>3, <1>6, <2>1, <2>2, <2>4, <2>5, Zenon DEF Rounds
  <1>7. m < n - 1 \/ m = n - 1
    BY <1>1
  <1> QED BY <1>4, <1>5, <1>6, <1>7

\* The nodes of a table are its entries, counted from 0 as in the code.
LEMMA NodeOf ==
  ASSUME NEW t \in Seq(Svr), NEW i \in 0 .. Len(t) - 1
  PROVE  Node(t, i) \in Svr /\ Node(t, i) \in Nodes(t) /\ i + 1 \in DOMAIN t /\ Node(t, i) = t[i + 1]
  <1>1. i + 1 \in 1 .. Len(t) /\ DOMAIN t = 1 .. Len(t) /\ Len(t) \in Nat
    BY LenProperties
  <1> QED BY <1>1 DEF Node, Nodes

\* Work and load are numbers.
LEMMA WorksType ==
  ASSUME NEW st \in [Svr -> Stat], NEW t \in Seq(Svr)
  PROVE  /\ Works(st, t) \in [0 .. Len(t) - 1 -> Nat] /\ Weights(st, t) \in [0 .. Len(t) - 1 -> Nat]
         /\ \A i \in 0 .. Len(t) - 1 : Works(st, t)[i] = Work(st, t, i) /\ Work(st, t, i) \in Nat
  <1>1. ASSUME NEW i \in 0 .. Len(t) - 1
        PROVE  Work(st, t, i) \in Nat /\ st[Node(t, i)].load \in Nat
    <2>1. st[Node(t, i)] \in Stat
      BY NodeOf
    <2>2. st[Node(t, i)].load \in Nat /\ st[Node(t, i)].preAll \in Nat
      BY <2>1, StatIsLoose, Fields
    <2>3. \A a, b \in Nat : a * b \in Nat
      OBVIOUS
    <2> QED BY <2>2, <2>3, Zenon DEF Work
  <1> QED BY <1>1 DEF Works, Weights

\* Tables whose nodes keep load and count keep their works.
LEMMA SameWorks ==
  ASSUME NEW st, NEW st2, NEW t \in Seq(Svr),
         \A s \in Nodes(t) : st2[s].load = st[s].load /\ st2[s].preAll = st[s].preAll
  PROVE  Works(st2, t) = Works(st, t) /\ Weights(st2, t) = Weights(st, t)
  <1>1. \A i \in 0 .. Len(t) - 1 : Node(t, i) \in Nodes(t)
    BY NodeOf
  <1>2. \A i \in 0 .. Len(t) - 1 : /\ Work(st2, t, i) = Work(st, t, i)
                                   /\ st2[Node(t, i)].load = st[Node(t, i)].load
    BY <1>1, Zenon DEF Work
  <1> QED BY <1>2 DEF Works, Weights

\* A call given out is one load more of work, for its node.
LEMMA GrantedWorks ==
  ASSUME NEW st \in [Svr -> Stat], NEW t \in Seq(Svr), NEW m \in 0 .. Len(t) - 1,
         \A i, j \in DOMAIN t : t[i] = t[j] => i = j,
         NEW st2, \A s \in Svr : st2[s] = IF s = Node(t, m) THEN Granted(st[s]) ELSE st[s]
  PROVE  /\ Weights(st2, t) = Weights(st, t)
         /\ Works(st2, t)[m] = Works(st, t)[m] + Weights(st, t)[m]
         /\ \A i \in 0 .. Len(t) - 1 : i # m => Works(st2, t)[i] = Works(st, t)[i]
  <1> DEFINE s == Node(t, m)
  <1>1. s \in Svr /\ st[s] \in Stat
    BY NodeOf
  <1>2. st2[s].load = st[s].load /\ st2[s].preAll = st[s].preAll + 1
    BY <1>1 DEF Granted, Stat
  <1>3. ASSUME NEW i \in 0 .. Len(t) - 1, i # m PROVE Node(t, i) # s
    <2>1. i + 1 # m + 1
      BY <1>3
    <2> QED BY <2>1, NodeOf
  <1>4. Work(st2, t, m) = Work(st, t, m) + st[s].load
    <2>1. st[s].load \in Nat /\ st[s].preAll \in Nat
      BY <1>1, StatIsLoose, Fields
    <2>2. \A a, b \in Nat : a * (b + 1) = a * b + a
      OBVIOUS
    <2>3. st[s].load * (st[s].preAll + 1) = st[s].load * st[s].preAll + st[s].load
      BY <2>1, <2>2
    <2> HIDE DEF s
    <2>4. st2[s].load * st2[s].preAll = st[s].load * st[s].preAll + st[s].load
      BY <1>2, <2>3, Zenon
    <2> QED BY <2>4, Zenon DEF Work, s
  <1>5. ASSUME NEW i \in 0 .. Len(t) - 1, i # m PROVE st2[Node(t, i)] = st[Node(t, i)]
    BY <1>3, <1>5, NodeOf
  <1>6. \A i \in 0 .. Len(t) - 1 : i # m => Work(st2, t, i) = Work(st, t, i)
    BY <1>5, Zenon DEF Work
  <1>7. \A i \in 0 .. Len(t) - 1 : st2[Node(t, i)].load = st[Node(t, i)].load
    BY <1>2, <1>5
  <1> QED BY <1>4, <1>6, <1>7 DEF Works, Weights

\* The least of a set of numbers is in it and not above any of them.
LEMMA MinOfLeast ==
  ASSUME NEW S, S \subseteq Nat, S # {}
  PROVE  MinOf(S) \in S /\ \A y \in S : MinOf(S) <= y
  <1>1. PICK x \in S : \A y \in S : ~(y < x)
    BY LeastOfNat
  <1>2. \A y \in S : x <= y
    BY <1>1
  <1> QED BY <1>2 DEF MinOf

\* What a scan does: it changes the statistics of the table's nodes only, no
\* outcome of a call, and where the next one starts; and with no failure in the
\* period the first node it looks at is given out.
LEMMA ScanEffect ==
  ASSUME IInv, NEW k \in DOMAIN mRouteTable, SelectFrom(k)
  PROVE  LET t     == mRouteTable[k].tab
             start == StartAt(t, mRouteTable[k].index)
         IN  /\ \E i : mRouteTable' = [mRouteTable EXCEPT ![k].index = i]
             /\ \A s \in Svr : stat'[s].err = stat[s].err
             /\ \A s \in Svr \ Nodes(t) : stat'[s] = stat[s]
             /\ Unfailed(stat, t) /\ start \in 0 .. Len(t) - 1 =>
                  /\ \A s \in Svr : stat'[s] = IF s = Node(t, start) THEN Granted(stat[s]) ELSE stat[s]
                  /\ mRouteTable' = [mRouteTable EXCEPT ![k].index = NextIndex(t, start, start, stat')]
  <1> DEFINE t       == mRouteTable[k].tab
             n       == Len(t)
             start   == StartAt(t, mRouteTable[k].index)
             at(j)   == (start + j) % n
             accepts == {j \in 0 .. n - 1 : ~Refuses(stat[Node(t, at(j))])}
             tried   == IF accepts = {} THEN 0 .. n - 1 ELSE 0 .. MinOf(accepts) - 1
             refused == {Node(t, at(j)) : j \in tried}
             one     == Node(t, at(MinOf(accepts)))
             st      == [x \in Svr |->
                           IF x = one THEN Granted(stat[x])
                           ELSE IF x \in refused THEN Refused(stat[x]) ELSE stat[x]]
  <1>1. /\ t \in Seq(Svr) /\ n \in Nat /\ n > 0 /\ start \in Nat /\ Nodes(t) \subseteq OfKind(k)
        /\ DOMAIN t = 1 .. n /\ stat \in [Svr -> Stat]
    BY ScanStart DEF IInv
  <1>2. \A s \in Svr : /\ Granted(stat[s]).err = stat[s].err
                       /\ Refused(stat[s]).err = stat[s].err
                       /\ \A r : [Refused(stat[s]) EXCEPT !.rej = r].err = stat[s].err
    BY <1>1 DEF Granted, Refused, Stat
  <1> HIDE DEF n, start
  <1>3. \A j \in 0 .. n - 1 : at(j) \in 0 .. n - 1 /\ Node(t, at(j)) \in Nodes(t)
    <2>1. ASSUME NEW j \in 0 .. n - 1 PROVE (start + j) % n \in 0 .. n - 1
      BY <1>1
    <2>2. \A i \in 0 .. n - 1 : Node(t, i) \in Nodes(t)
      BY <1>1, NodeOf DEF n
    <2> QED BY <2>1, <2>2
  <1>4. accepts \subseteq 0 .. n - 1 /\ (accepts # {} => MinOf(accepts) \in 0 .. n - 1)
    <2>1. accepts \subseteq 0 .. n - 1 /\ accepts \subseteq Nat
      BY <1>1
    <2> HIDE DEF accepts
    <2> QED BY <2>1, MinOfNat
  <1>5. refused \subseteq Nodes(t) /\ (accepts # {} => one \in Nodes(t))
    <2>1. tried \subseteq 0 .. n - 1
      <3> HIDE DEF accepts
      <3>1. CASE accepts = {}
        BY <3>1
      <3>2. CASE accepts # {}
        <4>1. MinOf(accepts) \in 0 .. n - 1
          BY <1>4, <3>2
        <4> DEFINE m == MinOf(accepts)
        <4> HIDE DEF m
        <4>2. 0 .. m - 1 \subseteq 0 .. n - 1
          BY <1>1, <4>1 DEF m
        <4> QED BY <3>2, <4>2 DEF m
      <3> QED BY <3>1, <3>2
    <2> HIDE DEF tried, accepts, at
    <2> QED BY <1>3, <1>4, <2>1
  <1>6. CASE accepts = {}
    <2>1. /\ stat' = [x \in Svr |->
                       IF x \notin refused THEN stat[x]
                       ELSE [Refused(stat[x]) EXCEPT
                               !.rej = IF x = Node(t, start) THEN @ + 1 ELSE @]]
          /\ mRouteTable' = [mRouteTable EXCEPT ![k].index = start]
      BY <1>6, Zenon DEF SelectFrom, n, start
    <2>2. ~Unfailed(stat, t)
      <3>1. 0 \in 0 .. n - 1
        BY <1>1
      <3>2. Refuses(stat[Node(t, at(0))]) /\ Node(t, at(0)) \in Nodes(t)
        BY <1>3, <1>6, <3>1
      <3> HIDE DEF at
      <3>3. stat[Node(t, at(0))] \in Stat
        BY <1>1, <3>2 DEF OfKind
      <3>4. stat[Node(t, at(0))].err > 0
        BY <3>2, <3>3, RefusesFailing
      <3> QED BY <3>2, <3>4 DEF Unfailed
    <2> HIDE DEF refused
    <2>3. ASSUME NEW s \in Svr PROVE stat'[s].err = stat[s].err /\ (s \notin Nodes(t) => stat'[s] = stat[s])
      <3>1. CASE s \notin refused
        BY <2>1, <3>1
      <3>2. CASE s \in refused
        <4>1. \E r : stat'[s] = [Refused(stat[s]) EXCEPT !.rej = r]
          BY <2>1, <3>2
        <4> QED BY <1>2, <1>5, <3>2, <4>1
      <3> QED BY <3>1, <3>2
    <2> QED BY <2>1, <2>2, <2>3 DEF start
  <1>7. CASE accepts # {}
    <2>1. /\ stat' = st
          /\ mRouteTable' = [mRouteTable EXCEPT
                               ![k].index = NextIndex(t, start, at(MinOf(accepts)), st)]
      BY <1>7, Zenon DEF SelectFrom, n, start
    <2>2. ASSUME NEW s \in Svr PROVE stat'[s].err = stat[s].err /\ (s \notin Nodes(t) => stat'[s] = stat[s])
      <3> HIDE DEF refused, one
      <3> QED BY <1>2, <1>5, <1>7, <2>1
    <2>3. ASSUME Unfailed(stat, t), start \in 0 .. n - 1
          PROVE  at(MinOf(accepts)) = start /\ refused = {}
      <3>1. \A j \in 0 .. n - 1 : ~Refuses(stat[Node(t, at(j))])
        <4>1. \A s \in Nodes(t) : ~Refuses(stat[s])
          <5>1. \A s \in Nodes(t) : stat[s] \in Stat /\ stat[s].err = 0
            BY <1>1, <2>3 DEF OfKind, Unfailed
          <5>2. ~(0 > 0)
            OBVIOUS
          <5> QED BY <5>1, <5>2, RefusesFailing
        <4> HIDE DEF at
        <4> QED BY <1>3, <4>1
      <3>2. 0 \in accepts
        BY <1>1, <3>1
      <3>3. MinOf(accepts) = 0
        <4>1. accepts \subseteq Nat
          BY <1>1
        <4> HIDE DEF accepts
        <4>2. MinOf(accepts) \in Nat /\ MinOf(accepts) <= 0
          BY <3>2, <4>1, MinOfLeast
        <4> QED BY <4>2
      <3>4. (start + 0) % n = start
        BY <1>1, <2>3
      <3>5. tried = {}
        <4> HIDE DEF accepts
        <4>1. tried = 0 .. MinOf(accepts) - 1
          BY <1>7
        <4>2. 0 .. 0 - 1 = {}
          OBVIOUS
        <4> HIDE DEF tried
        <4> QED BY <3>3, <4>1, <4>2, Zenon
      <3> HIDE DEF tried, accepts
      <3> QED BY <3>3, <3>4, <3>5
    <2>4. ASSUME Unfailed(stat, t), start \in 0 .. n - 1
          PROVE  /\ \A s \in Svr : stat'[s] = IF s = Node(t, start) THEN Granted(stat[s]) ELSE stat[s]
                 /\ mRouteTable' = [mRouteTable EXCEPT ![k].index = NextIndex(t, start, start, stat')]
      <3>1. at(MinOf(accepts)) = start /\ refused = {}
        BY <2>3, <2>4
      <3>2. one = Node(t, start)
        BY <3>1, Zenon
      <3>3. stat' = [x \in Svr |->
                       IF x = one THEN Granted(stat[x])
                       ELSE IF x \in refused THEN Refused(stat[x]) ELSE stat[x]]
        BY <2>1
      <3>4. mRouteTable' = [mRouteTable EXCEPT ![k].index = NextIndex(t, start, start, stat')]
        <4> HIDE DEF st, at, accepts
        <4> QED BY <2>1, <3>1, Zenon
      <3> HIDE DEF one, refused
      <3> QED BY <3>1, <3>2, <3>3, <3>4
    <2> HIDE DEF st
    <2> QED BY <2>1, <2>2, <2>4 DEF start, n
  <1> QED BY <1>6, <1>7

\* Where the scan starts: at the first node, or at the first lighter one.
LEMMA ScanChoice ==
  ASSUME NEW t \in Seq(Svr), Len(t) > 0, stat \in [Svr -> Stat],
         NEW p \in 0 .. Len(t) - 1
  PROVE  \/ /\ StartAt(t, p) = 0
            /\ p # 0 => \A i \in p .. Len(t) - 1 : Works(stat, t)[i] >= Works(stat, t)[0]
         \/ /\ p # 0 /\ StartAt(t, p) \in p .. Len(t) - 1
            /\ Works(stat, t)[StartAt(t, p)] < Works(stat, t)[0]
            /\ \A i \in p .. StartAt(t, p) - 1 : Works(stat, t)[i] >= Works(stat, t)[0]
  <1> DEFINE n       == Len(t)
             lighter == {i \in p .. n - 1 : Work(stat, t, i) < Work(stat, t, 0)}
  <1>1. n \in Nat /\ n > 0 /\ 0 \in 0 .. n - 1 /\ p < n
    OBVIOUS
  <1>2. StartAt(t, p) = IF p = 0 \/ lighter = {} THEN 0 ELSE MinOf(lighter)
    BY <1>1, Zenon DEF StartAt
  <1>3. \A i \in 0 .. n - 1 : Works(stat, t)[i] = Work(stat, t, i) /\ Work(stat, t, i) \in Nat
    BY WorksType
  <1>4. \A i \in p .. n - 1 : i \in 0 .. n - 1
    BY <1>1
  <1>5. \A i \in p .. n - 1 : i \notin lighter => Works(stat, t)[i] >= Works(stat, t)[0]
    <2>1. \A a, b \in Nat : ~(a < b) => a >= b
      OBVIOUS
    <2> QED BY <1>1, <1>3, <1>4, <2>1, Zenon
  <1>6. CASE p = 0 \/ lighter = {}
    <2> HIDE DEF n
    <2>1. p # 0 => lighter = {}
      BY <1>6
    <2> HIDE DEF lighter
    <2> QED BY <1>2, <1>5, <1>6, <2>1 DEF n
  <1>7. CASE p # 0 /\ lighter # {}
    <2>1. lighter \subseteq Nat
      BY <1>1
    <2>2. \A i \in lighter : i \in p .. n - 1 /\ Work(stat, t, i) < Work(stat, t, 0)
      OBVIOUS
    <2> HIDE DEF lighter
    <2> DEFINE m == MinOf(lighter)
    <2>3. m \in lighter /\ \A y \in lighter : m <= y
      BY <1>7, <2>1, MinOfLeast
    <2>4. StartAt(t, p) = m
      BY <1>2, <1>7
    <2> HIDE DEF m
    <2>5. m \in p .. n - 1 /\ Works(stat, t)[m] < Works(stat, t)[0]
      BY <1>1, <1>3, <1>4, <2>2, <2>3, Zenon
    <2>6. \A i \in p .. m - 1 : i \in p .. n - 1 /\ ~(m <= i)
      BY <1>1, <2>5
    <2>7. \A i \in p .. m - 1 : Works(stat, t)[i] >= Works(stat, t)[0]
      BY <1>5, <2>3, <2>6
    <2> QED BY <1>7, <2>4, <2>5, <2>7
  <1> QED BY <1>6, <1>7

\* A scan with no failure in the period keeps the shares.
LEMMA ScanRounds ==
  ASSUME IInv, NEW k \in DOMAIN mRouteTable, SelectFrom(k), NEW t, t = mRouteTable[k].tab,
         Unfailed(stat, t), Rounds(Len(t), Works(stat, t), Weights(stat, t), mRouteTable[k].index)
  PROVE  Rounds(Len(t), Works(stat', t), Weights(stat', t), mRouteTable'[k].index)
  <1> DEFINE n == Len(t)
             p == mRouteTable[k].index
             m == StartAt(t, p)
             W == Works(stat, t)
             V == Works(stat', t)
             L == Weights(stat, t)
  <1>1. /\ t \in Seq(Svr) /\ n \in Nat /\ n > 0 /\ DOMAIN t = 1 .. n /\ stat \in [Svr -> Stat]
        /\ mRouteTable[k] \in Route /\ \A i, j \in DOMAIN t : t[i] = t[j] => i = j
    <2>1. /\ t \in Seq(Svr) /\ n \in Nat /\ n > 0 /\ DOMAIN t = 1 .. n
      BY ScanStart DEF IInv
    <2>2. TableOK(k, mRouteTable[k], stat)
      BY DEF IInv, RoutesOK
    <2> QED BY <2>1, <2>2 DEF IInv, TableOK
  <1>2. p \in 0 .. n - 1
    BY DEF Rounds
  <1>3. W \in [0 .. n - 1 -> Nat] /\ L \in [0 .. n - 1 -> Nat]
    BY <1>1, WorksType
  <1>4. \/ /\ m = 0
           /\ p # 0 => \A i \in p .. n - 1 : W[i] >= W[0]
        \/ /\ p # 0 /\ m \in p .. n - 1
           /\ W[m] < W[0]
           /\ \A i \in p .. m - 1 : W[i] >= W[0]
    BY <1>1, <1>2, ScanChoice
  <1>5. m \in 0 .. n - 1
    <2>1. 0 \in 0 .. n - 1 /\ \A i \in p .. n - 1 : i \in 0 .. n - 1
      BY <1>1, <1>2
    <2> HIDE DEF n, m, p, W
    <2> QED BY <1>4, <2>1
  <1>6. /\ \A s \in Svr : stat'[s] = IF s = Node(t, m) THEN Granted(stat[s]) ELSE stat[s]
        /\ mRouteTable' = [mRouteTable EXCEPT ![k].index = NextIndex(t, m, m, stat')]
    BY <1>5, ScanEffect
  <1> HIDE DEF m
  <1>7. /\ Weights(stat', t) = L /\ V[m] = W[m] + L[m]
        /\ \A i \in 0 .. n - 1 : i # m => V[i] = W[i]
    BY <1>1, <1>5, <1>6, GrantedWorks
  <1>8. mRouteTable'[k].index = NextIndex(t, m, m, stat')
    BY <1>1, <1>6 DEF Route
  <1>9. \A i \in 0 .. n - 1 : /\ V[i] = Work(stat', t, i)
                              /\ W[i] = Work(stat, t, i)
    BY DEF Works
  <1> HIDE DEF n, p, W, V, L
  <1>10. CASE m = 0 /\ (p # 0 => \A i \in p .. n - 1 : W[i] >= W[0])
    <2>1. NextIndex(t, m, m, stat') = IF n > 1 /\ W[1] < W[0] THEN 1 ELSE 0
      <3>1. NextIndex(t, m, m, stat') =
              IF n > 1 /\ Work(stat', t, 1) < Work(stat, t, 0) THEN 1 ELSE 0
        BY <1>10, Zenon DEF NextIndex, n
      <3>2. n > 1 => 1 \in 0 .. n - 1 /\ 0 \in 0 .. n - 1 /\ 1 # m
        BY <1>1, <1>10
      <3>3. n > 1 => Work(stat', t, 1) = W[1] /\ Work(stat, t, 0) = W[0]
        BY <1>7, <1>9, <3>2
      <3> QED BY <3>1, <3>3
    <2>2. V[0] = W[0] + L[0] /\ \A i \in 1 .. n - 1 : V[i] = W[i]
      <3>1. \A i \in 1 .. n - 1 : i \in 0 .. n - 1 /\ i # m
        BY <1>10
      <3> QED BY <1>7, <1>10, <3>1
    <2>3. Rounds(n, W, L, p)
      BY Zenon DEF n, W, L, p
    <2>4. Rounds(n, V, L, IF n > 1 /\ W[1] < W[0] THEN 1 ELSE 0)
      BY <1>1, <1>3, <1>10, <2>2, <2>3, FirstServed
    <2> QED BY <1>7, <1>8, <2>1, <2>4 DEF n, V
  <1>11. CASE p # 0 /\ m \in p .. n - 1 /\ W[m] < W[0] /\ \A i \in p .. m - 1 : W[i] >= W[0]
    <2>1. p \in 1 .. n - 1 /\ m # 0 /\ 0 \in 0 .. n - 1
      BY <1>1, <1>2, <1>11
    <2>2. NextIndex(t, m, m, stat') = IF V[m] >= V[0] THEN (m + 1) % n ELSE m
      <3>1. NextIndex(t, m, m, stat') =
              IF Work(stat', t, m) >= Work(stat', t, 0) THEN (m + 1) % n ELSE m
        BY <2>1, Zenon DEF NextIndex, n
      <3> QED BY <1>5, <1>9, <2>1, <3>1
    <2>3. Rounds(n, W, L, p)
      BY Zenon DEF n, W, L, p
    <2>4. Rounds(n, V, L, IF V[m] >= V[0] THEN (m + 1) % n ELSE m)
      <3>1. /\ n \in Nat /\ n > 0 /\ p \in 1 .. n - 1 /\ m \in p .. n - 1 /\ W[m] < W[0]
            /\ \A i \in p .. m - 1 : W[i] >= W[0]
            /\ V[m] = W[m] + L[m] /\ \A i \in 0 .. n - 1 : i # m => V[i] = W[i]
        BY <1>1, <1>7, <1>11, <2>1, Zenon
      <3> QED BY <1>3, <2>3, <3>1, LighterServed, Zenon
    <2> QED BY <1>7, <1>8, <2>2, <2>4 DEF n, V
  <1> QED BY <1>4, <1>10, <1>11

\* A period begins in order, with no call given out.
LEMMA PeriodInitInv == ASSUME PeriodInit PROVE IInv /\ PeriodInv
  <1> DEFINE Of(k) == {s \in Svr : KindOf[s] = k}
             Start(load, limit) == [s \in Svr |-> [InitStat EXCEPT !.load = load[s], !.limit = limit[s]]]
             Listed(load, t) ==
               /\ DOMAIN t = {KindOf[s] : s \in Svr}
               /\ \A k \in DOMAIN t : t[k] \in Tables(Of(k), LAMBDA a, b : load[a] < load[b])
               /\ mRouteTable = [k \in DOMAIN t |-> FreshRoute(t[k], RebuildTm)]
  <1>0. PICK load \in [Svr -> Loads], limit \in [Svr -> {0} \cup ReqMin + 1 .. ReqMax] :
          stat = Start(load, limit) /\ \E t : Listed(load, t)
    <2>1. \E load \in [Svr -> Loads], limit \in [Svr -> {0} \cup ReqMin + 1 .. ReqMax] :
            /\ stat = Start(load, limit)
            /\ \E t \in [{KindOf[s] : s \in Svr} ->
                          UNION {Tables(Of(k), LAMBDA a, b : load[a] < load[b]) : k \in Kind}] :
                 /\ \A k \in DOMAIN t : t[k] \in Tables(Of(k), LAMBDA a, b : load[a] < load[b])
                 /\ mRouteTable = [k \in DOMAIN t |-> FreshRoute(t[k], RebuildTm)]
      BY Zenon DEF PeriodInit
    <2> HIDE DEF Start
    <2>2. PICK load \in [Svr -> Loads], limit \in [Svr -> {0} \cup ReqMin + 1 .. ReqMax] :
            /\ stat = Start(load, limit)
            /\ \E t \in [{KindOf[s] : s \in Svr} ->
                          UNION {Tables(Of(k), LAMBDA a, b : load[a] < load[b]) : k \in Kind}] :
                 /\ \A k \in DOMAIN t : t[k] \in Tables(Of(k), LAMBDA a, b : load[a] < load[b])
                 /\ mRouteTable = [k \in DOMAIN t |-> FreshRoute(t[k], RebuildTm)]
      BY <2>1, Zenon
    <2>3. PICK t \in [{KindOf[s] : s \in Svr} ->
                          UNION {Tables(Of(k), LAMBDA a, b : load[a] < load[b]) : k \in Kind}] :
            /\ \A k \in DOMAIN t : t[k] \in Tables(Of(k), LAMBDA a, b : load[a] < load[b])
            /\ mRouteTable = [k \in DOMAIN t |-> FreshRoute(t[k], RebuildTm)]
      BY <2>2, Zenon
    <2>4. DOMAIN t = {KindOf[s] : s \in Svr}
      OBVIOUS
    <2>5. Listed(load, t)
      BY <2>3, <2>4, Zenon
    <2> HIDE DEF Listed
    <2> QED BY <2>2, <2>5, Zenon
  <1>1. PICK t : stat = Start(load, limit) /\ Listed(load, t)
    <2> HIDE DEF Start, Listed
    <2> QED BY <1>0, Zenon
  <1>2. /\ known = Svr /\ mErrTable = [k \in {} |-> {}] /\ down = [s \in Svr |-> Up]
        /\ detect = [h \in Host |-> "none"] /\ svc = Idle
    BY Zenon DEF PeriodInit
  <1>3. \A s \in Svr : /\ stat[s] \in Stat /\ stat[s].load = load[s]
                       /\ stat[s].preAll = 0 /\ load[s] \in Nat
    <2> HIDE DEF Listed
    <2>1. ASSUME NEW s \in Svr PROVE load[s] \in Nat /\ limit[s] \in Nat
      <3>1. load[s] \in Loads /\ limit[s] \in {0} \cup ReqMin + 1 .. ReqMax
        BY <1>0, Zenon
      <3>2. Loads \subseteq Nat
        BY QosAssumption
      <3>3. \A l \in {0} \cup ReqMin + 1 .. ReqMax : l \in Nat
        BY Positive
      <3> QED BY <3>1, <3>2, <3>3, Zenon
    <2>2. ASSUME NEW s \in Svr
          PROVE  stat[s] = [InitStat EXCEPT !.load = load[s], !.limit = limit[s]]
      BY <1>1
    <2>3. ASSUME NEW s \in Svr
          PROVE  stat[s] \in Stat /\ stat[s].load = load[s] /\ stat[s].preAll = 0
      <3> DEFINE e == [InitStat EXCEPT !.load = load[s], !.limit = limit[s]]
      <3>1. e \in Stat /\ e.load = load[s] /\ e.preAll = 0
        <4> DEFINE a == load[s]
                   b == limit[s]
        <4>1. a \in Nat /\ b \in Nat
          BY <2>1
        <4> HIDE DEF a, b
        <4>2. LET st == [InitStat EXCEPT !.load = a, !.limit = b]
              IN  st \in Stat /\ st.load = a /\ st.preAll = 0
          BY <4>1 DEF InitStat, Stat
        <4> QED BY <4>2 DEF a, b
      <3>2. stat[s] = e
        BY <2>2
      <3> HIDE DEF e
      <3> QED BY <3>1, <3>2
    <2> QED BY <2>1, <2>3
  <1>4. ASSUME NEW k \in DOMAIN mRouteTable
        PROVE  /\ k \in Kind /\ k \in DOMAIN t /\ mRouteTable[k] = FreshRoute(t[k], RebuildTm)
               /\ t[k] \in Seq(Svr) /\ t[k] # <<>> /\ Nodes(t[k]) = OfKind(k)
               /\ \A i, j \in DOMAIN t[k] : i < j => t[k][i] # t[k][j] /\ ~(load[t[k][j]] < load[t[k][i]])
    <2>1. /\ k \in DOMAIN t /\ mRouteTable[k] = FreshRoute(t[k], RebuildTm)
          /\ t[k] \in Tables(Of(k), LAMBDA a, b : load[a] < load[b]) /\ \E s \in Svr : KindOf[s] = k
      BY <1>1, <1>4
    <2>2. /\ t[k] \in [1 .. Cardinality(Of(k)) -> Of(k)] /\ Nodes(t[k]) = Of(k)
          /\ \A i, j \in DOMAIN t[k] : i < j => t[k][i] # t[k][j] /\ ~(load[t[k][j]] < load[t[k][i]])
      BY <2>1, Zenon DEF Tables
    <2>3. Of(k) \subseteq Svr /\ Of(k) # {} /\ Of(k) = OfKind(k) /\ k \in Kind
      BY <2>1, KindType DEF OfKind
    <2> QED BY <2>1, <2>2, <2>3, ArrangementFacts
  <1>5. ASSUME NEW k \in DOMAIN mRouteTable
        PROVE  /\ TableOK(k, mRouteTable[k], stat)
               /\ mRouteTable[k].age = 0 /\ mRouteTable[k].period > 0
               /\ Rounds(Len(mRouteTable[k].tab), Works(stat, mRouteTable[k].tab),
                         Weights(stat, mRouteTable[k].tab), mRouteTable[k].index)
    <2> DEFINE r == mRouteTable[k]
               u == t[k]
    <2>1. r = FreshRoute(u, RebuildTm) /\ u \in Seq(Svr) /\ u # <<>> /\ Nodes(u) = OfKind(k)
      BY <1>4
    <2>2. /\ r \in Route /\ r.tab = u /\ r.age = 0 /\ r.period > 0 /\ r.index = 0
      BY <2>1, QosAssumption DEF FreshRoute, Route
    <2>3. /\ Len(u) \in Nat /\ Len(u) > 0 /\ DOMAIN u = 1 .. Len(u) /\ \A i \in DOMAIN u : u[i] \in Svr
      BY <2>1, LenProperties, EmptySeq
    <2>4. \A i, j \in DOMAIN u : /\ u[i] = u[j] => i = j
                                 /\ i < j => stat[u[i]].load <= stat[u[j]].load
      <3>1. \A i, j \in DOMAIN u : i < j => u[i] # u[j] /\ ~(load[u[j]] < load[u[i]])
        BY <1>4
      <3>2. \A i, j \in DOMAIN u : i < j \/ j < i \/ i = j
        BY <2>3
      <3>3. \A a, b \in Svr : ~(load[b] < load[a]) => stat[a].load <= stat[b].load
        BY <1>3
      <3> HIDE DEF u
      <3> QED BY <2>3, <3>1, <3>2, <3>3
    <2>5. TableOK(k, r, stat)
      <3> HIDE DEF r, u
      <3> QED BY <2>1, <2>2, <2>4 DEF TableOK
    <2>6. Rounds(Len(u), Works(stat, u), Weights(stat, u), 0)
      <3> DEFINE n == Len(u)
                 W == Works(stat, u)
                 L == Weights(stat, u)
      <3>1. \A i \in 0 .. n - 1 : W[i] = 0 /\ L[i] \in Nat
        <4>1. ASSUME NEW i \in 0 .. n - 1 PROVE Work(stat, u, i) = 0 /\ stat[Node(u, i)].load \in Nat
          <5>1. Node(u, i) \in Svr
            BY <2>1, NodeOf
          <5>2. stat[Node(u, i)].preAll = 0 /\ stat[Node(u, i)].load \in Nat
            BY <1>3, <5>1
          <5>3. \A a \in Nat : a * 0 = 0
            OBVIOUS
          <5> QED BY <5>2, <5>3, Zenon DEF Work
        <4> QED BY <4>1 DEF Works, Weights
      <3> HIDE DEF n, W, L
      <3>2. n \in Nat /\ n > 0
        BY <2>3 DEF n
      <3>3. ASSUME NEW i \in 1 .. n - 1
            PROVE  /\ W[i] <= W[0] + L[i]
                   /\ W[i] >= W[0] - 2 * L[0] - (IF i = 1 THEN 0 ELSE L[1])
                   /\ W[1] >= W[0] - L[0] /\ W[i] >= W[1] - L[1]
        <4>1. /\ W[i] = 0 /\ W[0] = 0 /\ W[1] = 0 /\ L[i] \in Nat /\ L[0] \in Nat /\ L[1] \in Nat
          <5>1. i \in 0 .. n - 1 /\ 0 \in 0 .. n - 1 /\ 1 \in 0 .. n - 1
            BY <3>2
          <5> QED BY <3>1, <5>1
        <4> QED BY <4>1
      <3>4. 0 \in 0 .. n - 1 /\ \A i \in 1 .. n - 1 : ~(i < 0)
        BY <3>2
      <3>5. Rounds(n, W, L, 0)
        BY <3>3, <3>4, Zenon DEF Rounds
      <3> QED BY <3>5 DEF n, W, L
    <2> QED BY <2>2, <2>5, <2>6
  <1>6. IInv
    <2>1. stat \in [Svr -> Stat]
      BY <1>1, <1>3
    <2>2. RoutesOK(mRouteTable, stat)
      BY <1>4, <1>5 DEF RoutesOK
    <2>3. Covers(known, mRouteTable, mErrTable)
      <3>1. ASSUME NEW s \in Svr PROVE InRoute(mRouteTable, s)
        <4>1. KindOf[s] \in DOMAIN mRouteTable
          BY <1>1
        <4>2. mRouteTable[KindOf[s]].tab = t[KindOf[s]]
          BY <1>4, <4>1 DEF FreshRoute
        <4> QED BY <1>4, <4>1, <4>2 DEF InRoute, OfKind
      <3>2. \A s \in Svr : ~InList(mErrTable, s)
        BY <1>2 DEF InList
      <3> QED BY <1>2, <3>1, <3>2 DEF Covers
    <2>4. down \in [Svr -> DownSince] /\ detect \in [Host -> Detected]
      BY <1>2 DEF DownSince, Up, Detected
    <2> QED BY <1>2, <2>1, <2>2, <2>3, <2>4 DEF IInv, ListsOK
  <1>7. DOMAIN mErrTable = {}
    BY <1>2
  <1> QED BY <1>5, <1>6, <1>7 DEF PeriodInv

\* Within a period RebuildRoute changes neither statistics nor tables: no kind
\* is due, and no Svr is down.
LEMMA PeriodRebuild ==
  ASSUME IInv, PeriodInv, NEW k \in Kind, RebuildRoute(k)
  PROVE  stat' = stat /\ mRouteTable' = mRouteTable /\ DOMAIN mErrTable' = {}
  <1>1. ErrNodes(k) = {} /\ DOMAIN mErrTable = {} /\ stat \in [Svr -> Stat]
    BY DEF PeriodInv, ErrNodes, IInv
  <1>2. CASE RebuildAllDown(k)
    <2> DEFINE back == Back(ErrNodes(k), down, TRUE)
    <2>1. back = {} /\ ErrNodes(k) \ back = {}
      BY <1>1 DEF Back
    <2>2. /\ mErrTable' = ErrLeft(k, ErrNodes(k) \ back)
          /\ \E avg : /\ mRouteTable' = IF back = {} THEN mRouteTable
                                         ELSE Put(mRouteTable, k, mRouteTable'[k])
                      /\ stat' = [s \in Svr |->
                                    IF s \in back THEN Recovered(stat[s], 1, avg) ELSE stat[s]]
      <3> HIDE DEF back
      <3>1. /\ mErrTable' = ErrLeft(k, ErrNodes(k) \ back)
            /\ \E avg \in AvgErrRates, t \in Tables(back, Unordered) :
                 /\ mRouteTable' = IF back = {} THEN mRouteTable
                                   ELSE Put(mRouteTable, k, FreshRoute(t, DefaultRebuildTm))
                 /\ stat' = [s \in Svr |->
                               IF s \in back THEN Recovered(stat[s], 1, avg) ELSE stat[s]]
        BY <1>2, Zenon DEF RebuildAllDown, back
      <3>2. back = {}
        BY <2>1
      <3> QED BY <3>1, <3>2, Zenon
    <2> HIDE DEF back
    <2>3. mRouteTable' = mRouteTable /\ stat' = [s \in Svr |-> stat[s]]
      BY <2>1, <2>2
    <2>4. mErrTable' = Erase(mErrTable, k)
      BY <2>1, <2>2 DEF ErrLeft
    <2> QED BY <1>1, <2>3, <2>4 DEF Erase
  <1>3. CASE RebuildNotDue(k)
    <2>1. k \in DOMAIN mRouteTable /\ mRouteTable[k].age = 0 /\ mRouteTable[k].period > 0
      BY <1>3 DEF RebuildNotDue, PeriodInv
    <2>2. mRouteTable[k].period \in Nat
      BY <2>1 DEF IInv, RoutesOK, TableOK, Route
    <2>3. ~Late(k)
      BY <2>1, <2>2 DEF Late
    <2> QED BY <1>1, <1>3, <2>3 DEF RebuildNotDue
  <1>4. CASE RebuildDue(k)
    <2>1. k \in DOMAIN mRouteTable /\ Due(k)
      BY <1>4, Zenon DEF RebuildDue
    <2>2. mRouteTable[k].age = 0 /\ mRouteTable[k].period > 0
      BY <2>1 DEF PeriodInv
    <2>3. mRouteTable[k].period \in Nat
      BY <2>1 DEF IInv, RoutesOK, TableOK, Route
    <2> QED BY <2>1, <2>2, <2>3 DEF Due
  <1> QED BY <1>2, <1>3, <1>4 DEF RebuildRoute

\* What a step must keep, table by table, to keep the shares.
LEMMA PeriodKept ==
  ASSUME PeriodInv, DOMAIN mErrTable' = {}, DOMAIN mRouteTable' = DOMAIN mRouteTable,
         \A c \in DOMAIN mRouteTable :
           /\ mRouteTable'[c].tab = mRouteTable[c].tab
           /\ mRouteTable'[c].age = mRouteTable[c].age
           /\ mRouteTable'[c].period = mRouteTable[c].period
           /\ Unfailed(stat', mRouteTable[c].tab) => Unfailed(stat, mRouteTable[c].tab),
         \A c \in DOMAIN mRouteTable : LET t == mRouteTable[c].tab IN
           Unfailed(stat, t) /\ Rounds(Len(t), Works(stat, t), Weights(stat, t), mRouteTable[c].index) =>
             Rounds(Len(t), Works(stat', t), Weights(stat', t), mRouteTable'[c].index)
  PROVE  PeriodInv'
  <1>1. ASSUME NEW c \in DOMAIN mRouteTable
        PROVE  LET r == mRouteTable'[c]
               IN  /\ r.age = 0 /\ r.period > 0
                   /\ Unfailed(stat', r.tab) =>
                        Rounds(Len(r.tab), Works(stat', r.tab), Weights(stat', r.tab), r.index)
    BY <1>1 DEF PeriodInv
  <1> QED BY <1>1 DEF PeriodInv

\* Every step of a period keeps the shares.
LEMMA PeriodStep ==
  ASSUME IInv, PeriodInv, [PeriodNext]_vars
  PROVE  IInv' /\ PeriodInv'
  <1>1. IInv'
    <2>1. [Next]_vars
      BY Zenon DEF PeriodNext, Next
    <2> QED BY <2>1, NextInv
  <1> SUFFICES PeriodInv'
    BY <1>1
  <1>2. CASE stat' = stat /\ mRouteTable' = mRouteTable /\ DOMAIN mErrTable' = {}
    BY <1>2 DEF PeriodInv
  <1>3. ASSUME NEW k \in Kind, RebuildRoute(k) PROVE PeriodInv'
    BY <1>2, <1>3, PeriodRebuild
  <1>4. CASE Select
    <2>1. mErrTable' = mErrTable /\ DOMAIN mErrTable = {}
      BY <1>4 DEF Select, PeriodInv
    <2>2. CASE stat' = stat /\ mRouteTable' = mRouteTable
      BY <1>2, <2>1, <2>2
    <2>3. CASE svc.kind \in DOMAIN mRouteTable /\ SelectFrom(svc.kind)
      <3> DEFINE k == svc.kind
      <3>1. /\ \E i : mRouteTable' = [mRouteTable EXCEPT ![k].index = i]
            /\ \A s \in Svr : stat'[s].err = stat[s].err
            /\ \A s \in Svr \ Nodes(mRouteTable[k].tab) : stat'[s] = stat[s]
        BY <2>3, ScanEffect
      <3> HIDE DEF k
      <3>2. PICK i : mRouteTable' = [mRouteTable EXCEPT ![k].index = i]
        BY <3>1
      <3>3. ASSUME NEW c \in DOMAIN mRouteTable
            PROVE  /\ mRouteTable[c] \in Route /\ mRouteTable[c].tab \in Seq(Svr)
                   /\ Nodes(mRouteTable[c].tab) \subseteq OfKind(c)
        BY <3>3 DEF IInv, RoutesOK, TableOK, Route
      <3>4. DOMAIN mRouteTable' = DOMAIN mRouteTable
        BY <3>2
      <3>5. ASSUME NEW c \in DOMAIN mRouteTable
            PROVE  /\ mRouteTable'[c].tab = mRouteTable[c].tab
                   /\ mRouteTable'[c].age = mRouteTable[c].age
                   /\ mRouteTable'[c].period = mRouteTable[c].period
                   /\ c # k => mRouteTable'[c] = mRouteTable[c]
        BY <3>2, <3>3 DEF Route
      <3>6. ASSUME NEW c \in DOMAIN mRouteTable, Unfailed(stat', mRouteTable[c].tab)
            PROVE  Unfailed(stat, mRouteTable[c].tab)
        BY <3>1, <3>3, <3>6 DEF Unfailed, OfKind
      <3>7. ASSUME NEW c \in DOMAIN mRouteTable, NEW t, t = mRouteTable[c].tab, Unfailed(stat, t),
                   Rounds(Len(t), Works(stat, t), Weights(stat, t), mRouteTable[c].index)
            PROVE  Rounds(Len(t), Works(stat', t), Weights(stat', t), mRouteTable'[c].index)
        <4>1. CASE c = k
          <5>1. /\ svc.kind \in DOMAIN mRouteTable /\ SelectFrom(svc.kind)
                /\ t = mRouteTable[svc.kind].tab
                /\ Rounds(Len(t), Works(stat, t), Weights(stat, t), mRouteTable[svc.kind].index)
            BY <2>3, <3>7, <4>1, Zenon DEF k
          <5>2. Rounds(Len(t), Works(stat', t), Weights(stat', t), mRouteTable'[svc.kind].index)
            BY <3>7, <5>1, ScanRounds
          <5> QED BY <4>1, <5>2, Zenon DEF k
        <4>2. CASE c # k
          <5>1. \A s \in Nodes(t) : stat'[s] = stat[s]
            <6>1. k \in DOMAIN mRouteTable
              BY <2>3 DEF k
            <6>2. Nodes(t) \subseteq OfKind(c) /\ Nodes(mRouteTable[k].tab) \subseteq OfKind(k)
              BY <3>3, <3>7, <6>1
            <6> QED BY <3>1, <4>2, <6>2 DEF OfKind
          <5>2. Works(stat', t) = Works(stat, t) /\ Weights(stat', t) = Weights(stat, t)
            <6>1. t \in Seq(Svr)
              BY <3>3, <3>7
            <6> QED BY <5>1, <6>1, SameWorks
          <5>3. mRouteTable'[c].index = mRouteTable[c].index
            BY <3>5, <4>2
          <5> QED BY <3>7, <5>2, <5>3, Zenon
        <4> QED BY <4>1, <4>2
      <3>8. \A c \in DOMAIN mRouteTable :
              /\ mRouteTable'[c].tab = mRouteTable[c].tab
              /\ mRouteTable'[c].age = mRouteTable[c].age
              /\ mRouteTable'[c].period = mRouteTable[c].period
              /\ Unfailed(stat', mRouteTable[c].tab) => Unfailed(stat, mRouteTable[c].tab)
        BY <3>5, <3>6, Zenon
      <3>9. \A c \in DOMAIN mRouteTable : LET t == mRouteTable[c].tab IN
              Unfailed(stat, t) /\ Rounds(Len(t), Works(stat, t), Weights(stat, t), mRouteTable[c].index) =>
                Rounds(Len(t), Works(stat', t), Weights(stat', t), mRouteTable'[c].index)
        BY <3>7, Zenon
      <3> QED BY <2>1, <3>4, <3>8, <3>9, PeriodKept, Zenon
    <2> QED BY <1>4, <2>2, <2>3 DEF Select
  <1>5. ASSUME NEW x \in Svr, NEW ok \in BOOLEAN, CallerNode(x, ok) PROVE PeriodInv'
    <2>1. /\ mRouteTable' = mRouteTable /\ mErrTable' = mErrTable /\ stat \in [Svr -> Stat]
          /\ stat' = [stat EXCEPT ![x] = IF ok THEN Succeeded(@) ELSE Failed(@)]
      BY <1>5 DEF CallerNode, IInv
    <2>2. ASSUME NEW s \in Svr
          PROVE  /\ stat'[s].load = stat[s].load /\ stat'[s].preAll = stat[s].preAll
                 /\ stat'[s].err = 0 => stat[s].err = 0
      <3>1. /\ Succeeded(stat[s]).load = stat[s].load /\ Succeeded(stat[s]).preAll = stat[s].preAll
            /\ Succeeded(stat[s]).err = stat[s].err
        BY <2>1 DEF Succeeded, Stat
      <3>2. /\ Failed(stat[s]).load = stat[s].load /\ Failed(stat[s]).preAll = stat[s].preAll
            /\ Failed(stat[s]).err = stat[s].err + 1 /\ stat[s].err \in Nat
        BY <2>1 DEF Failed, Stat
      <3>3. stat'[s] \in {stat[s], Succeeded(stat[s]), Failed(stat[s])}
        BY <2>1
      <3> QED BY <3>1, <3>2, <3>3
    <2>3. ASSUME NEW c \in DOMAIN mRouteTable
          PROVE  mRouteTable[c].tab \in Seq(Svr) /\ Nodes(mRouteTable[c].tab) \subseteq Svr
      BY <2>3 DEF IInv, RoutesOK, TableOK, Route, OfKind
    <2>4. ASSUME NEW c \in DOMAIN mRouteTable, Unfailed(stat', mRouteTable[c].tab)
          PROVE  Unfailed(stat, mRouteTable[c].tab)
      BY <2>2, <2>3, <2>4 DEF Unfailed
    <2>5. ASSUME NEW c \in DOMAIN mRouteTable, NEW t, t = mRouteTable[c].tab
          PROVE  Works(stat', t) = Works(stat, t) /\ Weights(stat', t) = Weights(stat, t)
      <3>1. t \in Seq(Svr) /\ \A s \in Nodes(t) : /\ stat'[s].load = stat[s].load
                                                  /\ stat'[s].preAll = stat[s].preAll
        BY <2>2, <2>3, <2>5
      <3> QED BY <3>1, SameWorks
    <2>6. DOMAIN mErrTable' = {}
      BY <2>1 DEF PeriodInv
    <2> QED BY <2>1, <2>4, <2>5, <2>6, PeriodKept
  <1>6. CASE CallerRebuild
    <2>1. svc.kind \in Kind /\ RebuildRoute(svc.kind)
      BY <1>6 DEF CallerRebuild, IInv, Idle, Busy
    <2> QED BY <1>3, <2>1
  <1>7. ASSUME NEW k \in Kind, QueryNode(k) PROVE PeriodInv'
    BY <1>3, <1>7 DEF QueryNode
  <1>8. CASE UNCHANGED vars
    BY <1>2, <1>8 DEF vars, PeriodInv
  <1> QED BY <1>1, <1>4, <1>5, <1>6, <1>7, <1>8 DEF PeriodNext

\* What the shares are in Works and Weights is what Balanced says.
LEMMA PeriodBalanced == ASSUME IInv, PeriodInv PROVE Balanced
  <1> SUFFICES ASSUME NEW k \in DOMAIN mRouteTable, NEW t, t = mRouteTable[k].tab, Unfailed(stat, t),
                      NEW i \in 1 .. Len(t) - 1
               PROVE  /\ Work(stat, t, i) <= Work(stat, t, 0) + stat[Node(t, i)].load
                      /\ Work(stat, t, i) >= Work(stat, t, 0) - 2 * stat[Node(t, 0)].load
                                             - (IF i = 1 THEN 0 ELSE stat[Node(t, 1)].load)
    BY Zenon DEF Balanced, Unfailed
  <1>1. t \in Seq(Svr) /\ Len(t) \in Nat
    BY LenProperties DEF IInv, RoutesOK, TableOK, Route
  <1>2. Rounds(Len(t), Works(stat, t), Weights(stat, t), mRouteTable[k].index)
    BY DEF PeriodInv
  <1>3. i \in 0 .. Len(t) - 1 /\ 0 \in 0 .. Len(t) - 1 /\ 1 \in 0 .. Len(t) - 1
    BY <1>1
  <1>4. \A j \in 0 .. Len(t) - 1 : /\ Works(stat, t)[j] = Work(stat, t, j)
                                   /\ Weights(stat, t)[j] = stat[Node(t, j)].load
    BY DEF Works, Weights
  <1> QED BY <1>2, <1>3, <1>4, Zenon DEF Rounds

\* The weighted round robin shares the calls of a period in which none failed
\* (the scan and mPindex of GetRouteNode), whatever the Svrs, kinds, loads and
\* limits.
THEOREM BalancedCorrect == PeriodSpec => []Balanced
  <1>1. PeriodInit => IInv /\ PeriodInv
    BY PeriodInitInv
  <1>2. IInv /\ PeriodInv /\ [PeriodNext]_vars => (IInv /\ PeriodInv)'
    BY PeriodStep
  <1>3. IInv /\ PeriodInv => Balanced
    BY PeriodBalanced
  <1> QED BY <1>1, <1>2, <1>3, PTL DEF PeriodSpec
==============================================================================
