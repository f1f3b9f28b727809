------------------------------ MODULE MCSvrQos -------------------------------
(***************************************************************************)
(* Instances of SvrQos for TLC.                                            *)
(***************************************************************************)
EXTENDS SvrQos, TLC

\* All Svrs are of one kind, each on a host of its own.
OneKind == [s \in Svr |-> CHOOSE k \in Kind : TRUE]
OwnHost == [s \in Svr |-> s]

\* Two kinds share the one host and port.
OtherKinds == CHOOSE f \in [Svr -> Kind] : \A a, b \in Svr : f[a] = f[b] => a = b
OneHost    == [s \in Svr |-> CHOOSE h \in Host : TRUE]

SvrSymmetry == Permutations(Svr)

-----------------------------------------------------------------------------
(* One period in which no Svr is added or deleted, from the state that a     *)
(* rebuild leaves behind: any loads, in order, and any limits above ReqMin.  *)
(* Time stands still, so the period stops where the bounds MaxPre and        *)
(* MaxReports are reached: its runs do not check for deadlock.               *)

PeriodInit ==
  /\ known = Svr
  /\ \E load \in [Svr -> Loads], limit \in [Svr -> {0} \cup ReqMin + 1 .. ReqMax] :
       LET Lists(k) == Tables({s \in Svr : KindOf[s] = k}, LAMBDA a, b : load[a] < load[b])
       IN  /\ stat = [s \in Svr |-> [InitStat EXCEPT !.load = load[s], !.limit = limit[s]]]
           /\ \E t \in [{KindOf[s] : s \in Svr} -> UNION {Lists(k) : k \in Kind}] :
                /\ \A k \in DOMAIN t : t[k] \in Lists(k)
                /\ mRouteTable = [k \in DOMAIN t |-> FreshRoute(t[k], RebuildTm)]
  /\ mErrTable = [k \in {} |-> {}]
  /\ down = [s \in Svr |-> Up]
  /\ detect = [h \in Host |-> "none"]
  /\ svc = Idle

PeriodNext ==
  \/ \E k \in Kind : QueryNode(k)
  \/ Select
  \/ \E s \in Svr, ok \in BOOLEAN : CallerNode(s, ok)
  \/ CallerRebuild

PeriodSpec == PeriodInit /\ [][PeriodNext]_vars
==============================================================================
