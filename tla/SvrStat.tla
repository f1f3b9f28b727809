------------------------------- MODULE SvrStat -------------------------------
(***************************************************************************)
(* The per-node statistics of the agent's QoS engine and the arithmetic    *)
(* that turns one period of them into a new admission limit: SvrStat_t of  *)
(* command/Svr.h and ReqRebuild, GetAddCount, RouteCheck of                *)
(* agentserver/src/SvrQos.cpp, as operators on one statistics record.      *)
(*                                                                         *)
(* Rates (floats in the code) are integers out of RateUnit; a comparison   *)
(* of rates is cross-multiplied, so it is exact, and the truncating (int)  *)
(* casts of the code are \div.  Latency enters only through delay_load,    *)
(* which a caller passes in.                                               *)
(***************************************************************************)
EXTENDS Integers

CONSTANTS
  ReqMin, ReqMax,     \* REQ_MIN, REQ_MAX of qos.xml
  RateUnit,           \* the denominator of every rate below
  ErrMin,             \* REQ_ERR_MIN
  ExtendRate,         \* REQ_EXTEND_RATE
  DownErrReq,         \* DOWN_ERR_REQ, consecutive failures that make a suspect
  DownErrRate,        \* DOWN_ERR_RATE, error rate that makes a suspect
  ProbeTimes          \* TIMES, the limit a node comes back with

ASSUME StatAssumption ==
  /\ ReqMin \in Nat \ {0}
  /\ ReqMax \in Nat \ {0}
  /\ RateUnit \in Nat \ {0}
  /\ ErrMin \in Nat
  /\ ExtendRate \in Nat
  /\ DownErrReq \in Nat \ {0}
  /\ DownErrRate \in Nat
  /\ ProbeTimes \in Nat \ {0}

Larger(a, b)  == IF a > b THEN a ELSE b
Smaller(a, b) == IF a < b THEN a ELSE b

Stat == [limit : Nat, reqAll : Nat, rej : Nat, suc : Nat, err : Nat,
         contErr : Nat, preAll : Nat, lastErr : BOOLEAN, lastAlarm : Nat,
         avgErr : Nat, load : Nat]

\* A node nobody has called yet: limit 0 means "not set".
InitStat == [limit |-> 0, reqAll |-> 0, rej |-> 0, suc |-> 0, err |-> 0,
             contErr |-> 0, preAll |-> 0, lastErr |-> FALSE, lastAlarm |-> 0,
             avgErr |-> 0, load |-> 1]

\* The counters of one period, zeroed at its end.
Reset(st) == [st EXCEPT !.reqAll = 0, !.rej = 0, !.suc = 0, !.err = 0,
                        !.contErr = 0, !.preAll = 0]

\* One call outcome reported by a client.  contErr is only ever compared
\* with DownErrReq, so it saturates there.
Succeeded(st) == [st EXCEPT !.suc = @ + 1, !.contErr = 0]
Failed(st)    == [st EXCEPT !.err = @ + 1,
                            !.contErr = Smaller(@ + 1, DownErrReq)]

-----------------------------------------------------------------------------
(* RouteCheck: may this node be handed out once more?                      *)

\* Mutant: the error rate does not matter past the limit.
RefusesAtLimit(st) == st.limit > 0 /\ st.reqAll + 1 >= st.limit

Refuses(st) ==
  /\ st.limit > 0
  /\ st.reqAll + 1 >= st.limit
  /\ st.err * RateUnit > ErrMin * (st.reqAll + 1)

Granted(st) == [st EXCEPT !.reqAll = @ + 1, !.preAll = @ + 1]
Refused(st) == [st EXCEPT !.preAll = @ + 1]

-----------------------------------------------------------------------------
(* ReqRebuild: the end of a period.                                        *)

\* The request count is never below the number of outcomes reported.
Settled(st) == [st EXCEPT !.reqAll = Larger(@, st.err + st.suc)]

\* An unset limit is opened before it is adjusted.
OpenLimit(st) ==
  IF st.limit > 0 THEN st.limit
  ELSE IF st.reqAll > ReqMin THEN st.reqAll ELSE ReqMin + 1

\* The rates of the code times RateUnit * reqAll.
RawErr(st) == st.err * RateUnit
EffErr(st) == IF st.err >= st.reqAll THEN RawErr(st)
              ELSE RawErr(st) - st.avgErr * st.reqAll

\* A low error rate clears the average error rate the node came back with.
Calmed(st) == IF RawErr(st) <= ErrMin * st.reqAll
              THEN [st EXCEPT !.avgErr = 0] ELSE st

WithinErrMin(st) == RawErr(st) <= (ErrMin + st.avgErr) * st.reqAll

GetAddCount(st, limit, overshot, delayLoad) ==
  Larger(ReqMin,
         IF overshot THEN ((st.lastAlarm - st.reqAll) * ExtendRate) \div RateUnit
         ELSE (limit * ExtendRate) \div (RateUnit * delayLoad))

\* Mutant: the limit follows the traffic down as well as up.
ExpandedToTraffic(st, limit, delayLoad) ==
  LET dest     == st.reqAll + (st.reqAll * ExtendRate) \div RateUnit
      overshot == st.lastErr /\ st.suc <= st.lastAlarm
  IN  [st EXCEPT
         !.lastErr = overshot, !.lastAlarm = IF overshot THEN @ ELSE 0,
         !.limit = Smaller(dest, limit + GetAddCount(st, limit, overshot, delayLoad))]

\* lastAlarm means something only while lastErr: it is 0 otherwise.
Expanded(st, limit, delayLoad) ==
  LET dest     == st.reqAll + (st.reqAll * ExtendRate) \div RateUnit
      overshot == st.lastErr /\ st.suc <= st.lastAlarm
  IN  [st EXCEPT
         !.lastErr = overshot,
         !.lastAlarm = IF overshot THEN @ ELSE 0,
         !.limit = IF limit < dest
                   THEN Smaller(dest, limit + GetAddCount(st, limit, overshot, delayLoad))
                   ELSE limit]

Shrunk(st, limit) ==
  [st EXCEPT
     !.lastErr   = st.reqAll > ReqMin,
     !.lastAlarm = IF st.reqAll > ReqMin THEN st.reqAll ELSE 0,
     !.limit     = IF st.reqAll > limit
                   THEN limit - (limit * EffErr(st)) \div (RateUnit * st.reqAll)
                   ELSE st.reqAll - EffErr(st) \div RateUnit]

\* A node suspected to be down is cut to ReqMin + 1, one above the limit that
\* would take it out of the route table.
Suspected(st, errRate) ==
  IF /\ st.limit > ReqMin + 1
     /\ st.contErr >= DownErrReq \/ errRate > DownErrRate * st.reqAll
  THEN [st EXCEPT !.limit = ReqMin + 1] ELSE st

Clamped(st) == [st EXCEPT !.limit = Larger(ReqMin, Smaller(@, ReqMax))]

ReqRebuild(stat, delayLoad) ==
  LET st    == Calmed(Settled(stat))
      limit == OpenLimit(st)
  IN  IF st.reqAll = 0 THEN Reset(stat)
      ELSE IF WithinErrMin(st)
      THEN Reset(Clamped(Suspected(Expanded(st, limit, delayLoad), RawErr(st))))
      ELSE Reset(Clamped(Suspected(Shrunk(st, limit), EffErr(st))))

\* Mutant: a limit never set is taken for a low one.
SelectableIfSet(st) == st.limit > ReqMin

\* RebuildRoute keeps a node in the route table above the minimum limit; a
\* limit never set counts as ReqMin + 1.
Selectable(st) == st.limit = 0 \/ st.limit > ReqMin

\* RebuildErrRoute puts a node back with the probe limit; contErr and preAll
\* are not cleared.
Recovered(st, load, avgErr) ==
  [st EXCEPT !.limit = ProbeTimes, !.load = load, !.avgErr = avgErr,
             !.reqAll = 0, !.rej = 0, !.suc = 0, !.err = 0]
==============================================================================
