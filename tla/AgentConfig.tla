----------------------------- MODULE AgentConfig ------------------------------
(***************************************************************************)
(* What AgentSvrd makes of its configuration files (AgentConfig.cpp,       *)
(* wConfig.inl): conf.xml, router.xml and qos.xml, as functions of their   *)
(* contents.  RouterConfig.cpp reads conf.xml and qos.xml in the same way. *)
(*                                                                         *)
(* An attribute is the number that atoi() or atof() finds in it, and 0     *)
(* when it is absent: the code treats both alike.  Rates are numbers out   *)
(* of RateUnit.                                                            *)
(***************************************************************************)
EXTENDS Integers, Sequences

CONSTANTS RateUnit, MAX_ROUTER_NUM

ASSUME ConfigAssumption ==
    /\ RateUnit \in Nat /\ RateUnit > 0 /\ RateUnit % 1000 = 0
    /\ MAX_ROUTER_NUM \in Nat \ {0}

-----------------------------------------------------------------------------
(* qos.xml.                                                                *)

QosAttribute ==
    {"RATE_WEIGHT", "DELAY_WEIGHT", "REBUILD",
     "REQ_MAX", "REQ_MIN", "REQ_ERR_MIN", "REQ_EXTEND_RATE", "PRE_TIME",
     "LIST_MAX", "LIST_MIN", "LIST_ERR_MIN", "LIST_EXTEND_RATE",
     "BEGIN", "INTERVAL", "EXPIRE", "TIMES", "REQ_COUNT", "DOWN_TIME",
     "DOWN_ERR_REQ", "DOWN_ERR_RATE"}

Default ==
    [RATE_WEIGHT |-> 7, DELAY_WEIGHT |-> 1, REBUILD |-> 60,
     REQ_MAX |-> 10000, REQ_MIN |-> 10, REQ_ERR_MIN |-> RateUnit \div 2,
     REQ_EXTEND_RATE |-> RateUnit \div 5, PRE_TIME |-> 4,
     LIST_MAX |-> 400, LIST_MIN |-> 10, LIST_ERR_MIN |-> RateUnit \div 1000,
     LIST_EXTEND_RATE |-> RateUnit \div 5,
     BEGIN |-> 3, INTERVAL |-> 10, EXPIRE |-> 600, TIMES |-> 3, REQ_COUNT |-> 100000,
     DOWN_TIME |-> 600, DOWN_ERR_REQ |-> 10, DOWN_ERR_RATE |-> RateUnit \div 2]

(* What is not positive is replaced.                                       *)
Read(qos) == [a \in QosAttribute |-> IF qos[a] > 0 THEN qos[a] ELSE Default[a]]

(* One weight is more than 100000 times the other.                         *)
Outweighs(x, y) == (x - 1) \div 100000 >= y

Weighed(c) ==
    IF Outweighs(c["RATE_WEIGHT"], c["DELAY_WEIGHT"])
    THEN [c EXCEPT !["RATE_WEIGHT"] = 100000, !["DELAY_WEIGHT"] = 1]
    ELSE IF Outweighs(c["DELAY_WEIGHT"], c["RATE_WEIGHT"])
    THEN [c EXCEPT !["RATE_WEIGHT"] = 1, !["DELAY_WEIGHT"] = 100000]
    ELSE c

(* The settings that make the process exit.                                *)
Refused(c) ==
    \/ ~(1000 * c["REQ_EXTEND_RATE"] > RateUnit /\ c["REQ_EXTEND_RATE"] < 101 * RateUnit)
    \/ c["REQ_ERR_MIN"] >= RateUnit
    \/ c["DOWN_ERR_RATE"] > RateUnit \/ 100 * c["DOWN_ERR_RATE"] < RateUnit
    \/ c["TIMES"] < 3
    \/ c["REBUILD"] < 3

(* A PRE_TIME beyond half a period is replaced by 2, which may be beyond   *)
(* it as well.                                                             *)
Timed(c) == IF c["PRE_TIME"] > c["REBUILD"] \div 2 THEN [c EXCEPT !["PRE_TIME"] = 2] ELSE c

GetQosConf(qos) == Timed(Weighed(Read(qos)))

(* What the engine assumes of its settings (StatAssumption, QosAssumption). *)
Usable(c) ==
    /\ \A a \in {"REQ_MIN", "REQ_MAX", "REQ_ERR_MIN", "REQ_EXTEND_RATE",
                 "DOWN_ERR_REQ", "DOWN_ERR_RATE", "TIMES", "REBUILD", "BEGIN",
                 "DOWN_TIME", "REQ_COUNT"} : c[a] \in Nat \ {0}
    /\ c["REQ_ERR_MIN"] < RateUnit /\ c["DOWN_ERR_RATE"] <= RateUnit
    /\ ~Outweighs(c["RATE_WEIGHT"], c["DELAY_WEIGHT"])
    /\ ~Outweighs(c["DELAY_WEIGHT"], c["RATE_WEIGHT"])

-----------------------------------------------------------------------------
(* router.xml: a sequence of routers.                                      *)

NoRouter == [mIPAddr |-> "", mPort |-> 0, mDisabled |-> 0]

(* The i-th router goes into the i-th place of the array, unless one of    *)
(* its two attributes is missing, or there is no such place.               *)
mRouterConf(routers) ==
    [i \in 1 .. MAX_ROUTER_NUM |->
        IF i \in DOMAIN routers /\ routers[i].mIPAddr # "missing" THEN routers[i] ELSE NoRouter]

Enabled(r) == r.mPort # 0 /\ r.mDisabled = 0 /\ r.mIPAddr # ""

(* The first router that is enabled.  It is the only one ever tried.       *)
GetOneRouterConf(routers) ==
    LET conf    == mRouterConf(routers)
        enabled == {i \in DOMAIN conf : Enabled(conf[i])}
    IN  IF enabled = {} THEN NoRouter ELSE conf[CHOOSE i \in enabled : \A j \in enabled : i <= j]
=============================================================================
