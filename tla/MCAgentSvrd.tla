----------------------------- MODULE MCAgentSvrd ------------------------------
(***************************************************************************)
(* An instance of AgentSvrd for TLC, with the pure parts SvrKey, Ping and  *)
(* RouterConfig, whose definitions are evaluated here for small inputs.    *)
(***************************************************************************)
EXTENDS AgentSvrd, SvrKey, Ping, RouterConfig

(* Files that leave everything out, with extreme weights, with the largest  *)
(* rates let through, and some that are refused.                           *)
Absent == [a \in QosAttribute |-> 0]
QosFiles ==
    {[Absent EXCEPT !["RATE_WEIGHT"] = 700000, !["REBUILD"] = 3, !["REQ_ERR_MIN"] = RateUnit - 1],
     [Absent EXCEPT !["REQ_ERR_MIN"] = RateUnit],
     [Absent EXCEPT !["DOWN_ERR_RATE"] = RateUnit + 1]}

RouterFiles ==
    LET off == [mIPAddr |-> "a", mPort |-> 5000, mDisabled |-> 1]
        on  == [mIPAddr |-> "b", mPort |-> 5000, mDisabled |-> 0]
    IN  {<<off, on>>, <<off>>}

(* The theorems about them in AgentSvrd_proofs, for a few Svrs and packets.*)
SomeSvrs == [mGid : 1 .. 2, mXid : {1}, mPort : {-1, 0, 3, 4}, mHost : {1, 2},
             mWeight : {100}, mVersion : {0}]
ASSUME KeysChecked ==
    \A a, b, c \in SomeSvrs :
        /\ ~Before(a, a)
        /\ Before(a, b) /\ Before(b, c) => Before(a, c)
        /\ Found(a, b) <=> SameSvr(a, b)
        /\ Found(Called(a), a) <=> a.mPort \in 0 .. PortRange - 1

SomePackets == [fromDest : BOOLEAN, type : {"reply", "request"}, icmp_id : {1, 3},
                size : {4, 64}, mark : {TRUE}]
SomeArrivals == UNION {[1 .. n -> SomePackets] : n \in 0 .. 2}
ASSUME PingsChecked ==
    /\ \A rest \in SomeArrivals :
          PingHost(TRUE, TRUE, IdRange - 1, <<Pack(IdRange - 1)>> \o rest) = 0
    /\ \A mPid \in {IdRange + 1, IdRange + 3}, all \in SomeArrivals : RecvPacket(mPid, all) < 0
    /\ \E all \in SomeArrivals : RecvPacket(3, all) = 1
    /\ \A all \in SomeArrivals : PingHost(FALSE, TRUE, 3, all) = NOT_PRI

(* Files and command lines for RouterConfig.                               *)
SomeConfs == [file : BOOLEAN, root : {TRUE}, log : BOOLEAN, server : {"whole", "torn", "missing"},
              lines : UNION {[1 .. n -> {"whole", "unsized", "torn"}] : n \in 0 .. 2}]
SomeWords == UNION {[1 .. n -> Letter] : n \in 0 .. 2}
SomeLines == UNION {[1 .. n -> [option : BOOLEAN, word : SomeWords]] : n \in 0 .. 2}
ASSUME StartsChecked ==
    \A base \in SomeConfs, svrs \in {"missing", "there"}, qos \in QosFiles :
        StartsWhole(base, svrs, qos)
ASSUME OptionsChecked == \A argv \in SomeLines : OptionsRead(argv)
=============================================================================
