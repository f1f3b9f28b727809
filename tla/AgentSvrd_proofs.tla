--------------------------- MODULE AgentSvrd_proofs ---------------------------
(***************************************************************************)
(* The safety of the process AgentSvrd, for any clients, any number of     *)
(* calls, messages and faults, any backlog and any contents of its files:  *)
(* what a call returns tells what became of its request, the process is    *)
(* lost to undefined behaviour in two ways only, and each process handles  *)
(* the messages of its router in their order.  And what is true of its     *)
(* parts without state.                                                    *)
(***************************************************************************)
EXTENDS AgentSvrd, SvrKey, Ping, TLAPS, FiniteSetTheorems, SequenceTheorems, WellFoundedInduction

-----------------------------------------------------------------------------
(* The parts without state: what the configuration promises the engine     *)
(* (AgentConfig), the identity of a Svr (SvrKey), and what a ping can find *)
(* out (Ping).                                                             *)

(* Whatever numbers qos.xml has, the settings of a process that did not    *)
(* exit over them are what the engine assumes (AgentConfig.cpp, GetQosConf): *)
(* no setting is zero or negative, and a bound on an error rate is one     *)
(* that an error rate can pass.                                            *)
THEOREM SettingsUsable ==
  ASSUME NEW qos \in [QosAttribute -> Int],
         ~Refused(Weighed(Read(qos)))
  PROVE  Usable(GetQosConf(qos))
<1> DEFINE r == Read(qos)
           w == Weighed(r)
<1>1. Default \in [QosAttribute -> Nat \ {0}]
  BY ConfigAssumption DEF Default, QosAttribute
<1>2. r \in [QosAttribute -> Nat \ {0}]
  BY <1>1 DEF Read
<1>3. /\ w \in [QosAttribute -> Nat \ {0}]
      /\ ~Outweighs(w["RATE_WEIGHT"], w["DELAY_WEIGHT"])
      /\ ~Outweighs(w["DELAY_WEIGHT"], w["RATE_WEIGHT"])
  <2> HIDE DEF r
  <2>1. CASE Outweighs(r["RATE_WEIGHT"], r["DELAY_WEIGHT"])
    BY <1>2, <2>1 DEF Weighed, QosAttribute, Outweighs
  <2>2. CASE ~Outweighs(r["RATE_WEIGHT"], r["DELAY_WEIGHT"]) /\ Outweighs(r["DELAY_WEIGHT"], r["RATE_WEIGHT"])
    BY <1>2, <2>2 DEF Weighed, QosAttribute, Outweighs
  <2>3. CASE ~Outweighs(r["RATE_WEIGHT"], r["DELAY_WEIGHT"]) /\ ~Outweighs(r["DELAY_WEIGHT"], r["RATE_WEIGHT"])
    BY <1>2, <2>3 DEF Weighed
  <2> QED BY <2>1, <2>2, <2>3
<1>4. w["REQ_ERR_MIN"] < RateUnit /\ w["DOWN_ERR_RATE"] <= RateUnit
  <2>1. ~Refused(w)
    OBVIOUS
  <2> HIDE DEF w
  <2> QED BY <1>3, <2>1, ConfigAssumption DEF Refused, QosAttribute
<1>5. /\ Timed(w) \in [QosAttribute -> Nat \ {0}]
      /\ \A a \in QosAttribute \ {"PRE_TIME"} : Timed(w)[a] = w[a]
  <2> HIDE DEF w
  <2> QED BY <1>3 DEF Timed, QosAttribute
<1> HIDE DEF w
<1>6. Usable(Timed(w))
  BY <1>3, <1>4, <1>5 DEF Usable, QosAttribute
<1> QED BY <1>6 DEF GetQosConf, w

(* operator< is a strict order of the Svrs, and the maps find a Svr by it  *)
(* exactly when operator== holds: the set of known Svrs is a set of keys.  *)
THEOREM SvrsOrdered ==
  ASSUME NEW a \in Svrs, NEW b \in Svrs, NEW c \in Svrs
  PROVE  /\ ~Before(a, a)
         /\ Before(a, b) /\ Before(b, c) => Before(a, c)
         /\ Found(a, b) <=> SameSvr(a, b)
BY DEF Svrs, Before, Found, SameSvr

(* A port survives the cut to 16 bits if it fits into them.                *)
LEMMA CutPort ==
  ASSUME NEW port \in Int
  PROVE  /\ port % PortRange \in Int
         /\ port % PortRange = port <=> port \in 0 .. PortRange - 1
BY KeyAssumption

(* A report finds the Svr that it is about, if the Svr has a port that     *)
(* fits the field of SvrCaller_t, and otherwise never does.                *)
THEOREM ReportFinds ==
  ASSUME NEW a \in Svrs
  PROVE  Found(Called(a), a) <=> a.mPort \in 0 .. PortRange - 1
<1> DEFINE port == a.mPort % PortRange
<1>1. a.mPort \in Int
  BY DEF Svrs
<1>2. port \in Int /\ (port = a.mPort <=> a.mPort \in 0 .. PortRange - 1)
  BY <1>1, CutPort
<1> HIDE DEF port
<1>3. Found(Called(a), a) <=> port = a.mPort
  BY <1>2 DEF Svrs, Before, Found, Called, port
<1> QED BY <1>2, <1>3

(* A process whose number fits into icmp_id finds a host alive that is the *)
(* first to answer it (wPing.cpp, Unpack).                                 *)
THEOREM PingFinds ==
  ASSUME NEW mPid \in Nat, mPid < IdRange, NEW rest \in Arrivals
  PROVE  RecvPacket(mPid, <<Pack(mPid)>> \o rest) = 0
<1> DEFINE all == <<Pack(mPid)>> \o rest
<1>1. all[1] = Pack(mPid) /\ 1 \in DOMAIN all /\ DOMAIN all \subseteq Nat \ {0}
  BY DEF Arrivals, Pack, Packet
<1>2. mPid % IdRange = mPid
  BY PingAssumption
<1>3. Pack(mPid).fromDest /\ Unpack(mPid, Pack(mPid)) = 0
  BY <1>2 DEF Unpack, Pack
<1> HIDE DEF all
<1>4. IsTaken(1, all)
  BY <1>1, <1>3, PingAssumption DEF IsTaken
<1>5. \A i \in DOMAIN all : IsTaken(i, all) => i = 1
  <2> SUFFICES ASSUME NEW i \in DOMAIN all, IsTaken(i, all), i # 1 PROVE FALSE
    OBVIOUS
  <2>1. i \in Nat /\ 1 \in 1 .. i - 1
    BY <1>1 DEF IsTaken
  <2> QED BY <1>1, <1>3, <2>1 DEF IsTaken
<1>6. FirstTaken(all) = 1
  BY <1>1, <1>4, <1>5 DEF FirstTaken
<1>7. RecvPacket(mPid, all) = 0
  BY <1>1, <1>3, <1>4, <1>6 DEF RecvPacket
<1> QED BY <1>7 DEF all

(* One whose number does not fit, as Linux gives out when kernel.pid_max   *)
(* is raised, never finds any host alive, whatever arrives.                *)
THEOREM PingNeverFinds ==
  ASSUME NEW mPid \in Nat, mPid >= IdRange, NEW arrivals \in Arrivals
  PROVE  RecvPacket(mPid, arrivals) < 0
<1>1. ASSUME NEW packet \in Packet PROVE Unpack(mPid, packet) < 0
  <2>1. packet.icmp_id \in 0 .. IdRange - 1
    BY DEF Packet
  <2>2. packet.icmp_id # mPid
    BY <2>1, PingAssumption
  <2> QED BY <2>2 DEF Unpack
<1>2. ASSUME NEW i \in DOMAIN arrivals PROVE arrivals[i] \in Packet
  BY DEF Arrivals
<1>3. ASSUME \E i \in DOMAIN arrivals : IsTaken(i, arrivals)
      PROVE  FirstTaken(arrivals) \in DOMAIN arrivals
  BY <1>3 DEF FirstTaken
<1> QED BY <1>1, <1>2, <1>3 DEF RecvPacket

-----------------------------------------------------------------------------
(* The process.                                                            *)

CallRecord == [client : Client, kind : {"query", "report", "wrong"},
               ret : Server!Return \cup {"connected", "sent"}, got : 0 .. MaxCalls]

(* The calls that are not over.                                            *)
Pending == {n \in DOMAIN call : call[n].ret \notin Server!Return}

(* The connections that have carried nothing.                              *)
Untouched ==
    {n \in Server!Call : inbox[n] = << >> /\ sendBuf[n] = << >> /\ outbox[n] = << >> /\ counted[n] = 0}

(* A client keeps no connection, and is in one call at most: the one of    *)
(* the connection it has.                                                  *)
Clients ==
    /\ \A c \in Client : mConnecting[c] = FALSE
    /\ \A n \in Pending : mTask[call[n].client] = n
    /\ \A c \in Client : mTask[c] # 0 => mTask[c] \in Pending /\ call[mTask[c]].client = c
    /\ open = Pending

(* A connection carries the request and the answer of its own call, has    *)
(* one of them at a time, and its request was counted once if it has the   *)
(* answer.                                                                 *)
Carried ==
    \A n \in Server!Call :
        /\ inbox[n] \in {<< >>, <<n>>} /\ sendBuf[n] \in {<< >>, <<n>>} /\ outbox[n] \in {<< >>, <<n>>}
        /\ counted[n] \in {0, 1}
        /\ inbox[n] # << >> => counted[n] = 0
        /\ sendBuf[n] # << >> => counted[n] = 1 /\ outbox[n] = << >>
        /\ outbox[n] # << >> => counted[n] = 1

(* What the server end of a connection says of its call: only a fault      *)
(* closes it while the client waits, and only a client that has gone makes *)
(* an error of it.                                                         *)
Connections ==
    \A n \in Server!Call :
        /\ n \notin DOMAIN call => state[n] = "none" /\ n \in Untouched
        /\ n \in Pending => state[n] # "none"
        /\ n \in Pending /\ state[n] = "gone" => faults > 0
        /\ n \in reset => n \notin Pending
        /\ n \in DOMAIN events /\ "err" \in events[n] => n \notin Pending

(* What the outcome of a call says of its connection.                      *)
Told ==
    \A n \in DOMAIN call :
        /\ call[n].ret \in {"connected", "refused", "unsent"} => n \in Untouched
        /\ call[n].ret \in {"refused", "unsent"} /\ call[n].kind # "wrong" => faults > 0
        /\ call[n].got \in {0, n}
        /\ call[n].ret = "answered" => counted[n] = 1
        /\ call[n].ret = "lost" /\ call[n].client \in Patient => faults > 0

ServerInv ==
    /\ Server!TypeOK /\ Clients /\ Carried /\ Connections /\ Told
    /\ capacity >= Backlog
    /\ server = "down" => faults > 0

(* The router thread has quit its client only after an error, and what is  *)
(* on the wire follows what was handled.                                   *)
RouterInv ==
    /\ Router!TypeOK
    /\ mStatus = "quit" \/ "err" \in event \/ thread = "undefined" => peer = "reset"
    /\ fd = "none" => event = {} /\ thread # "running"
    /\ (\A i \in DOMAIN sent : sent[i] # 0) => sent = handled \o wire

(* The two threads end together.                                           *)
ProcessInv ==
    /\ conf \in Loaded
    /\ thread = "exited" <=> server = "down"
    /\ thread = "undefined" => server # "up"
    /\ server = "down" => fd = "none"
    /\ fd # "none" => Enabled(conf.router)
    /\ server = "undefined" => Cardinality(Server!mTaskPool) + 1 > Backlog \/ thread = "undefined"

IInv == ServerInv /\ RouterInv /\ ProcessInv

-----------------------------------------------------------------------------
(* Sets and sequences.                                                     *)

LEMMA LeastOfNat ==
    ASSUME NEW S, S \subseteq Nat, S # {}
    PROVE  \E x \in S : \A y \in S : x <= y
  <1>1. PICK x \in S : \A y \in S : ~(<<y, x>> \in OpToRel(<, Nat))
    BY NatLessThanWellFounded, WFMin
  <1>2. \A y \in S : ~(y < x)
    <2>1. \A y \in S : y < x => <<y, x>> \in OpToRel(<, Nat)
      BY DEF OpToRel
    <2> QED BY <1>1, <2>1
  <1> QED BY <1>2

(* The connection that accept() takes is one of the queue.                 *)
LEMMA FirstQueued ==
    ASSUME Server!Queued # {}
    PROVE  Server!Min(Server!Queued) \in Server!Queued
  <1>1. Server!Queued \subseteq Nat
    BY AgentSvrdAssumption DEF AgentSvrdAssumption, Server!Queued, Server!Conn
  <1>2. \E x \in Server!Queued : \A y \in Server!Queued : x <= y
    BY <1>1, LeastOfNat
  <1> QED BY <1>2 DEF Server!Min

LEMMA MinOfTwo ==
    ASSUME NEW a \in Int, NEW b \in Int
    PROVE  Server!Min({a, b}) = IF a <= b THEN a ELSE b
  <1>1. \E x \in {a, b} : \A y \in {a, b} : x <= y
    OBVIOUS
  <1> DEFINE m == Server!Min({a, b})
  <1>2. m \in {a, b} /\ \A y \in {a, b} : m <= y
    BY <1>1 DEF Server!Min
  <1> QED BY <1>2

LEMMA ServerCardinality == ASSUME NEW S PROVE Server!Cardinality(S) = Cardinality(S)
  BY Zenon DEF Server!Cardinality, Cardinality

(* The calls as a sequence.                                                *)
LEMMA CallsAre ==
    ASSUME ServerInv
    PROVE  /\ call \in Seq(CallRecord) /\ Len(call) \in 0 .. MaxCalls
           /\ DOMAIN call = 1 .. Len(call) /\ \A n \in DOMAIN call : call[n] \in CallRecord
           /\ \A n \in DOMAIN call :
                 /\ n \in Server!Call /\ call[n].client \in Client
                 /\ call[n].ret \in Server!Return \cup {"connected", "sent"}
           /\ Pending \subseteq DOMAIN call /\ MaxCalls \in Nat
  <1>1. call \in Seq(CallRecord) /\ Len(call) <= MaxCalls
    BY DEF ServerInv, Server!TypeOK, CallRecord
  <1>2. MaxCalls \in Nat
    BY AgentSvrdAssumption DEF AgentSvrdAssumption
  <1> DEFINE R == CallRecord
  <1> HIDE DEF R
  <1>3. /\ Len(call) \in 0 .. MaxCalls
        /\ DOMAIN call = 1 .. Len(call) /\ \A n \in DOMAIN call : call[n] \in R
    <2>1. call \in Seq(R)
      BY <1>1 DEF R
    <2> QED BY <1>1, <1>2, <2>1
  <1>4. \A n \in DOMAIN call :
           /\ n \in Server!Call /\ call[n].client \in Client
           /\ call[n].ret \in Server!Return \cup {"connected", "sent"}
    <2> SUFFICES ASSUME NEW n \in DOMAIN call
                 PROVE  /\ n \in Server!Call /\ call[n].client \in Client
                        /\ call[n].ret \in Server!Return \cup {"connected", "sent"}
      OBVIOUS
    <2>1. n \in Server!Call
      BY <1>2, <1>3 DEF Server!Call
    <2>2. call[n] \in CallRecord
      BY <1>3 DEF R
    <2> QED BY <2>1, <2>2 DEF CallRecord
  <1> QED BY <1>1, <1>2, <1>3, <1>4 DEF R, Pending

(* The call that a client is in is the one of its connection.              *)
LEMMA CurrentIs ==
    ASSUME ServerInv, NEW c \in Client
    PROVE  Server!Current(c) = mTask[c]
  <1> DEFINE P == {n \in DOMAIN call : call[n].client = c /\ call[n].ret \notin Server!Return}
  <1>1. mTask[c] \in {0} \cup Server!Conn
    BY DEF ServerInv, Server!TypeOK, Server!NULL
  <1>2. P \subseteq {mTask[c]}
    BY DEF ServerInv, Clients, Pending
  <1>3. mTask[c] # 0 => mTask[c] \in P
    BY DEF ServerInv, Clients, Pending
  <1>4. 0 \notin P
    BY CallsAre
  <1>5. {0} \cup P = {0, mTask[c]}
    BY <1>2, <1>3, <1>4
  <1>6. mTask[c] \in Nat
    BY <1>1, AgentSvrdAssumption DEF Server!Conn, AgentSvrdAssumption
  <1> DEFINE m == Server!Max({0, mTask[c]})
  <1>7. \E x \in {0, mTask[c]} : \A y \in {0, mTask[c]} : x >= y
    BY <1>6
  <1>8. m \in {0, mTask[c]} /\ \A y \in {0, mTask[c]} : m >= y
    BY <1>7 DEF Server!Max
  <1>9. m = mTask[c]
    BY <1>6, <1>8
  <1> QED BY <1>5, <1>9 DEF Server!Current

(* A call begins.                                                          *)
LEMMA Begins ==
    ASSUME ServerInv, NEW r \in CallRecord, Len(call) < MaxCalls, call' = Append(call, r)
    PROVE  /\ call' \in Seq(CallRecord) /\ Len(call') = Len(call) + 1
           /\ Len(call) + 1 \in Server!Call /\ Len(call) + 1 \notin DOMAIN call
           /\ DOMAIN call' = DOMAIN call \cup {Len(call) + 1}
           /\ call'[Len(call) + 1] = r /\ \A n \in DOMAIN call : call'[n] = call[n]
           /\ Pending' = IF r.ret \in Server!Return THEN Pending ELSE Pending \cup {Len(call) + 1}
  <1> DEFINE R == CallRecord
             m == Len(call) + 1
  <1>1. call \in Seq(R) /\ r \in R /\ Len(call) \in Nat /\ DOMAIN call = 1 .. Len(call)
    BY CallsAre
  <1> HIDE DEF R
  <1>2. /\ call' \in Seq(R) /\ Len(call') = m
        /\ call'[m] = r /\ \A n \in 1 .. Len(call) : call'[n] = call[n]
    BY <1>1, AppendProperties
  <1>3. m \in Server!Call /\ m \notin DOMAIN call
    BY <1>1, CallsAre DEF Server!Call
  <1>4. DOMAIN call' = DOMAIN call \cup {m}
    BY <1>1, <1>2
  <1> HIDE DEF m
  <1>5. Pending' = IF r.ret \in Server!Return THEN Pending ELSE Pending \cup {m}
    BY <1>1, <1>2, <1>3, <1>4 DEF Pending, Server!Return
  <1> QED BY <1>1, <1>2, <1>3, <1>4, <1>5 DEF m, R

(* A call goes on, or ends.                                                *)
LEMMA Proceeds ==
    ASSUME ServerInv, NEW n \in DOMAIN call, NEW r \in Server!Return \cup {"connected", "sent"},
           NEW g \in 0 .. MaxCalls,
           \/ g = call[n].got /\ call' = [call EXCEPT ![n].ret = r]
           \/ call' = [call EXCEPT ![n].got = g, ![n].ret = r]
    PROVE  /\ call' \in Seq(CallRecord) /\ Len(call') = Len(call) /\ DOMAIN call' = DOMAIN call
           /\ call'[n].client = call[n].client /\ call'[n].kind = call[n].kind
           /\ call'[n].ret = r /\ call'[n].got = g
           /\ \A m \in DOMAIN call \ {n} : call'[m] = call[m]
           /\ Pending' = IF r \in Server!Return THEN Pending \ {n} ELSE Pending \cup {n}
  <1>1. /\ call \in Seq(CallRecord) /\ call[n] \in CallRecord
        /\ DOMAIN call = 1 .. Len(call) /\ Len(call) \in Nat
    BY CallsAre
  <1> DEFINE q == [call[n] EXCEPT !.ret = r]
             w == [call[n] EXCEPT !.got = g, !.ret = r]
  <1>2. q \in CallRecord /\ w \in CallRecord
    BY <1>1 DEF CallRecord
  <1>3. /\ q.client = call[n].client /\ q.kind = call[n].kind /\ q.ret = r /\ q.got = call[n].got
        /\ w.client = call[n].client /\ w.kind = call[n].kind /\ w.ret = r /\ w.got = g
    BY <1>1 DEF CallRecord
  <1>4. call' = [call EXCEPT ![n] = q] \/ call' = [call EXCEPT ![n] = w]
    BY Zenon
  <1> DEFINE R == CallRecord
  <1>5. PICK v \in R : /\ call' = [call EXCEPT ![n] = v]
                       /\ v.client = call[n].client /\ v.kind = call[n].kind
                       /\ v.ret = r /\ v.got = g
    <2> HIDE DEF q, w
    <2>1. CASE g = call[n].got /\ call' = [call EXCEPT ![n].ret = r]
      <3>1. call' = [call EXCEPT ![n] = q]
        BY <2>1, Zenon DEF q
      <3> QED BY <1>2, <1>3, <2>1, <3>1
    <2>2. CASE call' = [call EXCEPT ![n].got = g, ![n].ret = r]
      <3>1. call' = [call EXCEPT ![n] = w]
        BY <2>2, Zenon DEF w
      <3> QED BY <1>2, <1>3, <3>1
    <2> QED BY <2>1, <2>2
  <1> HIDE DEF R, q, w
  <1>6. call \in Seq(R)
    BY <1>1 DEF R
  <1>7. /\ call' \in Seq(R) /\ Len(call') = Len(call) /\ DOMAIN call' = DOMAIN call
        /\ call'[n] = v /\ \A m \in DOMAIN call \ {n} : call'[m] = call[m]
    BY <1>5, <1>6
  <1>8. Pending' = IF r \in Server!Return THEN Pending \ {n} ELSE Pending \cup {n}
    BY <1>5, <1>7 DEF Pending, Server!Return
  <1> QED BY <1>5, <1>7, <1>8 DEF R

-----------------------------------------------------------------------------
(* The clients.                                                            *)

(* What no step of a client changes.                                       *)
ServerSide == <<reset, server, capacity, events, sendBuf, writing, counted, faults>>

(* A call that begins has done nothing yet.                                *)
LEMMA BeginsTold ==
    ASSUME ServerInv, NEW r \in CallRecord, Len(call) < MaxCalls, call' = Append(call, r),
           r.got = 0, r.ret \in {"connected", "refused"},
           r.ret = "refused" /\ r.kind # "wrong" => faults > 0,
           UNCHANGED <<inbox, outbox, sendBuf, counted, faults>>
    PROVE  Told' /\ Untouched' = Untouched /\ Len(call) + 1 \in Untouched
  <1> DEFINE m == Len(call) + 1
  <1>1. /\ m \in Server!Call /\ m \notin DOMAIN call /\ DOMAIN call' = DOMAIN call \cup {m}
        /\ call'[m] = r /\ \A n \in DOMAIN call : call'[n] = call[n]
    BY Begins
  <1> HIDE DEF m
  <1>2. Untouched' = Untouched
    BY DEF Untouched
  <1>3. m \in Untouched
    BY <1>1 DEF ServerInv, Connections
  <1>4. Told'
    <2> SUFFICES ASSUME NEW n \in DOMAIN call'
                 PROVE  /\ call'[n].ret \in {"connected", "refused", "unsent"} => n \in Untouched
                        /\ call'[n].ret \in {"refused", "unsent"} /\ call'[n].kind # "wrong" => faults > 0
                        /\ call'[n].got \in {0, n}
                        /\ call'[n].ret = "answered" => counted[n] = 1
                        /\ call'[n].ret = "lost" /\ call'[n].client \in Patient => faults > 0
      BY <1>2 DEF Told
    <2>1. CASE n = m
      BY <1>1, <1>3, <2>1
    <2>2. CASE n \in DOMAIN call
      BY <1>1, <2>2 DEF ServerInv, Told
    <2> QED BY <1>1, <2>1, <2>2
  <1> QED BY <1>2, <1>3, <1>4 DEF m

(* A call with wrong arguments, which goes nowhere.                        *)
LEMMA WrongParamKeeps ==
    ASSUME ServerInv, NEW c \in Client, Server!WrongParam(c)
    PROVE  ServerInv' /\ server' = server /\ Server!mTaskPool' = Server!mTaskPool
  <1> DEFINE r == [client |-> c, kind |-> "wrong", ret |-> "refused", got |-> 0]
             m == Len(call) + 1
  <1>1. r \in CallRecord /\ r.ret = "refused" /\ r.kind = "wrong" /\ r.got = 0 /\ r.client = c
    BY CallsAre DEF CallRecord, Server!Return
  <1>2. /\ Len(call) < MaxCalls /\ call' = Append(call, r)
        /\ UNCHANGED <<mTask, mConnecting, open, state, inbox, outbox, ServerSide>>
    BY DEF Server!WrongParam, Server!kernelVars, Server!serverVars, ServerSide
  <1> HIDE DEF r
  <1>3. /\ call' \in Seq(CallRecord) /\ Len(call') = Len(call) + 1
        /\ m \in Server!Call /\ m \notin DOMAIN call /\ DOMAIN call' = DOMAIN call \cup {m}
        /\ call'[m] = r /\ \A n \in DOMAIN call : call'[n] = call[n] /\ n \in Server!Call
        /\ Pending' = Pending /\ Pending \subseteq DOMAIN call
    BY <1>1, <1>2, Begins, CallsAre DEF Server!Return
  <1> HIDE DEF m
  <1>4. Server!mTaskPool' = Server!mTaskPool /\ Untouched' = Untouched
    BY <1>2 DEF Server!mTaskPool, Untouched, ServerSide
  <1>5. Server!TypeOK'
    <2>1. call' \in Seq(CallRecord) /\ Len(call') <= MaxCalls
      BY <1>2, <1>3, CallsAre
    <2> QED BY <1>2, <1>4, <2>1 DEF ServerInv, Server!TypeOK, CallRecord, ServerSide
  <1>6. Clients'
    BY <1>2, <1>3 DEF ServerInv, Clients
  <1>7. Carried'
    BY <1>2 DEF ServerInv, Carried, ServerSide
  <1>8. Told' /\ m \in Untouched
    BY <1>1, <1>2, BeginsTold DEF ServerSide, m
  <1>9. Connections'
    BY <1>2, <1>3, <1>4, <1>8 DEF ServerInv, Connections, ServerSide
  <1> QED BY <1>2, <1>4, <1>5, <1>6, <1>7, <1>8, <1>9 DEF ServerInv, ServerSide

(* A call when AgentSvrd does not listen.                                  *)
LEMMA ConnectRefusedKeeps ==
    ASSUME ServerInv, NEW c \in Client, NEW kind \in {"query", "report"},
           Server!ConnectRefused(c, kind)
    PROVE  ServerInv' /\ server' = server /\ Server!mTaskPool' = Server!mTaskPool
  <1> DEFINE r == [client |-> c, kind |-> kind, ret |-> "refused", got |-> 0]
             m == Len(call) + 1
  <1>1. r \in CallRecord /\ r.ret = "refused" /\ r.kind = kind /\ r.got = 0 /\ r.client = c
    BY CallsAre DEF CallRecord, Server!Return
  <1>2. /\ Len(call) < MaxCalls /\ call' = Append(call, r) /\ server = "down" /\ mTask[c] = 0
        /\ mConnecting' = [mConnecting EXCEPT ![c] = FALSE]
        /\ mTask' = [mTask EXCEPT ![c] = 0] /\ open' = open \ {0}
        /\ UNCHANGED <<state, inbox, outbox, ServerSide>>
    BY CurrentIs DEF Server!ConnectRefused, Server!CloseAgent, Server!NULL,
                     Server!kernelVars, Server!serverVars, ServerSide
  <1> HIDE DEF r
  <1>3. /\ call' \in Seq(CallRecord) /\ Len(call') = Len(call) + 1
        /\ m \in Server!Call /\ m \notin DOMAIN call /\ DOMAIN call' = DOMAIN call \cup {m}
        /\ call'[m] = r /\ \A n \in DOMAIN call : call'[n] = call[n] /\ n \in Server!Call
        /\ Pending' = Pending /\ Pending \subseteq DOMAIN call
    BY <1>1, <1>2, Begins, CallsAre DEF Server!Return
  <1>4. Told' /\ m \in Untouched /\ Untouched' = Untouched
    BY <1>1, <1>2, BeginsTold DEF ServerInv, ServerSide
  <1> HIDE DEF m
  <1>5. Server!mTaskPool' = Server!mTaskPool
    BY <1>2 DEF Server!mTaskPool
  <1>6. mTask' = mTask /\ mConnecting' = mConnecting /\ open' = open
    <2>1. mTask \in [Client -> {0} \cup Server!Conn] /\ mConnecting \in [Client -> BOOLEAN]
      BY DEF ServerInv, Server!TypeOK, Server!NULL
    <2>2. 0 \notin open
      BY AgentSvrdAssumption DEF ServerInv, Server!TypeOK, Server!Conn
    <2>3. mConnecting[c] = FALSE
      BY DEF ServerInv, Clients
    <2> QED BY <1>2, <2>1, <2>2, <2>3
  <1>7. Server!TypeOK'
    <2>1. call' \in Seq(CallRecord) /\ Len(call') <= MaxCalls
      BY <1>2, <1>3, CallsAre
    <2> QED BY <1>2, <1>5, <1>6, <2>1 DEF ServerInv, Server!TypeOK, CallRecord, ServerSide
  <1>8. Clients' /\ Carried'
    BY <1>2, <1>3, <1>6 DEF ServerInv, Clients, Carried, ServerSide
  <1>9. Connections'
    BY <1>2, <1>3, <1>4 DEF ServerInv, Connections, ServerSide
  <1> QED BY <1>2, <1>4, <1>5, <1>7, <1>8, <1>9 DEF ServerInv, ServerSide

(* A call for which the kernel completes a connection.                     *)
LEMMA ConnectAgentKeeps ==
    ASSUME ServerInv, NEW c \in Client, NEW kind \in {"query", "report"},
           Server!ConnectAgent(c, kind)
    PROVE  ServerInv' /\ server' = server /\ Server!mTaskPool' = Server!mTaskPool
  <1> DEFINE r == [client |-> c, kind |-> kind, ret |-> "connected", got |-> 0]
             m == Len(call) + 1
  <1>1. r \in CallRecord /\ r.ret = "connected" /\ r.kind = kind /\ r.got = 0 /\ r.client = c
    BY CallsAre DEF CallRecord, Server!Return
  <1>2. /\ Len(call) < MaxCalls /\ call' = Append(call, r) /\ mTask[c] = 0
        /\ UNCHANGED <<mConnecting, inbox, outbox, ServerSide>>
    BY CurrentIs DEF Server!ConnectAgent, Server!serverVars, ServerSide
  <1>3. /\ call' \in Seq(CallRecord) /\ Len(call') = m
        /\ m \in Server!Call /\ m \notin DOMAIN call /\ DOMAIN call' = DOMAIN call \cup {m}
        /\ call'[m] = r /\ \A n \in DOMAIN call : call'[n] = call[n] /\ n \in Server!Call
        /\ Pending' = Pending \cup {m} /\ Pending \subseteq DOMAIN call
    <2> HIDE DEF r
    <2> QED BY <1>1, <1>2, Begins, CallsAre DEF Server!Return
  <1>4. /\ mTask' = [mTask EXCEPT ![c] = m]
        /\ open' = (open \ {0}) \cup {m}
        /\ state' = [state EXCEPT ![m] = "queued"]
    <2>1. mConnecting[c] = FALSE
      BY DEF ServerInv, Clients
    <2> QED BY <1>2, <1>3, <2>1 DEF Server!ConnectAgent, Server!NULL
  <1> HIDE DEF r
  <1>5. Told' /\ m \in Untouched /\ Untouched' = Untouched
    BY <1>1, <1>2, BeginsTold DEF ServerSide
  <1> HIDE DEF m
  <1>6. /\ state \in [Server!Conn -> {"none", "queued", "task", "gone"}] /\ m \in Server!Conn
        /\ state[m] = "none"
        /\ mTask \in [Client -> {0} \cup Server!Conn]
    BY <1>3 DEF ServerInv, Server!TypeOK, Server!NULL, Connections, Server!Conn, Server!Call
  <1>7. Server!mTaskPool' = Server!mTaskPool
    BY <1>4, <1>6 DEF Server!mTaskPool
  <1>8. open' = open \cup {m}
    <2>1. 0 \notin open
      BY AgentSvrdAssumption DEF ServerInv, Server!TypeOK, Server!Conn
    <2> QED BY <1>4, <2>1
  <1>9. Server!TypeOK'
    <2>1. call' \in Seq(CallRecord) /\ Len(call') <= MaxCalls
      BY <1>2, <1>3, CallsAre DEF m
    <2>2. /\ mTask' \in [Client -> {0} \cup Server!Conn]
          /\ state' \in [Server!Conn -> {"none", "queued", "task", "gone"}]
          /\ open' \subseteq Server!Conn
      BY <1>4, <1>6, <1>8 DEF ServerInv, Server!TypeOK
    <2> QED BY <1>2, <1>7, <2>1, <2>2 DEF ServerInv, Server!TypeOK, CallRecord, ServerSide, Server!NULL
  <1>10. Clients'
    <2>1. \A n \in Pending : call[n].client # c
      BY <1>2, <1>3 DEF ServerInv, Clients
    <2>2. \A n \in Pending' : mTask'[call'[n].client] = n
      <3> SUFFICES ASSUME NEW n \in Pending' PROVE mTask'[call'[n].client] = n
        OBVIOUS
      <3>1. CASE n = m
        BY <1>1, <1>3, <1>4, <1>6, <3>1
      <3>2. CASE n \in Pending
        <4>1. call'[n] = call[n] /\ call[n].client \in Client /\ mTask[call[n].client] = n
          BY <1>3, <3>2, CallsAre DEF ServerInv, Clients
        <4> QED BY <1>4, <1>6, <2>1, <3>2, <4>1
      <3> QED BY <1>3, <3>1, <3>2
    <2>3. \A d \in Client : mTask'[d] # 0 => mTask'[d] \in Pending' /\ call'[mTask'[d]].client = d
      <3> SUFFICES ASSUME NEW d \in Client, mTask'[d] # 0
                   PROVE  mTask'[d] \in Pending' /\ call'[mTask'[d]].client = d
        OBVIOUS
      <3>1. CASE d = c
        BY <1>1, <1>3, <1>4, <1>6, <3>1
      <3>2. CASE d # c
        <4>1. mTask'[d] = mTask[d]
          BY <1>4, <1>6, <3>2
        <4> QED BY <1>3, <4>1 DEF ServerInv, Clients
      <3> QED BY <3>1, <3>2
    <2>4. open' = Pending' /\ \A d \in Client : mConnecting'[d] = FALSE
      BY <1>2, <1>3, <1>8 DEF ServerInv, Clients
    <2> QED BY <2>2, <2>3, <2>4 DEF Clients
  <1>11. Carried'
    BY <1>2 DEF ServerInv, Carried, ServerSide
  <1>12. Connections'
    <2>1. m \notin reset /\ m \notin DOMAIN events
      <3>1. m \notin Server!mTaskPool
        BY <1>6 DEF Server!mTaskPool
      <3>2. m # 0
        BY <1>6, CallsAre DEF Server!Conn
      <3>3. reset \subseteq Server!mTaskPool /\ DOMAIN events \subseteq Server!mTaskPool \cup {0}
        BY DEF ServerInv, Server!TypeOK, Server!Listener
      <3> QED BY <3>1, <3>2, <3>3
    <2> SUFFICES ASSUME NEW n \in Server!Call
                 PROVE  /\ n \notin DOMAIN call' => state'[n] = "none" /\ n \in Untouched'
                        /\ n \in Pending' => state'[n] # "none"
                        /\ n \in Pending' /\ state'[n] = "gone" => faults' > 0
                        /\ n \in reset' => n \notin Pending'
                        /\ n \in DOMAIN events' /\ "err" \in events'[n] => n \notin Pending'
      BY DEF Connections
    <2>2. CASE n = m
      BY <1>2, <1>3, <1>4, <1>6, <2>1, <2>2 DEF ServerSide
    <2>3. CASE n # m
      <3>1. state'[n] = state[n]
        BY <1>4, <1>6, <2>3 DEF Server!Conn, Server!Call
      <3> QED BY <1>2, <1>3, <1>5, <2>3, <3>1 DEF ServerInv, Connections, ServerSide
    <2> QED BY <2>2, <2>3
  <1> QED BY <1>2, <1>5, <1>7, <1>9, <1>10, <1>11, <1>12 DEF ServerInv, ServerSide

(* What the connection of a client that is in a call is.                   *)
LEMMA InCallIs ==
    ASSUME ServerInv, NEW c \in Client, mTask[c] # 0
    PROVE  /\ mTask[c] \in DOMAIN call /\ mTask[c] \in Pending /\ mTask[c] \in Server!Call
           /\ mTask[c] \in Server!Conn /\ mTask[c] # 0
           /\ call[mTask[c]].client = c
           /\ \A n \in Pending \ {mTask[c]} : call[n].client # c
           /\ call[mTask[c]].kind \in {"query", "report", "wrong"}
           /\ call[mTask[c]].got \in 0 .. MaxCalls
  <1>1. /\ mTask[c] \in DOMAIN call /\ mTask[c] \in Pending /\ mTask[c] \in Server!Call
        /\ call[mTask[c]].client = c
    BY CallsAre DEF ServerInv, Clients
  <1>2. call[mTask[c]] \in CallRecord
    BY <1>1, CallsAre
  <1>3. \A n \in Pending \ {mTask[c]} : call[n].client # c
    BY DEF ServerInv, Clients
  <1> QED BY <1>1, <1>2, <1>3 DEF CallRecord, Server!Call, Server!Conn

(* The end of a call gives the client's connection up.                     *)
LEMMA Ends ==
    ASSUME ServerInv, NEW c \in Client, mTask[c] # 0,
           NEW g \in 0 .. MaxCalls, NEW r \in Server!Return,
           \/ g = call[mTask[c]].got /\ call' = [call EXCEPT ![mTask[c]].ret = r]
           \/ call' = [call EXCEPT ![mTask[c]].got = g, ![mTask[c]].ret = r],
           Server!CloseAgent(c, mTask[c])
    PROVE  /\ Clients' /\ Pending' = Pending \ {mTask[c]}
           /\ call' \in Seq(CallRecord) /\ Len(call') <= MaxCalls
           /\ mTask' \in [Client -> {0} \cup Server!Conn] /\ mConnecting' \in [Client -> BOOLEAN]
           /\ open' \subseteq Server!Conn
  <1> DEFINE n == mTask[c]
  <1>1. /\ n \in DOMAIN call /\ n \in Pending /\ n # 0 /\ call[n].client = c
        /\ \A m \in Pending \ {n} : call[m].client # c
    BY InCallIs
  <1>2. /\ call' \in Seq(CallRecord) /\ Len(call') = Len(call)
        /\ \A m \in DOMAIN call \ {n} : call'[m] = call[m]
        /\ Pending' = Pending \ {n}
    BY <1>1, Proceeds
  <1>3. /\ mTask \in [Client -> {0} \cup Server!Conn] /\ mConnecting \in [Client -> BOOLEAN]
        /\ open \subseteq Server!Conn
    BY DEF ServerInv, Server!TypeOK, Server!NULL
  <1>4. /\ mTask' = [mTask EXCEPT ![c] = 0] /\ mConnecting' = [mConnecting EXCEPT ![c] = FALSE]
        /\ open' = open \ {n}
    BY DEF Server!CloseAgent, Server!NULL
  <1> HIDE DEF n
  <1>5. \A m \in Pending' : mTask'[call'[m].client] = m
    <2> SUFFICES ASSUME NEW m \in Pending \ {n} PROVE mTask'[call'[m].client] = m
      BY <1>2
    <2>1. call'[m] = call[m] /\ call[m].client \in Client /\ call[m].client # c
          /\ mTask[call[m].client] = m
      BY <1>1, <1>2, CallsAre DEF ServerInv, Clients
    <2> QED BY <1>3, <1>4, <2>1
  <1>6. \A d \in Client : mTask'[d] # 0 => mTask'[d] \in Pending' /\ call'[mTask'[d]].client = d
    <2> SUFFICES ASSUME NEW d \in Client, mTask'[d] # 0
                 PROVE  mTask'[d] \in Pending' /\ call'[mTask'[d]].client = d
      OBVIOUS
    <2>1. d # c /\ mTask'[d] = mTask[d]
      BY <1>3, <1>4
    <2>2. mTask[d] \in Pending /\ call[mTask[d]].client = d
      BY <2>1 DEF ServerInv, Clients
    <2>3. mTask[d] # n
      BY <1>1, <2>1, <2>2
    <2> QED BY <1>2, <2>1, <2>2, <2>3, CallsAre
  <1>7. open' = Pending' /\ \A d \in Client : mConnecting'[d] = FALSE
    BY <1>2, <1>3, <1>4 DEF ServerInv, Clients
  <1>8. mTask' \in [Client -> {0} \cup Server!Conn] /\ mConnecting' \in [Client -> BOOLEAN]
    BY <1>3, <1>4
  <1> QED BY <1>2, <1>3, <1>4, <1>5, <1>6, <1>7, <1>8, CallsAre DEF Clients, n

(* The connections after a step of a client that leaves the server end as  *)
(* it is, and ends the call or not.                                        *)
LEMMA ServerEndKeeps ==
    ASSUME ServerInv, Pending' \subseteq Pending, DOMAIN call' = DOMAIN call,
           DOMAIN call \subseteq Server!Call,
           \A m \in Server!Call : m \notin DOMAIN call => m \in Untouched',
           UNCHANGED <<state, ServerSide>>
    PROVE  Connections' /\ Server!mTaskPool' = Server!mTaskPool
  <1>1. Connections'
    BY DEF ServerInv, Connections, ServerSide
  <1> QED BY <1>1 DEF Server!mTaskPool

(* The request is sent, or is not.                                         *)
LEMMA SyncSendKeeps ==
    ASSUME ServerInv, NEW c \in Client, Server!SyncSend(c)
    PROVE  ServerInv' /\ server' = server /\ Server!mTaskPool' = Server!mTaskPool
  <1> DEFINE n == mTask[c]
  <1>1. mTask[c] # 0 /\ call[n].ret = "connected" /\ UNCHANGED <<state, outbox, ServerSide>>
    BY CurrentIs DEF Server!SyncSend, Server!serverVars, ServerSide
  <1>2. /\ n \in DOMAIN call /\ n \in Pending /\ n \in Server!Call /\ n \in Server!Conn
        /\ call[n].got \in 0 .. MaxCalls
    BY <1>1, InCallIs
  <1>3. n \in Untouched /\ inbox \in [Server!Conn -> Seq(Server!Call)]
    BY <1>1, <1>2 DEF ServerInv, Told, Server!TypeOK
  <1>4. CASE /\ Server!Ret(n, "sent")
             /\ inbox' = [inbox EXCEPT ![n] = IF state[n] = "gone" THEN @ ELSE Append(@, n)]
             /\ UNCHANGED <<mTask, mConnecting, open>>
    <2>1. /\ call' \in Seq(CallRecord) /\ Len(call') = Len(call) /\ DOMAIN call' = DOMAIN call
          /\ call'[n].client = call[n].client /\ call'[n].kind = call[n].kind
          /\ call'[n].ret = "sent" /\ call'[n].got = call[n].got
          /\ \A m \in DOMAIN call \ {n} : call'[m] = call[m]
          /\ Pending' = Pending
      <3>1. "sent" \in Server!Return \cup {"connected", "sent"} /\ "sent" \notin Server!Return
        BY DEF Server!Return
      <3>2. call' = [call EXCEPT ![n].ret = "sent"]
        BY <1>4 DEF Server!Ret
      <3>3. Pending \cup {n} = Pending
        BY <1>2
      <3> HIDE DEF n
      <3> QED BY <1>2, <3>1, <3>2, <3>3, Proceeds
    <2> HIDE DEF n
    <2>2. inbox'[n] \in {<< >>, <<n>>} /\ inbox' \in [Server!Conn -> Seq(Server!Call)]
          /\ \A m \in Server!Conn \ {n} : inbox'[m] = inbox[m]
      <3>1. inbox[n] = << >>
        BY <1>3 DEF Untouched
      <3>2. Append(inbox[n], n) = <<n>> /\ <<n>> \in Seq(Server!Call)
        BY <1>2, <3>1
      <3> QED BY <1>2, <1>3, <1>4, <3>1, <3>2
    <2>3. Clients'
      <3>1. \A m \in DOMAIN call : call'[m].client = call[m].client
        BY <2>1
      <3>2. Pending \subseteq DOMAIN call
        BY CallsAre
      <3> QED BY <1>4, <2>1, <3>1, <3>2 DEF ServerInv, Clients
    <2>4. Carried'
      <3> SUFFICES ASSUME NEW m \in Server!Call
                   PROVE  /\ inbox'[m] \in {<< >>, <<m>>} /\ sendBuf[m] \in {<< >>, <<m>>}
                          /\ outbox[m] \in {<< >>, <<m>>}
                          /\ counted[m] \in {0, 1}
                          /\ inbox'[m] # << >> => counted[m] = 0
                          /\ sendBuf[m] # << >> => counted[m] = 1 /\ outbox[m] = << >>
                          /\ outbox[m] # << >> => counted[m] = 1
        BY <1>1 DEF Carried, ServerSide
      <3>1. CASE m = n
        BY <1>3, <2>2, <3>1 DEF Untouched
      <3>2. CASE m # n
        BY <2>2, <3>2 DEF ServerInv, Carried, Server!Call, Server!Conn
      <3> QED BY <3>1, <3>2
    <2>5. \A m \in Server!Call \ {n} : m \in Untouched => m \in Untouched'
      BY <1>1, <2>2 DEF Untouched, Server!Call, Server!Conn, ServerSide
    <2>6. Connections' /\ Server!mTaskPool' = Server!mTaskPool
      <3>1. \A m \in Server!Call : m \notin DOMAIN call => m \in Untouched'
        BY <1>2, <2>5 DEF ServerInv, Connections
      <3> QED BY <1>1, <2>1, <3>1, CallsAre, ServerEndKeeps
    <2>7. Told'
      <3> SUFFICES ASSUME NEW m \in DOMAIN call
                   PROVE  /\ call'[m].ret \in {"connected", "refused", "unsent"} => m \in Untouched'
                          /\ call'[m].ret \in {"refused", "unsent"} /\ call'[m].kind # "wrong" => faults > 0
                          /\ call'[m].got \in {0, m}
                          /\ call'[m].ret = "answered" => counted[m] = 1
                          /\ call'[m].ret = "lost" /\ call'[m].client \in Patient => faults > 0
        BY <1>1, <2>1 DEF Told, ServerSide
      <3>1. CASE m = n
        BY <2>1, <3>1 DEF ServerInv, Told
      <3>2. CASE m # n
        BY <2>1, <2>5, <3>2, CallsAre DEF ServerInv, Told
      <3> QED BY <3>1, <3>2
    <2>8. Server!TypeOK'
      <3>1. Len(call') <= MaxCalls
        BY <2>1, CallsAre
      <3> QED BY <1>1, <1>4, <2>1, <2>2, <2>6, <3>1 DEF ServerInv, Server!TypeOK, CallRecord, ServerSide
    <2> QED BY <1>1, <2>3, <2>4, <2>6, <2>7, <2>8 DEF ServerInv, ServerSide
  <1>5. CASE /\ state[n] = "gone"
             /\ Server!Ret(n, "unsent") /\ Server!CloseAgent(c, n) /\ UNCHANGED inbox
    <2>1. "unsent" \in Server!Return /\ call' = [call EXCEPT ![n].ret = "unsent"]
      BY <1>5 DEF Server!Return, Server!Ret
    <2>2. /\ DOMAIN call' = DOMAIN call
          /\ call'[n].ret = "unsent" /\ call'[n].got = call[n].got
          /\ \A m \in DOMAIN call \ {n} : call'[m] = call[m]
      <3> HIDE DEF n
      <3> QED BY <1>2, <2>1, Proceeds
    <2>3. /\ Clients' /\ Pending' = Pending \ {n}
          /\ call' \in Seq(CallRecord) /\ Len(call') <= MaxCalls
          /\ mTask' \in [Client -> {0} \cup Server!Conn] /\ mConnecting' \in [Client -> BOOLEAN]
          /\ open' \subseteq Server!Conn
      BY <1>1, <1>2, <1>5, <2>1, Ends
    <2> HIDE DEF n
    <2>4. Untouched' = Untouched /\ Carried'
      BY <1>1, <1>5 DEF Untouched, ServerInv, Carried, ServerSide
    <2>5. Connections' /\ Server!mTaskPool' = Server!mTaskPool
      <3>1. \A m \in Server!Call : m \notin DOMAIN call => m \in Untouched'
        BY <2>4 DEF ServerInv, Connections
      <3> QED BY <1>1, <2>2, <2>3, <3>1, CallsAre, ServerEndKeeps
    <2>6. Told'
      <3>1. faults > 0
        BY <1>2, <1>5 DEF ServerInv, Connections
      <3> SUFFICES ASSUME NEW m \in DOMAIN call
                   PROVE  /\ call'[m].ret \in {"connected", "refused", "unsent"} => m \in Untouched
                          /\ call'[m].got \in {0, m}
                          /\ call'[m].ret = "answered" => counted[m] = 1
        BY <1>1, <2>2, <2>4, <3>1 DEF Told, ServerSide
      <3>2. CASE m = n
        BY <1>3, <2>2, <3>2 DEF ServerInv, Told
      <3>3. CASE m # n
        BY <2>2, <3>3 DEF ServerInv, Told
      <3> QED BY <3>2, <3>3
    <2>7. Server!TypeOK'
      BY <1>1, <1>5, <2>3, <2>5 DEF ServerInv, Server!TypeOK, CallRecord, ServerSide, Server!NULL
    <2> QED BY <1>1, <2>3, <2>4, <2>5, <2>6, <2>7 DEF ServerInv, ServerSide
  <1> QED BY <1>4, <1>5, CurrentIs DEF Server!SyncSend

(* The answer is received: it is the one to the request of this call.      *)
LEMMA SyncRecvKeeps ==
    ASSUME ServerInv, NEW c \in Client, Server!SyncRecv(c)
    PROVE  ServerInv' /\ server' = server /\ Server!mTaskPool' = Server!mTaskPool
  <1> DEFINE n == mTask[c]
  <1>1. /\ mTask[c] # 0 /\ outbox[n] # << >> /\ UNCHANGED <<state, inbox, ServerSide>>
        /\ call' = [call EXCEPT ![n].got = Head(outbox[n]),
                                ![n].ret = IF call[Head(outbox[n])].kind = call[n].kind
                                           THEN "answered" ELSE "lost"]
        /\ outbox' = [outbox EXCEPT ![n] = Tail(@)]
        /\ Server!CloseAgent(c, n)
    BY CurrentIs DEF Server!SyncRecv, Server!Waiting, Server!serverVars, ServerSide
  <1>2. n \in DOMAIN call /\ n \in Pending /\ n \in Server!Call /\ n \in Server!Conn
    BY <1>1, InCallIs
  <1>3. outbox[n] = <<n>> /\ counted[n] = 1
    BY <1>1, <1>2 DEF ServerInv, Carried
  <1>4. n \in 0 .. MaxCalls /\ "answered" \in Server!Return
    BY <1>2, CallsAre DEF Server!Conn, Server!Return
  <1>5. call' = [call EXCEPT ![n].got = n, ![n].ret = "answered"]
    <2>1. Head(outbox[n]) = n
      BY <1>3
    <2> HIDE DEF n
    <2> QED BY <1>1, <2>1, Zenon
  <1>6. /\ DOMAIN call' = DOMAIN call /\ call'[n].ret = "answered" /\ call'[n].got = n
        /\ \A m \in DOMAIN call \ {n} : call'[m] = call[m]
    <2> HIDE DEF n
    <2> QED BY <1>2, <1>4, <1>5, Proceeds
  <1>7. /\ Clients' /\ Pending' = Pending \ {n}
        /\ call' \in Seq(CallRecord) /\ Len(call') <= MaxCalls
        /\ mTask' \in [Client -> {0} \cup Server!Conn] /\ mConnecting' \in [Client -> BOOLEAN]
        /\ open' \subseteq Server!Conn
    BY <1>1, <1>4, <1>5, Ends
  <1> HIDE DEF n
  <1>8. /\ outbox'[n] = << >> /\ \A m \in Server!Conn \ {n} : outbox'[m] = outbox[m]
        /\ outbox' \in [Server!Conn -> Seq(Server!Call)]
    <2>1. outbox \in [Server!Conn -> Seq(Server!Call)]
      BY DEF ServerInv, Server!TypeOK
    <2>2. Tail(outbox[n]) = << >> /\ << >> \in Seq(Server!Call)
      BY <1>3
    <2> QED BY <1>1, <1>2, <2>1, <2>2
  <1>9. \A m \in Server!Call \ {n} : m \in Untouched => m \in Untouched'
    BY <1>1, <1>8 DEF Untouched, Server!Call, Server!Conn, ServerSide
  <1>10. Carried'
    <2> SUFFICES ASSUME NEW m \in Server!Call
                 PROVE  /\ inbox[m] \in {<< >>, <<m>>} /\ sendBuf[m] \in {<< >>, <<m>>}
                        /\ outbox'[m] \in {<< >>, <<m>>}
                        /\ counted[m] \in {0, 1}
                        /\ inbox[m] # << >> => counted[m] = 0
                        /\ sendBuf[m] # << >> => counted[m] = 1 /\ outbox'[m] = << >>
                        /\ outbox'[m] # << >> => counted[m] = 1
      BY <1>1 DEF Carried, ServerSide
    <2>1. outbox'[m] \in {outbox[m], << >>}
      BY <1>8 DEF Server!Call, Server!Conn
    <2> QED BY <2>1 DEF ServerInv, Carried
  <1>11. Connections' /\ Server!mTaskPool' = Server!mTaskPool
    <2>1. \A m \in Server!Call : m \notin DOMAIN call => m \in Untouched'
      BY <1>2, <1>9 DEF ServerInv, Connections
    <2> QED BY <1>1, <1>6, <1>7, <2>1, CallsAre, ServerEndKeeps
  <1>12. Told'
    <2> SUFFICES ASSUME NEW m \in DOMAIN call
                 PROVE  /\ call'[m].ret \in {"connected", "refused", "unsent"} => m \in Untouched'
                        /\ call'[m].ret \in {"refused", "unsent"} /\ call'[m].kind # "wrong" => faults > 0
                        /\ call'[m].got \in {0, m}
                        /\ call'[m].ret = "answered" => counted[m] = 1
                        /\ call'[m].ret = "lost" /\ call'[m].client \in Patient => faults > 0
      BY <1>1, <1>6 DEF Told, ServerSide
    <2>1. CASE m = n
      BY <1>3, <1>6, <2>1
    <2>2. CASE m # n
      BY <1>6, <1>9, <2>2, CallsAre DEF ServerInv, Told
    <2> QED BY <2>1, <2>2
  <1>13. Server!TypeOK'
    BY <1>1, <1>7, <1>8, <1>11 DEF ServerInv, Server!TypeOK, CallRecord, ServerSide, Server!NULL
  <1> QED BY <1>1, <1>7, <1>10, <1>11, <1>12, <1>13 DEF ServerInv, ServerSide

(* The client gives up, or finds its connection closed.                    *)
LEMMA SyncRecvFailsKeeps ==
    ASSUME ServerInv, NEW c \in Client, Server!SyncRecvFails(c)
    PROVE  ServerInv' /\ server' = server /\ Server!mTaskPool' = Server!mTaskPool
  <1> DEFINE n == mTask[c]
  <1>1. /\ mTask[c] # 0 /\ UNCHANGED <<state, inbox, outbox, ServerSide>>
        /\ call[n].ret = "sent" /\ (state[n] = "gone" \/ c \notin Patient)
        /\ call' = [call EXCEPT ![n].ret = "lost"]
        /\ Server!CloseAgent(c, n)
    BY CurrentIs DEF Server!SyncRecvFails, Server!Waiting, Server!kernelVars, Server!serverVars,
                     ServerSide, Server!Ret
  <1>2. /\ n \in DOMAIN call /\ n \in Pending /\ n \in Server!Call /\ n \in Server!Conn
        /\ call[n].client = c /\ call[n].got \in 0 .. MaxCalls
    BY <1>1, InCallIs
  <1>3. "lost" \in Server!Return
    BY DEF Server!Return
  <1>4. /\ DOMAIN call' = DOMAIN call /\ call'[n].ret = "lost" /\ call'[n].got = call[n].got
        /\ call'[n].client = c
        /\ \A m \in DOMAIN call \ {n} : call'[m] = call[m]
    <2> HIDE DEF n
    <2> QED BY <1>1, <1>2, <1>3, Proceeds
  <1>5. /\ Clients' /\ Pending' = Pending \ {n}
        /\ call' \in Seq(CallRecord) /\ Len(call') <= MaxCalls
        /\ mTask' \in [Client -> {0} \cup Server!Conn] /\ mConnecting' \in [Client -> BOOLEAN]
        /\ open' \subseteq Server!Conn
    BY <1>1, <1>2, <1>3, Ends
  <1> HIDE DEF n
  <1>6. Untouched' = Untouched /\ Carried'
    BY <1>1 DEF Untouched, ServerInv, Carried, ServerSide
  <1>7. Connections' /\ Server!mTaskPool' = Server!mTaskPool
    <2>1. \A m \in Server!Call : m \notin DOMAIN call => m \in Untouched'
      BY <1>6 DEF ServerInv, Connections
    <2> QED BY <1>1, <1>4, <1>5, <2>1, CallsAre, ServerEndKeeps
  <1>8. Told'
    <2>1. c \in Patient => faults > 0
      BY <1>1, <1>2 DEF ServerInv, Connections
    <2> SUFFICES ASSUME NEW m \in DOMAIN call
                 PROVE  /\ call'[m].ret \in {"connected", "refused", "unsent"} => m \in Untouched
                        /\ call'[m].ret \in {"refused", "unsent"} /\ call'[m].kind # "wrong" => faults > 0
                        /\ call'[m].got \in {0, m}
                        /\ call'[m].ret = "answered" => counted[m] = 1
                        /\ call'[m].ret = "lost" /\ call'[m].client \in Patient => faults > 0
      BY <1>1, <1>4, <1>6 DEF Told, ServerSide
    <2>2. CASE m = n
      BY <1>4, <2>1, <2>2 DEF ServerInv, Told
    <2>3. CASE m # n
      BY <1>4, <2>3 DEF ServerInv, Told
    <2> QED BY <2>2, <2>3
  <1>9. Server!TypeOK'
    BY <1>1, <1>5, <1>7 DEF ServerInv, Server!TypeOK, CallRecord, ServerSide, Server!NULL
  <1> QED BY <1>1, <1>5, <1>6, <1>7, <1>8, <1>9 DEF ServerInv, ServerSide

(* What holds of the server and its clients still holds after a step of a  *)
(* client, and the server is where it was.                                 *)
LEMMA ClientKeeps ==
    ASSUME ServerInv, Server!Calls \/ \E c \in Client : Server!InCall(c)
    PROVE  ServerInv' /\ server' = server /\ Server!mTaskPool' = Server!mTaskPool
  <1>1. ASSUME NEW c \in Client, Server!HlbsQuerySvr(c) \/ Server!HlbsNotifyRes(c)
        PROVE  ServerInv' /\ server' = server /\ Server!mTaskPool' = Server!mTaskPool
    BY <1>1, WrongParamKeeps, ConnectAgentKeeps, ConnectRefusedKeeps
       DEF Server!HlbsQuerySvr, Server!HlbsNotifyRes
  <1>2. ASSUME NEW c \in Client, Server!InCall(c)
        PROVE  ServerInv' /\ server' = server /\ Server!mTaskPool' = Server!mTaskPool
    BY <1>2, SyncSendKeeps, SyncRecvKeeps, SyncRecvFailsKeeps DEF Server!InCall
  <1> QED BY <1>1, <1>2 DEF Server!Calls

-----------------------------------------------------------------------------
(* The loop of AgentSvrd.                                                  *)

ClientSide == <<call, mTask, mConnecting, open>>

LEMMA ServerParts ==
    ASSUME ServerInv
    PROVE  /\ state \in [Server!Conn -> {"none", "queued", "task", "gone"}]
           /\ inbox \in [Server!Conn -> Seq(Server!Call)] /\ outbox \in [Server!Conn -> Seq(Server!Call)]
           /\ sendBuf \in [Server!Conn -> Seq(Server!Call)] /\ counted \in [Server!Call -> Nat]
           /\ reset \subseteq Server!mTaskPool /\ writing \subseteq Server!mTaskPool
           /\ DOMAIN events \subseteq Server!mTaskPool \cup {0}
           /\ \A n \in Server!Conn : sendBuf[n] # << >> => n \in Server!mTaskPool
           /\ faults \in Nat /\ capacity \in Nat /\ Server!Conn = Server!Call /\ 0 \notin Server!Conn
           /\ Backlog \in Nat /\ MaxFaults \in Nat \ {0}
           /\ Server!mTaskPool \subseteq Server!Conn /\ IsFiniteSet(Server!mTaskPool)
  <1>1. Backlog \in Nat /\ MaxFaults \in Nat \ {0} /\ MaxCalls \in Nat
    BY AgentSvrdAssumption DEF AgentSvrdAssumption
  <1>2. Server!Conn = Server!Call /\ 0 \notin Server!Conn /\ IsFiniteSet(Server!Conn)
    BY <1>1, FS_Interval DEF Server!Conn, Server!Call
  <1>3. Server!mTaskPool \subseteq Server!Conn
    BY DEF Server!mTaskPool
  <1>4. IsFiniteSet(Server!mTaskPool)
    BY <1>2, <1>3, FS_Subset
  <1> QED BY <1>1, <1>2, <1>3, <1>4 DEF ServerInv, Server!TypeOK, Server!Listener

(* The clients after a step of the server.                                 *)
LEMMA ClientSideKeeps ==
    ASSUME ServerInv, UNCHANGED ClientSide
    PROVE  /\ Clients' /\ Pending' = Pending
           /\ call' \in Seq(CallRecord) /\ Len(call') <= MaxCalls
           /\ mTask' \in [Client -> {0} \cup Server!Conn] /\ mConnecting' \in [Client -> BOOLEAN]
           /\ open' \subseteq Server!Conn
  <1>1. Clients' /\ Pending' = Pending
    BY DEF ClientSide, ServerInv, Clients, Pending
  <1> QED BY <1>1, CallsAre DEF ClientSide, ServerInv, Server!TypeOK, Server!NULL

(* The outcomes after a step of the server that touches no connection that *)
(* was untouched, and counts no request that was counted.                  *)
LEMMA ToldKeeps ==
    ASSUME ServerInv, UNCHANGED ClientSide, Untouched \subseteq Untouched',
           \A n \in Server!Call : counted[n] = 1 => counted'[n] = 1,
           faults > 0 => faults' > 0
    PROVE  Told'
  <1> SUFFICES ASSUME NEW n \in DOMAIN call
               PROVE  /\ call[n].ret \in {"connected", "refused", "unsent"} => n \in Untouched'
                      /\ call[n].ret \in {"refused", "unsent"} /\ call[n].kind # "wrong" => faults' > 0
                      /\ call[n].got \in {0, n}
                      /\ call[n].ret = "answered" => counted'[n] = 1
                      /\ call[n].ret = "lost" /\ call[n].client \in Patient => faults' > 0
    BY DEF Told, ClientSide
  <1>1. n \in Server!Call
    BY CallsAre
  <1> QED BY <1>1 DEF ServerInv, Told

LEMMA EpollWaitKeeps ==
    ASSUME ServerInv, Server!EpollWait
    PROVE  ServerInv' /\ server' = "up" /\ Server!mTaskPool' = Server!mTaskPool
  <1>1. /\ server = "up"
        /\ events' = [e \in Server!Ready |-> IF e = 0 THEN {"in"}
                                             ELSE Server!In(e) \cup Server!Out(e) \cup Server!Err(e)]
        /\ UNCHANGED <<ClientSide, state, inbox, outbox, reset, server, capacity, sendBuf, writing,
                       counted, faults>>
    BY DEF Server!EpollWait, Server!clientVars, Server!kernelVars, ClientSide, Server!Listener
  <1>2. Server!mTaskPool' = Server!mTaskPool /\ Untouched' = Untouched
    BY <1>1 DEF Server!mTaskPool, Untouched
  <1>3. DOMAIN events' \subseteq Server!mTaskPool \cup {0}
    BY <1>1 DEF Server!Ready, Server!Listener
  <1>4. Clients' /\ Pending' = Pending /\ DOMAIN call' = DOMAIN call
    BY <1>1, ClientSideKeeps DEF ClientSide
  <1>5. Carried' /\ Told'
    BY <1>1, <1>2, ToldKeeps DEF ServerInv, Carried
  <1>6. Connections'
    <2>1. ASSUME NEW n \in Server!Call, n \in DOMAIN events', "err" \in events'[n]
          PROVE  n \notin Pending
      <3>1. n # 0
        BY ServerParts
      <3>2. "err" \in Server!In(n) \cup Server!Out(n) \cup Server!Err(n)
        BY <1>1, <2>1, <3>1
      <3>3. n \in reset
        BY <3>2 DEF Server!In, Server!Out, Server!Err
      <3> QED BY <3>3 DEF ServerInv, Connections
    <2> QED BY <1>1, <1>2, <1>4, <2>1 DEF ServerInv, Connections
  <1>7. Server!TypeOK'
    BY <1>1, <1>2, <1>3, ClientSideKeeps
       DEF ServerInv, Server!TypeOK, CallRecord, Server!NULL, Server!Listener
  <1> QED BY <1>1, <1>2, <1>4, <1>5, <1>6, <1>7 DEF ServerInv

(* accept(): the pool of events grows when there are more tasks than it    *)
(* has room for, and it has room for LISTEN_BACKLOG at least.              *)
LEMMA AcceptConnKeeps ==
    ASSUME ServerInv, Server!AcceptConn
    PROVE  /\ ServerInv' /\ server' \in {"up", "undefined"}
           /\ server' = "undefined" => Cardinality(Server!mTaskPool') + 1 > Backlog
  <1> DEFINE k == Server!Min(Server!Queued)
             count == Server!Cardinality(Server!mTaskPool) + 2
  <1>1. k \in Server!Conn /\ state[k] = "queued"
    BY FirstQueued DEF Server!AcceptConn, Server!Queued
  <1>2. count = Cardinality(Server!mTaskPool) + 2 /\ Cardinality(Server!mTaskPool) \in Nat
    BY ServerParts, FS_CardinalityType, ServerCardinality
  <1>3. /\ state' = [state EXCEPT ![k] = "task"]
        /\ capacity' = IF count > capacity THEN 2 * count ELSE capacity
        /\ server' \in {"up", "undefined"} /\ (server' = "undefined" => count > capacity)
        /\ events' = [e \in {} |-> {}] \/ events' = [d \in DOMAIN events \ {0} |-> events[d]]
        /\ UNCHANGED <<ClientSide, inbox, outbox, reset, sendBuf, writing, counted, faults>>
    BY DEF Server!AcceptConn, Server!clientVars, ClientSide, Server!Grows, Server!Left,
           Server!Listener
  <1> HIDE DEF k, count
  <1>4. /\ Server!mTaskPool' = Server!mTaskPool \cup {k} /\ k \notin Server!mTaskPool
        /\ state' \in [Server!Conn -> {"none", "queued", "task", "gone"}]
        /\ \A n \in Server!Conn : n # k => state'[n] = state[n]
        /\ state'[k] = "task"
    BY <1>1, <1>3, ServerParts DEF Server!mTaskPool
  <1>5. capacity >= Backlog /\ capacity' \in Nat /\ capacity' >= Backlog
    BY <1>2, <1>3, ServerParts DEF ServerInv
  <1>6. server' = "undefined" => Cardinality(Server!mTaskPool') + 1 > Backlog
    <2>1. Cardinality(Server!mTaskPool \cup {k}) = Cardinality(Server!mTaskPool) + 1
      BY <1>4, ServerParts, FS_AddElement
    <2> QED BY <1>2, <1>3, <1>4, <1>5, <2>1, ServerParts
  <1>7. /\ DOMAIN events' \subseteq DOMAIN events
        /\ \A d \in DOMAIN events' : events'[d] = events[d]
    BY <1>3
  <1>8. Untouched' = Untouched
    BY <1>3 DEF Untouched
  <1>9. Clients' /\ Pending' = Pending /\ DOMAIN call' = DOMAIN call
    BY <1>3, ClientSideKeeps DEF ClientSide
  <1>10. Carried' /\ Told'
    BY <1>3, <1>8, ToldKeeps DEF ServerInv, Carried
  <1>11. Connections'
    <2> SUFFICES ASSUME NEW n \in Server!Call
                 PROVE  /\ n \notin DOMAIN call => state'[n] = "none" /\ n \in Untouched
                        /\ n \in Pending => state'[n] # "none"
                        /\ n \in Pending /\ state'[n] = "gone" => faults > 0
                        /\ n \in reset => n \notin Pending
                        /\ n \in DOMAIN events' /\ "err" \in events'[n] => n \notin Pending
      BY <1>3, <1>8, <1>9 DEF Connections
    <2>1. CASE n = k
      BY <1>1, <1>4, <1>7, <2>1 DEF ServerInv, Connections
    <2>2. CASE n # k
      BY <1>4, <1>7, <2>2, ServerParts DEF ServerInv, Connections
    <2> QED BY <2>1, <2>2
  <1>12. Server!TypeOK'
    <2>1. /\ reset' \subseteq Server!mTaskPool' /\ writing' \subseteq Server!mTaskPool'
          /\ DOMAIN events' \subseteq Server!mTaskPool' \cup {0}
          /\ \A n \in Server!Conn : sendBuf'[n] # << >> => n \in Server!mTaskPool'
      BY <1>3, <1>4, <1>7, ServerParts
    <2> QED BY <1>3, <1>4, <1>5, <2>1, ClientSideKeeps
           DEF ServerInv, Server!TypeOK, CallRecord, Server!NULL, Server!Listener
  <1> QED BY <1>3, <1>5, <1>6, <1>9, <1>10, <1>11, <1>12 DEF ServerInv

LEMMA AcceptFailsKeeps ==
    ASSUME ServerInv, Server!AcceptFails
    PROVE  ServerInv' /\ server' = "up"
  <1> DEFINE k == Server!Min(Server!Queued)
  <1>1. /\ server = "up" /\ faults < MaxFaults /\ faults' = faults + 1
        /\ events' = [d \in DOMAIN events \ {0} |-> events[d]]
        /\ UNCHANGED <<ClientSide, inbox, outbox, reset, server, capacity, sendBuf, writing, counted>>
    BY DEF Server!AcceptFails, Server!clientVars, ClientSide, Server!Left, Server!Listener
  <1>2. /\ state' \in [Server!Conn -> {"none", "queued", "task", "gone"}]
        /\ \A n \in Server!Conn : state'[n] = state[n] \/ (state[n] = "queued" /\ state'[n] = "gone")
    <2>1. CASE state' = state
      BY <2>1, ServerParts
    <2>2. CASE Server!Queued # {} /\ state' = [state EXCEPT ![k] = "gone"]
      <3>1. k \in Server!Conn /\ state[k] = "queued"
        BY <2>2, FirstQueued DEF Server!Queued
      <3> HIDE DEF k
      <3> QED BY <2>2, <3>1, ServerParts
    <2> QED BY <2>1, <2>2 DEF Server!AcceptFails
  <1>3. Server!mTaskPool' = Server!mTaskPool /\ Untouched' = Untouched
    BY <1>1, <1>2 DEF Server!mTaskPool, Untouched
  <1>4. Clients' /\ Pending' = Pending /\ DOMAIN call' = DOMAIN call
    BY <1>1, ClientSideKeeps DEF ClientSide
  <1>5. faults' \in 0 .. MaxFaults /\ faults' > 0
    BY <1>1, ServerParts
  <1>6. Carried' /\ Told'
    BY <1>1, <1>3, <1>5, ToldKeeps DEF ServerInv, Carried
  <1>7. Connections'
    <2>1. \A n \in Server!Call : state'[n] = state[n] \/ (state[n] = "queued" /\ state'[n] = "gone")
      BY <1>2, ServerParts
    <2>2. \A n \in DOMAIN events' : n \in DOMAIN events /\ events'[n] = events[n]
      BY <1>1
    <2> QED BY <1>1, <1>3, <1>4, <1>5, <2>1, <2>2 DEF ServerInv, Connections
  <1>8. Server!TypeOK'
    <2>1. DOMAIN events' \subseteq Server!mTaskPool' \cup {0}
      BY <1>1, <1>3, ServerParts
    <2> QED BY <1>1, <1>2, <1>3, <1>5, <2>1, ClientSideKeeps
           DEF ServerInv, Server!TypeOK, CallRecord, Server!NULL, Server!Listener
  <1> QED BY <1>1, <1>4, <1>5, <1>6, <1>7, <1>8 DEF ServerInv

(* RemoveTaskPool: the client has gone.                                    *)
LEMMA RemoveKeeps ==
    ASSUME ServerInv, NEW k \in Server!Conn, k \in Server!mTaskPool, k \notin Pending,
           Server!Remove(k), events' = Server!Left(k), UNCHANGED <<ClientSide, server, capacity, faults>>
    PROVE  ServerInv'
  <1>1. /\ state' = [j \in Server!Conn |-> IF j \in {k} THEN "gone" ELSE state[j]]
        /\ sendBuf' = [sendBuf EXCEPT ![k] = << >>] /\ inbox' = [inbox EXCEPT ![k] = << >>]
        /\ writing' = writing \ {k} /\ reset' = reset \ {k}
        /\ UNCHANGED <<outbox, counted>>
    BY DEF Server!Remove, Server!Removed
  <1>2. events' = [d \in DOMAIN events \ {k} |-> events[d]]
    BY DEF Server!Left
  <1>3. /\ state' \in [Server!Conn -> {"none", "queued", "task", "gone"}]
        /\ \A n \in Server!Conn : state'[n] = IF n = k THEN "gone" ELSE state[n]
        /\ Server!mTaskPool' = Server!mTaskPool \ {k}
    BY <1>1, ServerParts DEF Server!mTaskPool
  <1>4. /\ inbox' \in [Server!Conn -> Seq(Server!Call)] /\ sendBuf' \in [Server!Conn -> Seq(Server!Call)]
        /\ \A n \in Server!Conn : inbox'[n] = (IF n = k THEN << >> ELSE inbox[n])
                                  /\ sendBuf'[n] = (IF n = k THEN << >> ELSE sendBuf[n])
    <2>1. << >> \in Seq(Server!Call)
      OBVIOUS
    <2> QED BY <1>1, <2>1, ServerParts
  <1>5. Untouched \subseteq Untouched'
    BY <1>1, <1>4, ServerParts DEF Untouched
  <1>6. Clients' /\ Pending' = Pending /\ DOMAIN call' = DOMAIN call
    BY ClientSideKeeps DEF ClientSide
  <1>7. Carried'
    <2> SUFFICES ASSUME NEW n \in Server!Call
                 PROVE  /\ inbox'[n] \in {<< >>, <<n>>} /\ sendBuf'[n] \in {<< >>, <<n>>}
                        /\ outbox[n] \in {<< >>, <<n>>}
                        /\ counted[n] \in {0, 1}
                        /\ inbox'[n] # << >> => counted[n] = 0
                        /\ sendBuf'[n] # << >> => counted[n] = 1 /\ outbox[n] = << >>
                        /\ outbox[n] # << >> => counted[n] = 1
      BY <1>1 DEF Carried
    <2>1. inbox'[n] \in {inbox[n], << >>} /\ sendBuf'[n] \in {sendBuf[n], << >>}
      BY <1>4, ServerParts
    <2> QED BY <2>1 DEF ServerInv, Carried
  <1>8. Told'
    BY <1>1, <1>5, ToldKeeps
  <1>9. Connections'
    <2> SUFFICES ASSUME NEW n \in Server!Call
                 PROVE  /\ n \notin DOMAIN call => state'[n] = "none" /\ n \in Untouched'
                        /\ n \in Pending => state'[n] # "none"
                        /\ n \in Pending /\ state'[n] = "gone" => faults > 0
                        /\ n \in reset' => n \notin Pending
                        /\ n \in DOMAIN events' /\ "err" \in events'[n] => n \notin Pending
      BY <1>6 DEF Connections
    <2>1. /\ n \notin DOMAIN call => state[n] = "none" /\ n \in Untouched
          /\ n \in Pending => state[n] # "none"
          /\ n \in Pending /\ state[n] = "gone" => faults > 0
          /\ n \in reset => n \notin Pending
          /\ n \in DOMAIN events /\ "err" \in events[n] => n \notin Pending
      BY DEF ServerInv, Connections
    <2>2. CASE n = k
      <3>1. state[n] = "task"
        BY <2>2 DEF Server!mTaskPool
      <3> QED BY <2>1, <2>2, <3>1
    <2>3. CASE n # k
      <3>1. state'[n] = state[n]
        BY <1>3, <2>3, ServerParts
      <3> QED BY <1>1, <1>2, <1>5, <2>1, <2>3, <3>1
    <2> QED BY <2>2, <2>3
  <1>10. Server!TypeOK'
    <2>1. /\ reset' \subseteq Server!mTaskPool' /\ writing' \subseteq Server!mTaskPool'
          /\ DOMAIN events' \subseteq Server!mTaskPool' \cup {0}
          /\ \A n \in Server!Conn : sendBuf'[n] # << >> => n \in Server!mTaskPool'
      BY <1>1, <1>2, <1>3, <1>4, ServerParts
    <2> QED BY <1>1, <1>3, <1>4, <2>1, ClientSideKeeps
           DEF ServerInv, Server!TypeOK, CallRecord, Server!NULL, Server!Listener
  <1> QED BY <1>6, <1>7, <1>8, <1>9, <1>10 DEF ServerInv

(* A handler that leaves the task in the pool: what it does to the         *)
(* buffers, the counter and the events has its type and its meaning.       *)
LEMMA TaskKeeps ==
    ASSUME ServerInv, NEW k \in Server!Conn, k \in Server!mTaskPool,
           events' = Server!Left(k), UNCHANGED <<ClientSide, state, server, capacity, faults>>,
           \A n \in Server!Call \ {k} :
              /\ inbox'[n] = inbox[n] /\ sendBuf'[n] = sendBuf[n] /\ outbox'[n] = outbox[n]
              /\ counted'[n] = counted[n],
           k \in Untouched => k \in Untouched',
           counted[k] = 1 => counted'[k] = 1,
           /\ inbox'[k] \in {<< >>, <<k>>} /\ sendBuf'[k] \in {<< >>, <<k>>}
           /\ outbox'[k] \in {<< >>, <<k>>}
           /\ counted'[k] \in {0, 1}
           /\ inbox'[k] # << >> => counted'[k] = 0
           /\ sendBuf'[k] # << >> => counted'[k] = 1 /\ outbox'[k] = << >>
           /\ outbox'[k] # << >> => counted'[k] = 1,
           inbox' \in [Server!Conn -> Seq(Server!Call)], outbox' \in [Server!Conn -> Seq(Server!Call)],
           sendBuf' \in [Server!Conn -> Seq(Server!Call)], counted' \in [Server!Call -> Nat],
           writing' \subseteq writing \cup {k},
           reset' = reset \/ (k \notin Pending /\ reset' = reset \cup {k})
    PROVE  ServerInv'
  <1>1. events' = [d \in DOMAIN events \ {k} |-> events[d]]
    BY DEF Server!Left
  <1>2. Server!mTaskPool' = Server!mTaskPool
    BY DEF Server!mTaskPool
  <1>3. Untouched \subseteq Untouched'
    <2> SUFFICES ASSUME NEW n \in Untouched PROVE n \in Untouched'
      OBVIOUS
    <2>1. n \in Server!Call
      BY DEF Untouched
    <2>2. CASE n # k
      BY <2>1, <2>2 DEF Untouched
    <2> QED BY <2>2
  <1>4. Clients' /\ Pending' = Pending /\ DOMAIN call' = DOMAIN call
    BY ClientSideKeeps DEF ClientSide
  <1>5. Told'
    <2>1. \A n \in Server!Call : counted[n] = 1 => counted'[n] = 1
      OBVIOUS
    <2> QED BY <1>3, <2>1, ToldKeeps
  <1>6. Carried'
    <2> SUFFICES ASSUME NEW n \in Server!Call
                 PROVE  /\ inbox'[n] \in {<< >>, <<n>>} /\ sendBuf'[n] \in {<< >>, <<n>>}
                        /\ outbox'[n] \in {<< >>, <<n>>}
                        /\ counted'[n] \in {0, 1}
                        /\ inbox'[n] # << >> => counted'[n] = 0
                        /\ sendBuf'[n] # << >> => counted'[n] = 1 /\ outbox'[n] = << >>
                        /\ outbox'[n] # << >> => counted'[n] = 1
      BY DEF Carried
    <2>1. CASE n = k
      BY <2>1
    <2>2. CASE n # k
      <3>1. /\ inbox'[n] = inbox[n] /\ sendBuf'[n] = sendBuf[n] /\ outbox'[n] = outbox[n]
            /\ counted'[n] = counted[n]
        BY <2>2
      <3> QED BY <3>1 DEF ServerInv, Carried
    <2> QED BY <2>1, <2>2
  <1>7. Connections'
    <2>1. \A n \in DOMAIN events' : n \in DOMAIN events /\ events'[n] = events[n]
      BY <1>1
    <2>2. \A n \in reset' : n \in reset \/ n \notin Pending
      OBVIOUS
    <2> QED BY <1>3, <1>4, <2>1, <2>2 DEF ServerInv, Connections
  <1>8. Server!TypeOK'
    <2>1. /\ reset' \subseteq Server!mTaskPool' /\ writing' \subseteq Server!mTaskPool'
          /\ DOMAIN events' \subseteq Server!mTaskPool' \cup {0}
      BY <1>1, <1>2, ServerParts
    <2>2. \A n \in Server!Conn : sendBuf'[n] # << >> => n \in Server!mTaskPool'
      BY <1>2, ServerParts
    <2> QED BY <2>1, <2>2, ClientSideKeeps
           DEF ServerInv, Server!TypeOK, CallRecord, Server!NULL, Server!Listener
  <1> QED BY <1>4, <1>5, <1>6, <1>7, <1>8 DEF ServerInv

(* The request of connection k is counted once.                            *)
LEMMA Counted ==
    ASSUME NEW k \in Server!Call, NEW n \in Server!Call, NEW q, q = <<k>>
    PROVE  Server!Cardinality({i \in DOMAIN q : q[i] = n}) = IF n = k THEN 1 ELSE 0
  <1>1. DOMAIN q = {1} /\ q[1] = k
    OBVIOUS
  <1>2. CASE n = k
    <2>1. {i \in DOMAIN q : q[i] = n} = {1}
      BY <1>1, <1>2
    <2> QED BY <1>2, <2>1, FS_Singleton, ServerCardinality
  <1>3. CASE n # k
    <2>1. {i \in DOMAIN q : q[i] = n} = {}
      BY <1>1, <1>3
    <2> QED BY <1>3, <2>1, FS_EmptySet, ServerCardinality
  <1> QED BY <1>2, <1>3

(* TaskRecv: the request is counted, and its answer is in the send buffer. *)
LEMMA TaskRecvKeeps ==
    ASSUME ServerInv, NEW k \in Server!Conn, k \in Server!mTaskPool,
           Server!TaskRecv(k), events' = Server!Left(k),
           UNCHANGED <<ClientSide, server, capacity, faults>>
    PROVE  ServerInv'
  <1>1. /\ inbox[k] # << >>
        /\ counted' = [n \in Server!Call |->
                         counted[n] + Server!Cardinality({i \in DOMAIN inbox[k] : inbox[k][i] = n})]
        /\ sendBuf' = [sendBuf EXCEPT ![k] = @ \o inbox[k]]
        /\ inbox' = [inbox EXCEPT ![k] = << >>]
        /\ writing' = writing \cup {k}
        /\ UNCHANGED <<state, outbox, reset>>
    BY DEF Server!TaskRecv, Server!Rest, Server!Writes
  <1>2. k \in Server!Call
    BY ServerParts
  <1>3. inbox[k] = <<k>> /\ counted[k] = 0 /\ sendBuf[k] = << >> /\ outbox[k] = << >>
    BY <1>1, <1>2 DEF ServerInv, Carried
  <1>4. /\ \A n \in Server!Call : counted'[n] = IF n = k THEN 1 ELSE counted[n]
        /\ counted' \in [Server!Call -> Nat]
    <2>1. \A n \in Server!Call :
             Server!Cardinality({i \in DOMAIN inbox[k] : inbox[k][i] = n}) = IF n = k THEN 1 ELSE 0
      BY <1>2, <1>3, Counted
    <2> DEFINE N(n) == Server!Cardinality({i \in DOMAIN inbox[k] : inbox[k][i] = n})
    <2>2. counted' = [n \in Server!Call |-> counted[n] + N(n)]
      BY <1>1
    <2>3. \A n \in Server!Call : N(n) = IF n = k THEN 1 ELSE 0
      BY <2>1
    <2> HIDE DEF N
    <2>4. \A n \in Server!Call : counted'[n] = counted[n] + N(n) /\ counted[n] \in Nat
      BY <2>2, ServerParts
    <2>5. \A n \in Server!Call : counted'[n] = IF n = k THEN 1 ELSE counted[n]
      BY <1>2, <1>3, <2>3, <2>4
    <2>6. counted' = [n \in Server!Call |-> counted'[n]]
      BY <2>2
    <2>7. \A n \in Server!Call : counted'[n] \in Nat
      BY <2>4, <2>5
    <2> QED BY <2>5, <2>6, <2>7
  <1>5. /\ sendBuf'[k] = <<k>> /\ \A n \in Server!Call \ {k} : sendBuf'[n] = sendBuf[n]
        /\ sendBuf' \in [Server!Conn -> Seq(Server!Call)]
    <2>1. << >> \o <<k>> = <<k>> /\ <<k>> \in Seq(Server!Call)
      BY <1>2
    <2> QED BY <1>1, <1>3, <2>1, ServerParts
  <1>6. /\ inbox'[k] = << >> /\ \A n \in Server!Call \ {k} : inbox'[n] = inbox[n]
        /\ inbox' \in [Server!Conn -> Seq(Server!Call)]
    <2>1. << >> \in Seq(Server!Call)
      OBVIOUS
    <2> QED BY <1>1, <2>1, ServerParts
  <1>7. k \notin Untouched
    BY <1>1 DEF Untouched
  <1>8. outbox' \in [Server!Conn -> Seq(Server!Call)] /\ outbox' = outbox /\ outbox'[k] = << >>
    BY <1>1, <1>3, ServerParts
  <1> QED BY <1>1, <1>2, <1>3, <1>4, <1>5, <1>6, <1>7, <1>8, TaskKeeps

(* TaskSend: the answer leaves, or there is none to send.                  *)
LEMMA TaskSendKeeps ==
    ASSUME ServerInv, NEW k \in Server!Conn, k \in Server!mTaskPool,
           Server!TaskSend(k), events' = Server!Left(k),
           UNCHANGED <<ClientSide, server, capacity, faults>>
    PROVE  ServerInv'
  <1>1. k \in Server!Call
    BY ServerParts
  <1>2. /\ inbox[k] \in {<< >>, <<k>>} /\ sendBuf[k] \in {<< >>, <<k>>}
        /\ outbox[k] \in {<< >>, <<k>>}
        /\ counted[k] \in {0, 1}
        /\ inbox[k] # << >> => counted[k] = 0
        /\ sendBuf[k] # << >> => counted[k] = 1 /\ outbox[k] = << >>
        /\ outbox[k] # << >> => counted[k] = 1
    BY <1>1 DEF ServerInv, Carried
  <1>3. /\ inbox \in [Server!Conn -> Seq(Server!Call)] /\ outbox \in [Server!Conn -> Seq(Server!Call)]
        /\ sendBuf \in [Server!Conn -> Seq(Server!Call)] /\ counted \in [Server!Call -> Nat]
        /\ Server!Conn = Server!Call
    BY ServerParts
  <1>4. CASE /\ sendBuf[k] = << >> /\ writing' = writing \ {k}
             /\ UNCHANGED <<state, inbox, outbox, reset, sendBuf, counted>>
    <2>1. k \in Untouched => k \in Untouched'
      BY <1>4 DEF Untouched
    <2>2. writing' \subseteq writing \cup {k}
      BY <1>4
    <2> QED BY <1>2, <1>3, <1>4, <2>1, <2>2, TaskKeeps
  <1>5. CASE /\ sendBuf[k] # << >>
             /\ outbox' = [outbox EXCEPT ![k] = IF k \in open THEN @ \o sendBuf[k] ELSE @]
             /\ reset' = IF k \in open THEN reset ELSE reset \cup {k}
             /\ sendBuf' = [sendBuf EXCEPT ![k] = << >>]
             /\ UNCHANGED <<state, inbox, writing, counted>>
    <2>1. sendBuf[k] = <<k>> /\ outbox[k] = << >> /\ counted[k] = 1 /\ inbox[k] = << >>
      BY <1>2, <1>5
    <2>2. /\ outbox'[k] \in {<< >>, <<k>>} /\ \A n \in Server!Call \ {k} : outbox'[n] = outbox[n]
          /\ outbox' \in [Server!Conn -> Seq(Server!Call)]
      <3>1. << >> \o <<k>> = <<k>> /\ <<k>> \in Seq(Server!Call)
        BY <1>1
      <3> QED BY <1>3, <1>5, <2>1, <3>1
    <2>3. /\ sendBuf'[k] = << >> /\ \A n \in Server!Call \ {k} : sendBuf'[n] = sendBuf[n]
          /\ sendBuf' \in [Server!Conn -> Seq(Server!Call)]
      <3>1. << >> \in Seq(Server!Call)
        OBVIOUS
      <3> QED BY <1>3, <1>5, <3>1
    <2>4. k \notin Untouched
      BY <1>5 DEF Untouched
    <2>5. reset' = reset \/ (k \notin Pending /\ reset' = reset \cup {k})
      BY <1>5 DEF ServerInv, Clients
    <2>6. /\ inbox'[k] = << >> /\ inbox' \in [Server!Conn -> Seq(Server!Call)]
          /\ counted'[k] = 1 /\ counted' \in [Server!Call -> Nat] /\ counted' = counted
          /\ inbox' = inbox /\ writing' \subseteq writing \cup {k} /\ state' = state
      BY <1>3, <1>5, <2>1
    <2> QED BY <2>2, <2>3, <2>4, <2>5, <2>6, TaskKeeps
  <1> QED BY <1>4, <1>5 DEF Server!TaskSend

LEMMA HandleEventKeeps ==
    ASSUME ServerInv, NEW k \in Server!Conn, Server!HandleEvent(k)
    PROVE  ServerInv' /\ server' = "up"
  <1>1. /\ server = "up" /\ k \in DOMAIN events /\ events' = Server!Left(k)
        /\ UNCHANGED <<ClientSide, server, capacity, faults>>
    BY DEF Server!HandleEvent, Server!clientVars, ClientSide
  <1>2. k \in Server!mTaskPool /\ k \in Server!Call
    BY <1>1, ServerParts
  <1>3. CASE Server!RecvError(k)
    <2>1. k \notin Pending /\ Server!Remove(k)
      BY <1>1, <1>2, <1>3 DEF Server!RecvError, ServerInv, Connections
    <2> QED BY <1>1, <1>2, <2>1, RemoveKeeps
  <1>4. CASE Server!TaskRecv(k)
    BY <1>1, <1>2, <1>4, TaskRecvKeeps
  <1>5. CASE Server!TaskRecvEnds(k)
    <2>1. k \notin Pending /\ Server!Remove(k)
      BY <1>5 DEF Server!TaskRecvEnds, ServerInv, Clients
    <2> QED BY <1>1, <1>2, <2>1, RemoveKeeps
  <1>6. CASE Server!TaskSend(k)
    BY <1>1, <1>2, <1>6, TaskSendKeeps
  <1> QED BY <1>3, <1>4, <1>5, <1>6 DEF Server!HandleEvent

LEMMA LoopKeeps ==
    ASSUME ServerInv, Server!Loop
    PROVE  /\ ServerInv' /\ server = "up" /\ server' \in {"up", "undefined"}
           /\ server' = "undefined" => Cardinality(Server!mTaskPool') + 1 > Backlog
  <1>1. server = "up"
    BY DEF Server!Loop, Server!EpollWait, Server!AcceptConn, Server!AcceptFails, Server!HandleEvent
  <1> QED BY <1>1, EpollWaitKeeps, AcceptConnKeeps, AcceptFailsKeeps, HandleEventKeeps DEF Server!Loop

-----------------------------------------------------------------------------
(* The end of the process, its next start, and its loss.                   *)

LEMMA EndKeeps ==
    ASSUME ServerInv, Server!End
    PROVE  ServerInv' /\ server' = "down"
  <1>1. /\ server' = "down" /\ faults' = Server!Min({faults + 1, MaxFaults})
        /\ state' = [n \in Server!Conn |-> IF state[n] = "none" THEN "none" ELSE "gone"]
        /\ inbox' = [n \in Server!Conn |-> << >>] /\ sendBuf' = [n \in Server!Conn |-> << >>]
        /\ reset' = {} /\ writing' = {} /\ events' = [e \in {} |-> {}]
        /\ UNCHANGED <<ClientSide, outbox, capacity, counted>>
    BY DEF Server!End, Server!clientVars, ClientSide
  <1>2. faults' \in 0 .. MaxFaults /\ faults' > 0
    <2>1. faults + 1 \in Int /\ MaxFaults \in Int
      BY ServerParts
    <2>2. faults' = IF faults + 1 <= MaxFaults THEN faults + 1 ELSE MaxFaults
      BY <1>1, <2>1, MinOfTwo
    <2> QED BY <2>2, ServerParts
  <1>3. /\ inbox' \in [Server!Conn -> Seq(Server!Call)] /\ sendBuf' \in [Server!Conn -> Seq(Server!Call)]
        /\ state' \in [Server!Conn -> {"none", "queued", "task", "gone"}]
        /\ \A n \in Server!Call :
              /\ inbox'[n] = << >> /\ sendBuf'[n] = << >>
              /\ state'[n] = IF state[n] = "none" THEN "none" ELSE "gone"
    <2>1. << >> \in Seq(Server!Call)
      OBVIOUS
    <2> QED BY <1>1, <2>1, ServerParts
  <1>4. Untouched \subseteq Untouched'
    BY <1>1, <1>3 DEF Untouched
  <1>5. Clients' /\ Pending' = Pending /\ DOMAIN call' = DOMAIN call
    BY <1>1, ClientSideKeeps DEF ClientSide
  <1>6. Carried' /\ Told'
    <2>1. Carried'
      BY <1>1, <1>3 DEF ServerInv, Carried
    <2> QED BY <1>1, <1>2, <1>4, <2>1, ToldKeeps
  <1>7. Connections'
    BY <1>1, <1>2, <1>3, <1>4, <1>5 DEF ServerInv, Connections
  <1>8. Server!TypeOK'
    <2>1. DOMAIN events' = {} /\ \A n \in Server!Conn : sendBuf'[n] = << >>
      BY <1>1
    <2> QED BY <1>1, <1>2, <1>3, <2>1, ClientSideKeeps
           DEF ServerInv, Server!TypeOK, CallRecord, Server!NULL, Server!Listener
  <1> QED BY <1>1, <1>2, <1>5, <1>6, <1>7, <1>8 DEF ServerInv

LEMMA RestartKeeps ==
    ASSUME ServerInv, Server!Restart
    PROVE  ServerInv' /\ server = "down" /\ server' = "up"
  <1>1. /\ server = "down" /\ server' = "up" /\ capacity' = Backlog
        /\ UNCHANGED <<ClientSide, state, inbox, outbox, reset, events, sendBuf, writing, counted, faults>>
    BY DEF Server!Restart, Server!clientVars, Server!kernelVars, ClientSide
  <1>2. Server!mTaskPool' = Server!mTaskPool /\ Untouched' = Untouched
    BY <1>1 DEF Server!mTaskPool, Untouched
  <1>3. Clients' /\ Pending' = Pending /\ DOMAIN call' = DOMAIN call
    BY <1>1, ClientSideKeeps DEF ClientSide
  <1>4. Carried' /\ Told' /\ Connections'
    BY <1>1, <1>2, <1>3, ToldKeeps DEF ServerInv, Carried, Connections
  <1>5. Server!TypeOK'
    BY <1>1, <1>2, ClientSideKeeps, ServerParts
       DEF ServerInv, Server!TypeOK, CallRecord, Server!NULL, Server!Listener
  <1> QED BY <1>1, <1>3, <1>4, <1>5, ServerParts DEF ServerInv

LEMMA LostKeeps ==
    ASSUME ServerInv, server' = "undefined", events' = [e \in {} |-> {}],
           UNCHANGED <<call, mTask, mConnecting, open, state, inbox, outbox, reset,
                       capacity, sendBuf, writing, counted, faults>>
    PROVE  ServerInv'
  <1>1. Server!mTaskPool' = Server!mTaskPool /\ Untouched' = Untouched /\ DOMAIN events' = {}
    BY DEF Server!mTaskPool, Untouched
  <1>2. UNCHANGED ClientSide
    BY DEF ClientSide
  <1>3. Clients' /\ Pending' = Pending
    BY <1>2, ClientSideKeeps
  <1>4. Carried' /\ Told' /\ Connections'
    BY <1>1, <1>2, <1>3, ToldKeeps DEF ServerInv, Carried, Connections
  <1>5. Server!TypeOK'
    BY <1>1, <1>2, ClientSideKeeps, ServerParts
       DEF ServerInv, Server!TypeOK, CallRecord, Server!NULL, Server!Listener
  <1> QED BY <1>3, <1>4, <1>5 DEF ServerInv

-----------------------------------------------------------------------------
(* The router thread.                                                      *)

(* Messages that the stream has not spoilt.                                *)
Whole == \A i \in DOMAIN sent : sent[i] # 0

LEMMA MessagesAre ==
    ASSUME RouterInv
    PROVE  /\ sent \in Seq(0 .. MaxMsgs) /\ wire \in Seq(0 .. MaxMsgs) /\ handled \in Seq(1 .. MaxMsgs)
           /\ Len(sent) \in Nat /\ Len(wire) \in Nat /\ Len(handled) \in Nat /\ MaxMsgs \in Nat
           /\ DOMAIN sent = 1 .. Len(sent)
  <1>1. sent \in Seq(0 .. MaxMsgs) /\ wire \in Seq(0 .. MaxMsgs) /\ handled \in Seq(1 .. MaxMsgs)
    BY DEF RouterInv, Router!TypeOK
  <1>2. MaxMsgs \in Nat
    BY AgentSvrdAssumption DEF AgentSvrdAssumption
  <1> QED BY <1>1, <1>2

(* A message leaves RouterSvrd, whole or spoilt.                           *)
LEMMA RouterSendsKeeps ==
    ASSUME RouterInv, Router!RouterSends
    PROVE  /\ RouterInv' /\ UNCHANGED <<thread, fd, peer, handled>>
           /\ Whole' => Whole /\ \E m \in 1 .. MaxMsgs : sent' = Append(sent, m)
  <1>1. /\ Len(sent) < MaxMsgs
        /\ UNCHANGED <<thread, pool, mStatus, fd, registered, event, handled, requested, peer>>
    BY DEF Router!RouterSends, Router!clientVars
  <1>2. PICK m \in {Len(sent) + 1, 0} : sent' = Append(sent, m) /\ wire' = Append(wire, m)
    BY DEF Router!RouterSends, Router!Torn
  <1>3. m \in 0 .. MaxMsgs /\ (m # 0 => m \in 1 .. MaxMsgs)
    BY <1>1, <1>2, MessagesAre
  <1>4. /\ sent' \in Seq(0 .. MaxMsgs) /\ wire' \in Seq(0 .. MaxMsgs)
        /\ DOMAIN sent' = DOMAIN sent \cup {Len(sent) + 1} /\ sent'[Len(sent) + 1] = m
        /\ \A i \in DOMAIN sent : sent'[i] = sent[i]
    <2> DEFINE R == 0 .. MaxMsgs
    <2>1. sent \in Seq(R) /\ wire \in Seq(R) /\ m \in R
      BY <1>3, MessagesAre
    <2> HIDE DEF R
    <2>2. sent' \in Seq(R) /\ wire' \in Seq(R)
          /\ Len(sent') = Len(sent) + 1 /\ sent'[Len(sent) + 1] = m
          /\ \A i \in 1 .. Len(sent) : sent'[i] = sent[i]
      BY <1>2, <2>1, AppendProperties
    <2>3. Len(sent) \in Nat /\ DOMAIN sent = 1 .. Len(sent) /\ DOMAIN sent' = 1 .. Len(sent')
      BY <2>1, <2>2
    <2> QED BY <2>2, <2>3 DEF R
  <1>5. Whole' => Whole /\ m # 0
    BY <1>4 DEF Whole
  <1>6. Whole' => sent' = handled' \o wire'
    <2> SUFFICES ASSUME Whole' PROVE sent' = handled \o wire'
      BY <1>1
    <2>1. sent = handled \o wire
      BY <1>5 DEF RouterInv, Whole
    <2>2. handled \in Seq(Int) /\ wire \in Seq(Int) /\ m \in Int /\ <<m>> \in Seq(Int)
      BY <1>3, MessagesAre
    <2>3. handled \o wire \in Seq(Int)
      BY <2>2, ConcatProperties
    <2>4. Append(handled \o wire, m) = (handled \o wire) \o <<m>> /\ Append(wire, m) = wire \o <<m>>
      BY <2>2, <2>3, AppendIsConcat
    <2>5. Append(handled \o wire, m) = handled \o Append(wire, m)
      BY <2>2, <2>4, ConcatAssociative
    <2> QED BY <1>2, <2>1, <2>5
  <1>7. RouterInv'
    BY <1>1, <1>4, <1>6 DEF RouterInv, Router!TypeOK, Whole
  <1> QED BY <1>1, <1>2, <1>3, <1>5, <1>7

(* RouterSvrd or the network ends the connection.                          *)
LEMMA PeerKeeps ==
    ASSUME RouterInv, Router!RouterCloses \/ Router!Reset
    PROVE  RouterInv' /\ UNCHANGED <<thread, fd, sent, handled>> /\ (peer = "reset" => peer' = "reset")
  <1>1. /\ peer' \in {"closed", "reset"} /\ (peer = "reset" => peer' = "reset")
        /\ UNCHANGED <<thread, pool, mStatus, fd, registered, event, handled, requested, sent, wire>>
    BY DEF Router!RouterCloses, Router!Reset, Router!clientVars
  <1> QED BY <1>1 DEF RouterInv, Router!TypeOK

LEMMA StartKeeps ==
    ASSUME RouterInv, Router!GenerateClient \/ Router!InitSvrReq
    PROVE  /\ RouterInv' /\ thread = "starting" /\ thread' \in {"starting", "running"}
           /\ UNCHANGED <<sent, handled>>
  <1>1. CASE Router!GenerateClient
    <2>1. /\ fd' = "open" /\ registered' = TRUE /\ pool' = TRUE /\ mStatus' = "running"
          /\ peer' = "open" /\ thread = "starting" /\ fd = "none"
          /\ UNCHANGED <<thread, event, handled, requested, sent, wire>>
      BY <1>1 DEF Router!GenerateClient
    <2> QED BY <2>1 DEF RouterInv, Router!TypeOK
  <1>2. CASE Router!InitSvrReq
    <2>1. /\ thread = "starting" /\ thread' = "running" /\ requested' \in BOOLEAN /\ fd = "open"
          /\ UNCHANGED <<pool, mStatus, fd, registered, event, handled, peer, sent, wire>>
      BY <1>2, Zenon DEF Router!InitSvrReq
    <2> QED BY <2>1 DEF RouterInv, Router!TypeOK
  <1> QED BY <1>1, <1>2

LEMMA WaitKeeps ==
    ASSUME RouterInv, Router!EpollWait
    PROVE  RouterInv' /\ UNCHANGED <<thread, fd, peer, sent, handled>>
  <1>1. /\ event' = Router!Ready /\ thread = "running"
        /\ UNCHANGED <<thread, pool, mStatus, fd, registered, handled, requested, peer, sent, wire>>
    BY DEF Router!EpollWait, Router!peerVars
  <1>2. event' \subseteq {"in", "err"} /\ ("err" \in event' => peer = "reset")
    BY <1>1 DEF Router!Ready
  <1> QED BY <1>1, <1>2 DEF RouterInv, Router!TypeOK

LEMMA Regroup ==
    ASSUME NEW S, NEW h \in Seq(S), NEW a \in Seq(S), NEW b \in Seq(S)
    PROVE  (h \o a) \o b = h \o (a \o b)
  OBVIOUS

(* The first k messages on the wire, when they are handled.                *)
LEMMA Takes ==
    ASSUME NEW S, NEW h \in Seq(S), NEW w \in Seq(S), NEW k \in 1 .. Len(w)
    PROVE  /\ (h \o SubSeq(w, 1, k)) \o SubSeq(w, k + 1, Len(w)) = h \o w
           /\ h \o SubSeq(w, 1, k) = SubSeq(h \o w, 1, Len(h) + k)
           /\ Len(h) + k \in Len(h) + 1 .. Len(h \o w)
           /\ (h \o w)[Len(h) + k] = w[k]
           /\ Len(h) + k \in DOMAIN (h \o w)
  <1>1. Len(w) \in Nat /\ Len(h) \in Nat /\ k \in Nat /\ k <= Len(w) /\ k >= 1
    OBVIOUS
  <1> DEFINE a == SubSeq(w, 1, k)
             b == SubSeq(w, k + 1, Len(w))
  <1>2. /\ a \in Seq(S) /\ Len(a) = k /\ \A i \in 1 .. k : a[i] = w[i]
        /\ b \in Seq(S)
    BY <1>1
  <1>3. a \o b = w
    <2>1. a \o b = SubSeq(w, 1, Len(w))
      <3>1. 1 \in 1 .. Len(w) + 1 /\ k \in 1 - 1 .. Len(w) /\ Len(w) \in k .. Len(w)
        BY <1>1
      <3> QED BY <3>1, ConcatAdjacentSubSeq
    <2>2. SubSeq(w, 1, Len(w)) = w
      OBVIOUS
    <2> QED BY <2>1, <2>2
  <1> HIDE DEF a, b
  <1>4. (h \o a) \o b = h \o w
    <2>1. h \in Seq(S) /\ a \in Seq(S) /\ b \in Seq(S)
      BY <1>2
    <2>2. (h \o a) \o b = h \o (a \o b)
      BY <2>1, Regroup
    <2> QED BY <1>3, <2>2
  <1>5. /\ h \o w \in Seq(S) /\ Len(h \o w) = Len(h) + Len(w)
        /\ \A i \in 1 .. Len(h) + Len(w) : (h \o w)[i] = IF i <= Len(h) THEN h[i] ELSE w[i - Len(h)]
        /\ h \o a \in Seq(S) /\ Len(h \o a) = Len(h) + k
        /\ \A i \in 1 .. Len(h) + k : (h \o a)[i] = IF i <= Len(h) THEN h[i] ELSE a[i - Len(h)]
    BY <1>2, ConcatProperties
  <1> DEFINE n == Len(h) + k
             c == h \o w
             d == h \o a
  <1>6. n \in Nat /\ n <= Len(h) + Len(w) /\ n >= Len(h) + 1
    BY <1>1
  <1>7. \A i \in 1 .. n : d[i] = c[i]
    <2> SUFFICES ASSUME NEW i \in 1 .. n PROVE d[i] = c[i]
      OBVIOUS
    <2>1. i \in 1 .. Len(h) + Len(w) /\ i \in Nat
      BY <1>1, <1>6
    <2>2. CASE i <= Len(h)
      BY <1>5, <2>1, <2>2
    <2>3. CASE ~(i <= Len(h))
      <3>1. i - Len(h) \in 1 .. k
        BY <1>1, <2>1, <2>3
      <3> QED BY <1>2, <1>5, <2>1, <2>3, <3>1
    <2> QED BY <2>2, <2>3
  <1>8. c[n] = w[k]
    <2>1. n \in 1 .. Len(h) + Len(w) /\ ~(n <= Len(h)) /\ n - Len(h) = k
      BY <1>1, <1>6
    <2> QED BY <1>5, <2>1
  <1>9. c \in Seq(S) /\ d \in Seq(S) /\ Len(d) = n /\ Len(c) = Len(h) + Len(w)
    BY <1>5
  <1> HIDE DEF c, d, n
  <1>10. d = SubSeq(c, 1, n)
    BY <1>1, <1>6, <1>7, <1>9
  <1>11. n \in Len(h) + 1 .. Len(c) /\ n \in DOMAIN c
    BY <1>1, <1>6, <1>9
  <1> QED BY <1>4, <1>8, <1>10, <1>11 DEF a, b, c, d, n

(* Recv: what is handled is what comes next on the wire.                   *)
LEMMA RecvKeeps ==
    ASSUME RouterInv, Router!Recv
    PROVE  /\ RouterInv' /\ UNCHANGED <<thread, peer, sent>>
           /\ fd' = "none" <=> fd = "none"
           /\ Whole => handled' = handled
                       \/ \E n \in Len(handled) + 1 .. Len(sent) : handled' = SubSeq(sent, 1, n)
  <1>1. /\ thread = "running" /\ event' = {} /\ fd # "none"
        /\ UNCHANGED <<thread, pool, registered, requested, peer, sent>>
    BY DEF Router!Recv, RouterInv
  <1>2. CASE fd = "unknown" /\ UNCHANGED <<fd, mStatus, wire, handled>>
    BY <1>1, <1>2 DEF RouterInv, Router!TypeOK
  <1>3. CASE /\ fd # "unknown" /\ (mStatus = "quit" \/ "err" \in event)
             /\ Router!Quit /\ UNCHANGED <<wire, handled>>
    <2>1. mStatus' = "quit" /\ fd' = fd
      BY <1>3 DEF Router!Quit
    <2> QED BY <1>1, <1>3, <2>1 DEF RouterInv, Router!TypeOK
  <1>4. CASE Router!TaskRecvEnds
    <2>1. fd' = "unknown" /\ UNCHANGED <<mStatus, wire, handled>>
      BY <1>4 DEF Router!TaskRecvEnds, Router!Forget, Router!FD_UNKNOWN
    <2> QED BY <1>1, <2>1 DEF RouterInv, Router!TypeOK, Router!FD_UNKNOWN
  <1>5. CASE Router!TaskRecv
    <2>1. PICK k \in 1 .. Len(wire) :
             /\ \A i \in 1 .. k - 1 : wire[i] # 0
             /\ wire' = SubSeq(wire, k + 1, Len(wire))
             /\ \/ /\ wire[k] = 0 /\ fd' = "unknown" /\ mStatus' = mStatus
                   /\ handled' = handled \o SubSeq(wire, 1, k - 1)
                \/ /\ wire[k] # 0 /\ UNCHANGED <<fd, mStatus>>
                   /\ handled' = handled \o SubSeq(wire, 1, k)
      BY <1>5 DEF Router!TaskRecv, Router!Torn, Router!Unparsed, Router!Forget, Router!FD_UNKNOWN
    <2>2. handled \in Seq(Int) /\ wire \in Seq(Int) /\ k \in Nat /\ Len(wire) \in Nat
      BY MessagesAre
    <2>3. fd' \in {fd, "unknown"} /\ mStatus' = mStatus
      BY <2>1
    <2>4. wire' \in Seq(0 .. MaxMsgs)
      BY <2>1, <2>2, MessagesAre
    <2>5. handled' \in Seq(1 .. MaxMsgs)
      <3> DEFINE R == 1 .. MaxMsgs
      <3>1. PICK j \in 0 .. Len(wire) :
               handled' = handled \o SubSeq(wire, 1, j) /\ \A i \in 1 .. j : wire[i] # 0
        <4>1. CASE wire[k] = 0
          <5>1. k - 1 \in 0 .. Len(wire)
            BY <2>2
          <5> QED BY <2>1, <4>1, <5>1
        <4>2. CASE wire[k] # 0
          <5>1. k \in 0 .. Len(wire) /\ \A i \in 1 .. k : wire[i] # 0
            BY <2>1, <2>2, <4>2
          <5> QED BY <2>1, <4>2, <5>1
        <4> QED BY <4>1, <4>2
      <3>2. \A i \in 1 .. j : wire[i] \in R
        BY <2>2, <3>1, MessagesAre
      <3>3. handled \in Seq(R) /\ j \in Nat /\ j <= Len(wire)
        BY <2>2, MessagesAre
      <3> HIDE DEF R
      <3>4. SubSeq(wire, 1, j) \in Seq(R)
        BY <2>2, <3>2, <3>3
      <3> QED BY <3>1, <3>3, <3>4, ConcatProperties DEF R
    <2>6. ASSUME Whole
          PROVE  /\ sent = handled' \o wire'
                 /\ \E n \in Len(handled) + 1 .. Len(sent) : handled' = SubSeq(sent, 1, n)
      <3>1. sent = handled \o wire
        BY <2>6 DEF RouterInv, Whole
      <3>2. /\ (handled \o SubSeq(wire, 1, k)) \o SubSeq(wire, k + 1, Len(wire)) = sent
            /\ handled \o SubSeq(wire, 1, k) = SubSeq(sent, 1, Len(handled) + k)
            /\ Len(handled) + k \in Len(handled) + 1 .. Len(sent)
            /\ sent[Len(handled) + k] = wire[k]
            /\ Len(handled) + k \in DOMAIN sent
        BY <2>2, <3>1, Takes
      <3>3. wire[k] # 0
        BY <2>6, <3>2 DEF Whole
      <3> QED BY <2>1, <3>2, <3>3
    <2>7. RouterInv'
      <3>1. Whole => sent = handled' \o wire'
        BY <2>6
      <3> QED BY <1>1, <2>3, <2>4, <2>5, <3>1 DEF RouterInv, Router!TypeOK, Router!FD_UNKNOWN, Whole
    <2> QED BY <1>1, <2>3, <2>6, <2>7
  <1> QED BY <1>2, <1>3, <1>4, <1>5 DEF Router!Recv, Router!FD_UNKNOWN

(* The client that has quit is deleted, with an error on its connection.   *)
LEMMA TimeoutKeeps ==
    ASSUME RouterInv, Router!CheckTimeout
    PROVE  /\ RouterInv' /\ thread' = "undefined" /\ UNCHANGED <<fd, peer, sent, handled>>
  <1>1. /\ thread' = "undefined" /\ mStatus = "quit" /\ registered' = FALSE /\ pool' = FALSE
        /\ UNCHANGED <<mStatus, fd, event, handled, requested, peer, sent, wire>>
    BY DEF Router!CheckTimeout, Router!peerVars
  <1> QED BY <1>1 DEF RouterInv, Router!TypeOK

LEMMA RouterEndKeeps ==
    ASSUME ProcessEnds
    PROVE  RouterInv'
  <1>1. /\ thread' = "exited" /\ pool' = FALSE /\ mStatus' = "init" /\ fd' = "none"
        /\ registered' = FALSE /\ event' = {} /\ requested' = FALSE
        /\ peer' = "listening" /\ sent' = << >> /\ wire' = << >> /\ handled' = << >>
    BY DEF ProcessEnds
  <1>2. << >> = << >> \o << >> /\ << >> \in Seq(0 .. MaxMsgs) /\ << >> \in Seq(1 .. MaxMsgs)
    OBVIOUS
  <1> QED BY <1>1, <1>2 DEF RouterInv, Router!TypeOK

-----------------------------------------------------------------------------
(* The process.                                                            *)

(* The settings and the router of a process that got through its start.    *)
LEMMA LoadedAre ==
    ASSUME NEW c \in Loaded
    PROVE  Usable(c.qos) /\ (c.router # NoRouter => Enabled(c.router))
  <1>1. PICK q \in Loadable, r \in RouterFile :
           c = [qos |-> GetQosConf(q), router |-> GetOneRouterConf(r)]
    BY DEF Loaded
  <1>2. q \in [QosAttribute -> Int] /\ ~Refused(Weighed(Read(q)))
    BY AgentSvrdAssumption DEF AgentSvrdAssumption, Loadable
  <1>3. Usable(c.qos)
    BY <1>1, <1>2, SettingsUsable
  <1>4. GetOneRouterConf(r) # NoRouter => Enabled(GetOneRouterConf(r))
    <2> DEFINE conf_ == mRouterConf(r)
               enabled == {i \in DOMAIN conf_ : Enabled(conf_[i])}
               i0 == CHOOSE i \in enabled : \A j \in enabled : i <= j
    <2>1. enabled \subseteq Nat
      BY ConfigAssumption DEF mRouterConf
    <2>2. enabled # {} => i0 \in enabled
      <3> HIDE DEF enabled
      <3>1. enabled # {} => \E i \in enabled : \A j \in enabled : i <= j
        BY <2>1, LeastOfNat
      <3> QED BY <3>1
    <2>3. GetOneRouterConf(r) = IF enabled = {} THEN NoRouter ELSE conf_[i0]
      BY Zenon DEF GetOneRouterConf
    <2>4. enabled # {} => Enabled(conf_[i0])
      BY <2>2
    <2> HIDE DEF enabled, i0, conf_
    <2> QED BY <2>3, <2>4
  <1> QED BY <1>1, <1>3, <1>4

LEMMA InitKeeps == Init => IInv
  <1> SUFFICES ASSUME Init PROVE IInv
    OBVIOUS
  <1>1. /\ call = << >> /\ mTask = [c \in Client |-> 0] /\ mConnecting = [c \in Client |-> FALSE]
        /\ open = {} /\ state = [k \in Server!Conn |-> "none"]
        /\ inbox = [k \in Server!Conn |-> << >>] /\ outbox = [k \in Server!Conn |-> << >>]
        /\ reset = {} /\ server = "up" /\ capacity = Backlog /\ events = [e \in {} |-> {}]
        /\ sendBuf = [k \in Server!Conn |-> << >>] /\ writing = {}
        /\ counted = [n \in Server!Call |-> 0] /\ faults = 0
    BY DEF Init, Server!Init, Server!NULL
  <1>2. /\ thread = "starting" /\ pool = FALSE /\ mStatus = "init" /\ fd = "none"
        /\ registered = FALSE /\ event = {} /\ requested = FALSE
        /\ peer = "listening" /\ sent = << >> /\ wire = << >> /\ handled = << >> /\ conf \in Loaded
    BY DEF Init, Router!Init
  <1>3. /\ Backlog \in Nat /\ MaxFaults \in Nat /\ MaxCalls \in Nat
        /\ Server!Conn = Server!Call
    BY AgentSvrdAssumption DEF AgentSvrdAssumption, Server!Conn, Server!Call
  <1>4. /\ << >> \in Seq(Server!Call) /\ << >> \in Seq(CallRecord)
        /\ DOMAIN call = {} /\ Len(call) = 0 /\ DOMAIN events = {}
    BY <1>1
  <1>5. Pending = {} /\ Server!mTaskPool = {} /\ Untouched = Server!Call
    BY <1>1, <1>3, <1>4 DEF Pending, Server!mTaskPool, Untouched
  <1>6. Server!TypeOK
    BY <1>1, <1>3, <1>4, <1>5 DEF Server!TypeOK, CallRecord, Server!NULL, Server!Listener
  <1>7. Clients /\ Carried /\ Connections /\ Told
    <2>1. Clients
      BY <1>1, <1>5 DEF Clients
    <2>2. Carried
      BY <1>1, <1>3 DEF Carried
    <2>3. Connections
      BY <1>1, <1>3, <1>4, <1>5 DEF Connections
    <2>4. Told
      BY <1>4 DEF Told
    <2> QED BY <2>1, <2>2, <2>3, <2>4
  <1>8. ServerInv
    BY <1>1, <1>3, <1>6, <1>7 DEF ServerInv
  <1>9. RouterInv
    <2>1. << >> = << >> \o << >> /\ << >> \in Seq(0 .. MaxMsgs) /\ << >> \in Seq(1 .. MaxMsgs)
      OBVIOUS
    <2> QED BY <1>2, <2>1 DEF RouterInv, Router!TypeOK
  <1>10. ProcessInv
    BY <1>1, <1>2 DEF ProcessInv
  <1> QED BY <1>8, <1>9, <1>10 DEF IInv

LEMMA ServerSame ==
    ASSUME ServerInv, UNCHANGED serverVars
    PROVE  ServerInv' /\ server' = server /\ Server!mTaskPool' = Server!mTaskPool
  <1>1. /\ UNCHANGED ClientSide
        /\ UNCHANGED <<state, inbox, outbox, reset, server, capacity, events, sendBuf, writing,
                       counted, faults>>
    BY DEF serverVars, ClientSide
  <1>2. Server!mTaskPool' = Server!mTaskPool /\ Untouched' = Untouched
    BY <1>1 DEF Server!mTaskPool, Untouched
  <1>3. Clients' /\ Pending' = Pending /\ DOMAIN call' = DOMAIN call
    BY <1>1, ClientSideKeeps DEF ClientSide
  <1>4. Carried' /\ Told' /\ Connections'
    BY <1>1, <1>2, <1>3, ToldKeeps DEF ServerInv, Carried, Connections
  <1>5. Server!TypeOK'
    BY <1>1, <1>2, ClientSideKeeps
       DEF ServerInv, Server!TypeOK, CallRecord, Server!NULL, Server!Listener
  <1> QED BY <1>1, <1>2, <1>3, <1>4, <1>5 DEF ServerInv

LEMMA RouterSame ==
    ASSUME RouterInv, UNCHANGED routerVars
    PROVE  RouterInv' /\ UNCHANGED <<thread, fd, peer, sent, handled>>
  BY DEF routerVars, RouterInv, Router!TypeOK

(* A step that hands a message on, or the end of the process.              *)
Handling == Router!Ordered!Next \/ ProcessEnds \/ UNCHANGED <<sent, handled>>

LEMMA SendsInOrder ==
    ASSUME RouterInv, Router!RouterSends
    PROVE  Router!Ordered!Next
  <1>1. /\ UNCHANGED handled
        /\ Whole' => Whole /\ \E m \in 1 .. MaxMsgs : sent' = Append(sent, m)
    BY RouterSendsKeeps
  <1>2. CASE Whole'
    <2>1. PICK m \in 1 .. MaxMsgs : sent' = Append(sent, m)
      BY <1>1, <1>2
    <2>2. ~(\E i \in DOMAIN sent : sent[i] = 0) /\ ~(\E i \in DOMAIN sent' : sent'[i] = 0)
      BY <1>1, <1>2 DEF Whole
    <2>3. Router!Ordered!Accept(m)
      BY <1>1, <2>1, <2>2 DEF Router!Ordered!Accept, Router!Torn
    <2> QED BY <2>3 DEF Router!Ordered!Next
  <1>3. CASE ~Whole'
    <2>1. \E i \in DOMAIN sent' : sent'[i] = 0
      BY <1>3 DEF Whole
    <2> QED BY <2>1 DEF Router!Ordered!Next, Router!Ordered!Break, Router!Torn
  <1> QED BY <1>2, <1>3

LEMMA RecvInOrder ==
    ASSUME RouterInv, Router!Recv
    PROVE  Router!Ordered!Next \/ UNCHANGED <<sent, handled>>
  <1>1. /\ sent' = sent
        /\ Whole => handled' = handled
                    \/ \E n \in Len(handled) + 1 .. Len(sent) : handled' = SubSeq(sent, 1, n)
    BY RecvKeeps
  <1>2. CASE Whole
    <2>1. CASE handled' = handled
      BY <1>1, <2>1
    <2>2. CASE \E n \in Len(handled) + 1 .. Len(sent) : handled' = SubSeq(sent, 1, n)
      BY <1>1, <2>2 DEF Router!Ordered!Next, Router!Ordered!Handle, Router!Torn
    <2> QED BY <1>1, <1>2, <2>1, <2>2
  <1>3. CASE ~Whole
    <2>1. \E i \in DOMAIN sent' : sent'[i] = 0
      BY <1>1, <1>3 DEF Whole
    <2> QED BY <2>1 DEF Router!Ordered!Next, Router!Ordered!Break, Router!Torn
  <1> QED BY <1>2, <1>3

LEMMA NextKeeps ==
    ASSUME IInv, [Next]_vars
    PROVE  IInv' /\ Handling
  <1>1. ServerInv /\ RouterInv /\ ProcessInv
    BY DEF IInv
  <1>2. CASE Calls \/ \E c \in Client : ClientStep(c)
    <2>1. /\ Server!Calls \/ \E c \in Client : Server!InCall(c)
          /\ UNCHANGED routerVars /\ conf' = conf
      BY <1>2 DEF Calls, ClientStep
    <2>2. ServerInv' /\ server' = server /\ Server!mTaskPool' = Server!mTaskPool
      BY <1>1, <2>1, ClientKeeps
    <2>3. RouterInv' /\ UNCHANGED <<thread, fd, sent, handled>>
      BY <1>1, <2>1, RouterSame
    <2> QED BY <1>1, <2>1, <2>2, <2>3 DEF IInv, ProcessInv, Handling
  <1>3. CASE ConnectRouter
    <2>1. /\ server = "up" /\ conf.router # NoRouter /\ Router!GenerateClient
          /\ UNCHANGED serverVars /\ conf' = conf
      BY <1>3 DEF ConnectRouter
    <2>2. ServerInv' /\ server' = server /\ Server!mTaskPool' = Server!mTaskPool
      BY <1>1, <2>1, ServerSame
    <2>3. RouterInv' /\ thread' \in {"starting", "running"} /\ thread = "starting" /\ UNCHANGED <<sent, handled>>
      BY <1>1, <2>1, StartKeeps
    <2>4. Enabled(conf.router)
      BY <1>1, <2>1, LoadedAre DEF ProcessInv
    <2> QED BY <1>1, <2>1, <2>2, <2>3, <2>4 DEF IInv, ProcessInv, Handling
  <1>4. CASE ConnectFails \/ Dies
    <2>1. ProcessEnds
      BY <1>4 DEF ConnectFails, Dies
    <2>2. ServerInv' /\ server' = "down" /\ RouterInv'
      BY <1>1, <2>1, EndKeeps, RouterEndKeeps DEF ProcessEnds
    <2>3. thread' = "exited" /\ fd' = "none" /\ conf' = conf
      BY <2>1 DEF ProcessEnds
    <2> QED BY <1>1, <2>1, <2>2, <2>3 DEF IInv, ProcessInv, Handling
  <1>5. CASE StartThreads
    <2>1. /\ server = "up" /\ Router!InitSvrReq /\ UNCHANGED serverVars /\ conf' = conf /\ fd' = fd
      BY <1>5 DEF StartThreads, Router!InitSvrReq
    <2>2. ServerInv' /\ server' = server /\ Server!mTaskPool' = Server!mTaskPool
      BY <1>1, <2>1, ServerSame
    <2>3. RouterInv' /\ thread' \in {"starting", "running"} /\ thread = "starting" /\ UNCHANGED <<sent, handled>>
      BY <1>1, <2>1, StartKeeps
    <2> QED BY <1>1, <2>1, <2>2, <2>3 DEF IInv, ProcessInv, Handling
  <1>6. CASE SingleStart
    <2>1. thread # "starting" /\ Server!Loop /\ UNCHANGED routerVars /\ conf' = conf
      BY <1>6 DEF SingleStart
    <2>2. /\ ServerInv' /\ server = "up" /\ server' \in {"up", "undefined"}
          /\ server' = "undefined" => Cardinality(Server!mTaskPool') + 1 > Backlog
      BY <1>1, <2>1, LoopKeeps
    <2>3. RouterInv' /\ UNCHANGED <<thread, fd, sent, handled>>
      BY <1>1, <2>1, RouterSame
    <2> QED BY <1>1, <2>1, <2>2, <2>3 DEF IInv, ProcessInv, Handling
  <1>7. CASE RouterSide
    <2>1. /\ server = "up" /\ UNCHANGED serverVars /\ conf' = conf
          /\ Router!RouterSends \/ Router!RouterCloses \/ Router!Reset
      BY <1>7 DEF RouterSide
    <2>2. ServerInv' /\ server' = server /\ Server!mTaskPool' = Server!mTaskPool
      BY <1>1, <2>1, ServerSame
    <2>3. RouterInv' /\ UNCHANGED <<thread, fd>>
      BY <1>1, <2>1, RouterSendsKeeps, PeerKeeps
    <2>4. Handling
      BY <1>1, <2>1, SendsInOrder, PeerKeeps DEF Handling
    <2> QED BY <1>1, <2>1, <2>2, <2>3, <2>4 DEF IInv, ProcessInv
  <1>8. CASE RouterThread
    <2>1. CASE (Router!EpollWait \/ Router!Recv) /\ UNCHANGED <<serverVars, conf>> /\ server = "up"
      <3>1. ServerInv' /\ server' = server /\ Server!mTaskPool' = Server!mTaskPool
        BY <1>1, <2>1, ServerSame
      <3>2. RouterInv' /\ UNCHANGED thread /\ (fd' = "none" <=> fd = "none")
        BY <1>1, <2>1, WaitKeeps, RecvKeeps
      <3>3. Handling
        BY <1>1, <2>1, WaitKeeps, RecvInOrder DEF Handling
      <3> QED BY <1>1, <2>1, <3>1, <3>2, <3>3 DEF IInv, ProcessInv
    <2>2. CASE /\ Router!CheckTimeout /\ server = "up" /\ conf' = conf
               /\ server' = "undefined" /\ events' = [e \in {} |-> {}]
               /\ UNCHANGED <<call, mTask, mConnecting, open, state, inbox, outbox, reset,
                              capacity, sendBuf, writing, counted, faults>>
      <3>1. ServerInv'
        BY <1>1, <2>2, LostKeeps
      <3>2. RouterInv' /\ thread' = "undefined" /\ UNCHANGED <<fd, sent, handled>>
        BY <1>1, <2>2, TimeoutKeeps
      <3> QED BY <1>1, <2>2, <3>1, <3>2 DEF IInv, ProcessInv, Handling
    <2> QED BY <1>8, <2>1, <2>2 DEF RouterThread
  <1>9. CASE Restart
    <2>1. /\ Server!Restart /\ thread' = "starting" /\ conf' \in Loaded
          /\ UNCHANGED <<pool, mStatus, fd, registered, event, handled, requested, peer, sent, wire>>
      BY <1>9 DEF Restart
    <2>2. ServerInv' /\ server = "down" /\ server' = "up"
      BY <1>1, <2>1, RestartKeeps
    <2>3. thread = "exited" /\ fd = "none"
      BY <1>1, <2>2 DEF ProcessInv
    <2>4. RouterInv'
      BY <1>1, <2>1, <2>3 DEF RouterInv, Router!TypeOK
    <2> QED BY <1>1, <2>1, <2>2, <2>3, <2>4 DEF IInv, ProcessInv, Handling
  <1>10. CASE UNCHANGED vars
    <2>1. UNCHANGED serverVars /\ UNCHANGED routerVars /\ conf' = conf
      BY <1>10 DEF vars
    <2>2. ServerInv' /\ server' = server /\ Server!mTaskPool' = Server!mTaskPool
      BY <1>1, <2>1, ServerSame
    <2>3. RouterInv' /\ UNCHANGED <<thread, fd, sent, handled>>
      BY <1>1, <2>1, RouterSame
    <2> QED BY <1>1, <2>1, <2>2, <2>3 DEF IInv, ProcessInv, Handling
  <1> QED BY <1>2, <1>3, <1>4, <1>5, <1>6, <1>7, <1>8, <1>9, <1>10 DEF Next

(* The inductive invariant of the process: its two threads, the calls of   *)
(* its clients and the streams they are answered on, through starts,       *)
(* exits and deaths.                                                       *)
THEOREM Inductive == Spec => []IInv
  <1>1. Init => IInv
    BY InitKeeps
  <1>2. IInv /\ [Next]_vars => IInv'
    BY NextKeeps
  <1> QED BY <1>1, <1>2, PTL DEF Spec

(* What a call returns tells what became of its request: answered, by the  *)
(* answer to this call, it was counted once; refused or not sent, it was   *)
(* not; and no call is counted twice, whatever clients, deaths of the      *)
(* process and errors of system calls do meanwhile (agent_api.cpp,         *)
(* AgentServerTask.cpp).                                                   *)
THEOREM ReturnTellsCorrect == Spec => []ReturnTells
  <1>1. IInv => ReturnTells
    <2> SUFFICES ASSUME IInv, NEW n \in DOMAIN call
                 PROVE  /\ call[n].got \in {0, n}
                        /\ call[n].ret = "answered" => counted[n] = 1
                        /\ call[n].ret \in {"refused", "unsent"} => counted[n] = 0
                        /\ call[n].ret \in {"refused", "unsent"} /\ call[n].kind # "wrong" => faults > 0
                        /\ call[n].ret = "lost" => counted[n] <= 1
                        /\ call[n].ret = "lost" /\ call[n].client \in Patient => faults > 0
      BY DEF ReturnTells, Server!ReturnTells
    <2>1. ServerInv
      BY DEF IInv
    <2>2. n \in Server!Call
      BY <2>1, CallsAre
    <2>3. counted[n] \in {0, 1}
      BY <2>1, <2>2 DEF ServerInv, Carried
    <2>4. call[n].ret \in {"refused", "unsent"} => counted[n] = 0
      BY <2>1 DEF ServerInv, Told, Untouched
    <2> QED BY <2>1, <2>3, <2>4 DEF ServerInv, Told
  <1> QED BY <1>1, Inductive, PTL

(* The process is lost to undefined behaviour only with more connections   *)
(* than LISTEN_BACKLOG, or after an error on the connection to its router; *)
(* and whatever its files say, a process that got through its start has    *)
(* settings that its engine can work with and a router that they enable    *)
(* (wServer.inl, wMTcpClient.inl, AgentConfig.cpp).                        *)
THEOREM UndefinedCorrect == Spec => []Undefined
  <1>1. IInv => Undefined
    <2> SUFFICES ASSUME IInv PROVE Undefined
      OBVIOUS
    <2>1. ServerInv /\ RouterInv /\ ProcessInv
      BY DEF IInv
    <2>2. Server!TypeOK /\ Router!TypeOK
      BY <2>1 DEF ServerInv, RouterInv
    <2>3. Usable(conf.qos)
      BY <2>1, LoadedAre DEF ProcessInv
    <2>4. TypeOK
      BY <2>1, <2>2, <2>3 DEF TypeOK, ProcessInv
    <2>5. server = "undefined" => \/ Cardinality(Server!mTaskPool) + 1 > Backlog
                                  \/ thread = "undefined" /\ peer = "reset"
      BY <2>1 DEF ProcessInv, RouterInv
    <2> QED BY <2>4, <2>5 DEF Undefined
  <1> QED BY <1>1, Inductive, PTL

(* Each process handles the messages of its router in their order, each    *)
(* once, up to one that is refused (wTask.inl, wTcpClient.inl).            *)
THEOREM InOrderCorrect == Spec => InOrder
  <1>1. Init => Router!Ordered!Init
    <2> SUFFICES ASSUME Init PROVE Router!Ordered!Init
      OBVIOUS
    <2>1. sent = << >> /\ handled = << >>
      BY DEF Init, Router!Init
    <2>2. ~(\E i \in DOMAIN sent : sent[i] = Router!Torn)
      BY <2>1
    <2> QED BY <2>1, <2>2 DEF Router!Ordered!Init
  <1>2. IInv /\ [Next]_vars => [Router!Ordered!Next \/ ProcessEnds]_<<sent, handled>>
    BY NextKeeps DEF Handling
  <1> QED BY <1>1, <1>2, Inductive, PTL DEF Spec, InOrder
=============================================================================
