--------------------------------- MODULE Ping ---------------------------------
(***************************************************************************)
(* One ping of the detect thread (wPing.cpp): what it makes of the packets *)
(* that a raw ICMP socket hands to every process that has one.  In         *)
(* DetectThread and SvrQos its result is "ok", "bad" or "nopri".           *)
(***************************************************************************)
EXTENDS Integers, Sequences

CONSTANTS
    RECV_RETRY_TIMES,
    IdRange             \* the values of icmp_id: 2^16, pid_t has more

ASSUME PingAssumption ==
    RECV_RETRY_TIMES \in Nat \ {0} /\ IdRange \in Nat \ {0}

NOT_PRI == -100

(* fromDest: from the host that was pinged, which is all that is looked at *)
(* before a packet is taken for the answer; type: "reply", or the request  *)
(* itself when the host is this one, or an ICMP error; size: of the ICMP   *)
(* part; mark: the data begins with ICMP_DATA.                             *)
Packet == [fromDest : BOOLEAN, type : {"reply", "request", "error"},
           icmp_id : 0 .. IdRange - 1, size : Nat, mark : BOOLEAN]

\* An interrupted recvmsg() counts like a packet from elsewhere.
Arrivals == Seq(Packet)

(* Pack: the identifier is cut to the width of its field.                  *)
Pack(mPid) == [fromDest |-> TRUE, type |-> "reply", icmp_id |-> mPid % IdRange,
               size |-> 64, mark |-> TRUE]

(* Unpack compares the field with the whole mPid.                          *)
Unpack(mPid, packet) ==
    IF packet.size < 8 THEN -3
    ELSE IF packet.type # "reply" THEN -1
    ELSE IF packet.icmp_id # mPid THEN -4
    ELSE IF packet.size < 16 THEN -5
    ELSE IF ~packet.mark THEN -6
    ELSE 0

(* RecvPacket: the first packet from the host among the first few, before  *)
(* recvmsg() times out, which it does after the last of the arrivals.      *)
IsTaken(i, arrivals) ==
    /\ i \in DOMAIN arrivals /\ i <= RECV_RETRY_TIMES
    /\ arrivals[i].fromDest
    /\ \A j \in 1 .. i - 1 : ~arrivals[j].fromDest

FirstTaken(arrivals) == CHOOSE i \in DOMAIN arrivals : IsTaken(i, arrivals)

RecvPacket(mPid, arrivals) ==
    IF \E i \in DOMAIN arrivals : IsTaken(i, arrivals)
    THEN LET r == Unpack(mPid, arrivals[FirstTaken(arrivals)])
         IN  IF r < 0 THEN r ELSE FirstTaken(arrivals) - 1
    ELSE IF Len(arrivals) >= RECV_RETRY_TIMES THEN -2 ELSE -1

(* Open, which only root can, then Ping.  The host is given by its address *)
(* and the packet can be sent, or the result is -1.                        *)
PingHost(root, sendable, mPid, arrivals) ==
    IF ~root THEN NOT_PRI
    ELSE IF ~sendable THEN -1
    ELSE RecvPacket(mPid, arrivals)
=============================================================================
