-------------------------------- MODULE SvrKey --------------------------------
(***************************************************************************)
(* What makes two Svrs the same one (SvrNet_t of command/Svr.h): mGid and  *)
(* mXid, the kind, and mHost and mPort.  The maps of the QoS engine are    *)
(* keyed by it, so the other modules can take Svrs for model values only   *)
(* if operator< orders them, and finds equal just those that operator==    *)
(* does.  A host stands for its place in the order of strcmp().            *)
(***************************************************************************)
EXTENDS Integers

CONSTANT PortRange      \* the values of an unsigned short: 2^16

ASSUME KeyAssumption == PortRange \in Nat \ {0}

Svrs == [mGid : Int, mXid : Int, mPort : Int, mHost : Int, mWeight : Int, mVersion : Int]

(* operator==, which ignores the weight and the version.                   *)
SameSvr(a, b) ==
    /\ a.mGid = b.mGid /\ a.mXid = b.mXid
    /\ a.mHost = b.mHost /\ a.mPort = b.mPort

(* operator<.                                                              *)
Before(a, b) ==
    \/ a.mGid < b.mGid
    \/ a.mGid = b.mGid /\ a.mXid < b.mXid
    \/ a.mGid = b.mGid /\ a.mXid = b.mXid /\ a.mPort < b.mPort
    \/ a.mGid = b.mGid /\ a.mXid = b.mXid /\ a.mPort = b.mPort /\ a.mHost < b.mHost

(* map::find: neither is before the other.                                 *)
Found(a, b) == ~Before(a, b) /\ ~Before(b, a)

(* The Svr that a report (SvrCaller_t) is about.  Its port is an unsigned  *)
(* short, that of a Svr an int.                                            *)
Called(a) ==
    [mGid |-> a.mGid, mXid |-> a.mXid, mPort |-> a.mPort % PortRange,
     mHost |-> a.mHost, mWeight |-> 100, mVersion |-> 0]
=============================================================================
