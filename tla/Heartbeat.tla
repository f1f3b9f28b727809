------------------------------ MODULE Heartbeat -----------------------------
(***************************************************************************)
(* The heartbeats of a connection between a wServer and a wTcpClient: each *)
(* end sends an empty command when it has sent nothing for a while, and    *)
(* gives the connection up when it has sent too many of them without one   *)
(* coming in.  An end does so only if its mIsCheckTimer is set; it is not  *)
(* in the programs, nor does anything in a client of the API.              *)
(*                                                                         *)
(* A tick is the time after which CheckTimer looks again.  A heartbeat     *)
(* arrives within a tick, unless the end it is for has hung.               *)
(***************************************************************************)
EXTENDS Integers

CONSTANTS
    KEEPALIVE_TIME, \* in ticks
    KEEPALIVE_CNT

End == {"server", "client"}
Other(e) == IF e = "server" THEN "client" ELSE "server"

VARIABLES
    mIsCheckTimer,  \* by end
    mTimer,         \* ticks until CheckTimeout is called
    idle,           \* ticks since SendTime(), cut off at KEEPALIVE_TIME
    mHeartbeatTimes,
    connected,      \* the end has not given the connection up
    coming,         \* a heartbeat is on its way to the end
    hung,           \* the end does nothing any more, and its peer is not told
    spoke           \* history: the end has sent a message that is not empty

beatVars == <<mIsCheckTimer, mTimer, idle, mHeartbeatTimes, connected, coming, hung, spoke>>

Init ==
    /\ mIsCheckTimer \in [End -> BOOLEAN]
    /\ mTimer \in [End -> 1 .. KEEPALIVE_TIME]  \* the timers began before the connection
    /\ idle = [e \in End |-> 0]
    /\ mHeartbeatTimes = [e \in End |-> 0]
    /\ connected = [e \in End |-> TRUE]
    /\ coming = [e \in End |-> FALSE] /\ hung = [e \in End |-> FALSE]
    /\ spoke = [e \in End |-> FALSE]

(* wTimer::CheckTimer with an interval of one tick.                        *)
TimerEnds(e) == mTimer[e] - 1 <= 0
TimerAfter(e) == IF TimerEnds(e) THEN KEEPALIVE_TIME ELSE mTimer[e] - 1

Longer(e) == IF idle[e] < KEEPALIVE_TIME THEN idle[e] + 1 ELSE idle[e]

\* Mutant: no more are sent than may go without an answer.
BeatsWithin(e) ==
    /\ TimerEnds(e) /\ mIsCheckTimer[e] /\ connected[e] /\ ~hung[e]
    /\ Longer(e) >= KEEPALIVE_TIME /\ mHeartbeatTimes[e] < KEEPALIVE_CNT

(* CheckTimeout sends one, and HeartbeatOutTimes is asked at once.         *)
Beats(e) ==
    /\ TimerEnds(e) /\ mIsCheckTimer[e] /\ connected[e] /\ ~hung[e]
    /\ Longer(e) >= KEEPALIVE_TIME
HeartbeatOutTimes(e) == mHeartbeatTimes[e] + 1 > KEEPALIVE_CNT

Tick ==
    /\ \A e \in End : coming[e] => hung[e] \/ ~connected[e]
    /\ mTimer' = [e \in End |-> IF hung[e] THEN mTimer[e] ELSE TimerAfter(e)]
    /\ mHeartbeatTimes' = [e \in End |-> mHeartbeatTimes[e] + IF Beats(e) THEN 1 ELSE 0]
    /\ idle' = [e \in End |-> IF Beats(e) THEN 0 ELSE Longer(e)]
    /\ connected' = [e \in End |-> connected[e] /\ ~(Beats(e) /\ HeartbeatOutTimes(e))]
    /\ coming' = [e \in End |-> coming[e] \/ (Beats(Other(e)) /\ connected[e])]
    /\ UNCHANGED <<mIsCheckTimer, hung, spoke>>

(* ParseRecvMessage of an empty command.                                   *)
Cleared(e) == 0

Arrives(e) ==
    /\ coming[e] /\ connected[e] /\ ~hung[e]
    /\ coming' = [coming EXCEPT ![e] = FALSE]
    /\ mHeartbeatTimes' = [mHeartbeatTimes EXCEPT ![e] = Cleared(e)]
    /\ UNCHANGED <<mIsCheckTimer, mTimer, idle, connected, hung, spoke>>

(* A message that is not empty only counts for the end that sends it.      *)
Sends(e) ==
    /\ connected[e] /\ ~hung[e] /\ idle[e] > 0
    /\ idle' = [idle EXCEPT ![e] = 0] /\ spoke' = [spoke EXCEPT ![e] = TRUE]
    /\ UNCHANGED <<mIsCheckTimer, mTimer, mHeartbeatTimes, connected, coming, hung>>

Hangs(e) ==
    /\ ~hung[e] /\ hung' = [hung EXCEPT ![e] = TRUE]
    /\ UNCHANGED <<mIsCheckTimer, mTimer, idle, mHeartbeatTimes, connected, coming, spoke>>

Next == Tick \/ \E e \in End : Arrives(e) \/ Sends(e) \/ Hangs(e)

Spec == Init /\ [][Next]_beatVars

(* Time goes on, and what was sent arrives.                                *)
FairSpec == Spec /\ WF_beatVars(Tick) /\ \A e \in End : WF_beatVars(Arrives(e))

-----------------------------------------------------------------------------
TypeOK ==
    /\ mIsCheckTimer \in [End -> BOOLEAN] /\ connected \in [End -> BOOLEAN]
    /\ coming \in [End -> BOOLEAN] /\ hung \in [End -> BOOLEAN]
    /\ mTimer \in [End -> 1 .. KEEPALIVE_TIME] /\ idle \in [End -> 0 .. KEEPALIVE_TIME]
    /\ mHeartbeatTimes \in [End -> 0 .. KEEPALIVE_CNT + 1]

(* An end gives a connection up only if its peer has hung, sends no        *)
(* heartbeats, has given it up before, or has sent messages: those do not  *)
(* clear the count, and an end that sends them sends no heartbeats.        *)
LeftForCause(e) ==
    ~connected[e] =>
        /\ mIsCheckTimer[e]
        /\ LET o == Other(e) IN hung[o] \/ ~mIsCheckTimer[o] \/ ~connected[o] \/ spoke[o]

(* An end that checks gives up a peer that hung, unless it hangs itself or *)
(* goes on sending messages for ever: while it sends those, it sends no    *)
(* heartbeat and counts nothing.                                           *)
HungIsFound ==
    \A e \in End :
        \/ []<>(mIsCheckTimer[e] /\ hung[Other(e)] => ~connected[e] \/ hung[e])
        \/ []<><<Sends(e)>>_beatVars
=============================================================================
