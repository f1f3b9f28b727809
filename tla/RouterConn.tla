----------------------------- MODULE RouterConn ------------------------------
(***************************************************************************)
(* AgentSvrd's connection to RouterSvrd: how it is made at the start       *)
(* (AgentServer::ConnectRouter), and the loop of the router thread that    *)
(* reads it (wMTcpClient.inl, wTcpClient.inl) until the connection or the  *)
(* thread is lost.  What the messages say is in RouterSync, how they are   *)
(* cut out of the bytes in Task: here a message is a number, and 0 is one  *)
(* that the stream spoilt and TaskRecv refuses (ERR_MSGLEN).               *)
(*                                                                         *)
(* There is one client in mTcpClientPool.  Heartbeats are disabled         *)
(* (mIsCheckTimer is FALSE), and CheckReconnect returns while there is a   *)
(* task, which is always: of the timers only the removal of clients that   *)
(* have quit is left.                                                      *)
(***************************************************************************)
EXTENDS Integers, Sequences

CONSTANT MaxMsgs    \* bound: messages of RouterSvrd

VARIABLES
    thread,     \* the router thread: "starting", "running", "exited", "undefined"
    pool,       \* the client is in mTcpClientPool
    mStatus,    \* of the client
    fd,         \* FD() of its task's socket: "none", "open", FD_UNKNOWN
    registered, \* the socket is open in the kernel, and in the epoll set
    event,      \* what epoll_wait returned and Recv has not looked at
    requested,  \* RouterSvrd has the INIT request
    peer,       \* RouterSvrd's end: "listening", "open", "closed", "reset"
    sent,       \* messages it has sent
    wire,       \* those not received yet
    handled     \* those given to AgentClientTask

clientVars == <<thread, pool, mStatus, fd, registered, event, handled>>
peerVars == <<requested, peer, sent, wire>>
vars == <<clientVars, peerVars>>

FD_UNKNOWN == "unknown"
Torn == 0

Init ==
    /\ thread = "starting" /\ pool = FALSE /\ mStatus = "init" /\ fd = "none"
    /\ registered = FALSE /\ event = {} /\ requested = FALSE
    /\ peer = "listening" /\ sent = << >> /\ wire = << >> /\ handled = << >>

-----------------------------------------------------------------------------
(* The start, on the main thread.                                          *)

(* ConnectRouter: no router in the configuration, no connection to it, or  *)
(* no place in epoll for it ends the process.                              *)
ConnectFails ==
    /\ thread = "starting" /\ fd = "none"
    /\ thread' = "exited"
    /\ UNCHANGED <<pool, mStatus, fd, registered, event, handled, peerVars>>

(* GenerateClient: CreateClient, AddToEpoll and AddTcpClientPool.          *)
GenerateClient ==
    /\ thread = "starting" /\ fd = "none"
    /\ fd' = "open" /\ registered' = TRUE /\ pool' = TRUE /\ mStatus' = "running"
    /\ peer' = "open"
    /\ UNCHANGED <<thread, event, handled, requested, sent, wire>>

(* InitSvrReq and StartThread.  Nobody looks at what SyncSend returns: an  *)
(* agent whose request is lost runs on without any Svr.                    *)
InitSvrReq ==
    /\ thread = "starting" /\ fd = "open"
    /\ thread' = "running" /\ requested' = (peer = "open")
    /\ UNCHANGED <<pool, mStatus, fd, registered, event, handled, peer, sent, wire>>

-----------------------------------------------------------------------------
(* RouterSvrd and the network.                                             *)

(* The answer to INIT and the broadcasts, which need no request.           *)
RouterSends ==
    /\ peer = "open" /\ Len(sent) < MaxMsgs
    /\ \E m \in {Len(sent) + 1, Torn} :
          sent' = Append(sent, m) /\ wire' = Append(wire, m)
    /\ UNCHANGED <<clientVars, requested, peer>>

(* The worker removes the task, exits or dies.  The data it has sent still *)
(* arrives, unless the connection is reset: by a worker that had not read  *)
(* everything, or by the keepalive of a dead network.                      *)
RouterCloses ==
    /\ peer = "open" /\ peer' = "closed"
    /\ UNCHANGED <<clientVars, requested, sent, wire>>

Reset ==
    /\ peer \in {"open", "closed"} /\ peer' = "reset"
    /\ UNCHANGED <<clientVars, requested, sent, wire>>

-----------------------------------------------------------------------------
(* The router thread.                                                      *)

\* level-triggered: EPOLLIN | EPOLLERR
Ready ==
    IF ~registered THEN {}
    ELSE (IF wire # << >> \/ peer # "open" THEN {"in"} ELSE {})
         \cup (IF peer = "reset" THEN {"err"} ELSE {})

EpollWait ==
    /\ thread = "running" /\ event = {} /\ Ready # {}
    /\ event' = Ready
    /\ UNCHANGED <<thread, pool, mStatus, fd, registered, handled, peerVars>>

\* Mutants: a connection that the router has closed is not read to its end;
\* the last message handled stays in the buffer; a client that recv() fails
\* for is quit.
ReadableOpen == wire # << >> /\ peer = "open"
UnparsedStays(k) == SubSeq(wire, k, Len(wire))
ForgetQuits == fd' = FD_UNKNOWN /\ mStatus' = "quit"

Readable == wire # << >>
Unparsed(k) == SubSeq(wire, k + 1, Len(wire))
Quit == mStatus' = "quit" /\ UNCHANGED fd
Forget == fd' = FD_UNKNOWN /\ UNCHANGED mStatus

(* Recv for the one event: TaskRecv hands on what it read of the messages. *)
TaskRecv ==
    /\ Readable
    /\ \E k \in 1 .. Len(wire) :
          /\ \A i \in 1 .. k - 1 : wire[i] # Torn
          /\ wire' = Unparsed(k)
          /\ \/ /\ wire[k] = Torn /\ Forget
                /\ handled' = handled \o SubSeq(wire, 1, k - 1)
             \/ /\ wire[k] # Torn /\ UNCHANGED <<fd, mStatus>>
                /\ handled' = handled \o SubSeq(wire, 1, k)

(* recv() returns 0 or an error.  The socket is only forgotten: it is not  *)
(* closed and stays in the epoll set.                                      *)
TaskRecvEnds ==
    /\ ~Readable /\ peer # "open"
    /\ Forget /\ UNCHANGED <<wire, handled>>

(* A client without a socket is passed over, and epoll_wait returns the    *)
(* same event again.                                                       *)
Recv ==
    /\ thread = "running" /\ event # {}
    /\ \/ fd = FD_UNKNOWN /\ UNCHANGED <<fd, mStatus, wire, handled>>
       \/ /\ fd # FD_UNKNOWN /\ (mStatus = "quit" \/ "err" \in event)
          /\ Quit /\ UNCHANGED <<wire, handled>>
       \/ fd # FD_UNKNOWN /\ mStatus = "running" /\ "err" \notin event /\ TaskRecv
       \/ fd # FD_UNKNOWN /\ mStatus = "running" /\ "err" \notin event /\ TaskRecvEnds
    /\ event' = {}
    /\ UNCHANGED <<thread, pool, registered, requested, peer, sent>>

(* CheckTimeout finds the client quit, at most KEEPALIVE_TIME later:       *)
(* RemoveEpoll, then RemoveTcpClientPool deletes what is behind the end of *)
(* the vector, which is the client itself, and erases the entry of the map *)
(* that CheckTimeout stands on.  Both are used after that.                 *)
CheckTimeout ==
    /\ thread = "running" /\ event = {} /\ pool /\ mStatus = "quit"
    /\ registered' = FALSE /\ pool' = FALSE /\ thread' = "undefined"
    /\ UNCHANGED <<mStatus, fd, event, handled, peerVars>>

-----------------------------------------------------------------------------
Next ==
    \/ ConnectFails \/ GenerateClient \/ InitSvrReq
    \/ RouterSends \/ RouterCloses \/ Reset
    \/ EpollWait \/ Recv \/ CheckTimeout

Spec == Init /\ [][Next]_vars

(* The thread's loop goes on.  When connecting or removing happen is not   *)
(* needed.                                                                 *)
Fairness == WF_vars(InitSvrReq) /\ WF_vars(EpollWait) /\ WF_vars(Recv)
FairSpec == Spec /\ Fairness

-----------------------------------------------------------------------------
TypeOK ==
    /\ thread \in {"starting", "running", "exited", "undefined"}
    /\ pool \in BOOLEAN /\ registered \in BOOLEAN /\ requested \in BOOLEAN
    /\ mStatus \in {"init", "running", "quit"}
    /\ fd \in {"none", "open", FD_UNKNOWN}
    /\ event \subseteq {"in", "err"}
    /\ peer \in {"listening", "open", "closed", "reset"}
    /\ sent \in Seq(0 .. MaxMsgs) /\ wire \in Seq(0 .. MaxMsgs) /\ handled \in Seq(1 .. MaxMsgs)

(* The thread uses freed memory only after an error on the connection; an  *)
(* orderly end or a refused message never leads there.                     *)
UndefinedAfterReset == thread = "undefined" => peer = "reset"

(* The messages are handled in order, each once, until one is refused.     *)
Ordered == INSTANCE Stream WITH
    Message <- 1 .. MaxMsgs, accepted <- sent, broken <- \E i \in DOMAIN sent : sent[i] = Torn
InOrder == Ordered!Spec

(* What RouterSvrd sent before it closed the connection is all handled,    *)
(* unless the connection is reset.                                         *)
HandledBeforeClose ==
    []<>(\/ handled = sent \/ peer = "reset"
         \/ \E i \in DOMAIN sent : sent[i] = Torn)
=============================================================================
