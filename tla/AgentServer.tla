----------------------------- MODULE AgentServer -----------------------------
(***************************************************************************)
(* Calls of the client API (agent_api.cpp), each on a connection of its    *)
(* own, and the loop of AgentSvrd that serves them (wServer.inl,           *)
(* AgentServerTask.cpp).  What a query or a report does to the Svrs is in  *)
(* SvrQos, the bytes of a connection in Task: here a request and its       *)
(* answer are the number of the call they belong to.                       *)
(*                                                                         *)
(* Left out: the heartbeats, which AgentSvrd leaves disabled (CheckTimeout *)
(* returns at once), and the Unix socket, which it does not listen on.     *)
(***************************************************************************)
EXTENDS Integers, Sequences, FiniteSetsExt

CONSTANTS
    Client,     \* processes that use the API
    Patient,    \* those that never reach the timeout of SyncRecv
    Backlog,    \* LISTEN_BACKLOG, the first capacity of mEpollEventPool
    MaxCalls,   \* bound: calls
    MaxFaults   \* bound: deaths of AgentSvrd and system calls that fail

VARIABLES
    \* the clients
    call,       \* the calls, in the order they began
    mTask,      \* g_handle of each client: its connection, or NULL
    mConnecting,
    open,       \* connections whose client has not closed its end
    \* the kernel
    state,      \* of a connection's server end
    inbox,      \* requests on their way to the server
    outbox,     \* answers on their way to the client
    reset,      \* connections with an error pending for epoll
    \* AgentSvrd
    server,     \* "up", "down", "undefined"
    capacity,   \* of mEpollEventPool
    events,     \* the events of this round of Recv not yet handled
    sendBuf,    \* answers in the send buffer of a task
    writing,    \* tasks whose epoll events include EPOLLOUT
    \* history
    handled,    \* how often the request of a call was handled
    faults

clientVars == <<call, mTask, mConnecting, open>>
kernelVars == <<state, inbox, outbox, reset>>
serverVars == <<server, capacity, events, sendBuf, writing>>
vars == <<clientVars, kernelVars, serverVars, handled, faults>>

Call == 1 .. MaxCalls
Conn == 1 .. MaxCalls   \* numbered as they were connected
NULL == 0
Listener == 0           \* the task of the listening socket

(* What a call returns: its answer, -1, -2 or -3.                          *)
Return == {"answered", "refused", "unsent", "lost"}

Init ==
    /\ call = << >>
    /\ mTask = [c \in Client |-> NULL] /\ mConnecting = [c \in Client |-> FALSE]
    /\ open = {}
    /\ state = [k \in Conn |-> "none"]
    /\ inbox = [k \in Conn |-> << >>] /\ outbox = [k \in Conn |-> << >>]
    /\ reset = {}
    /\ server = "up" /\ capacity = Backlog /\ events = [e \in {} |-> {}]
    /\ sendBuf = [k \in Conn |-> << >>] /\ writing = {}
    /\ handled = [n \in Call |-> 0] /\ faults = 0

mTaskPool == {k \in Conn : state[k] = "task"}
Queued == {k \in Conn : state[k] = "queued"}

(* The call that a client is in, or 0.                                     *)
Current(c) == Max({0} \cup {n \in DOMAIN call : call[n].client = c /\ call[n].ret \notin Return})
Ret(n, r) == call' = [call EXCEPT ![n].ret = r]

-----------------------------------------------------------------------------
(* The clients.                                                            *)

(* CloseAgent; task is what g_handle holds.                                *)
CloseAgent(c, task) ==
    /\ mConnecting' = [mConnecting EXCEPT ![c] = FALSE]
    /\ mTask' = [mTask EXCEPT ![c] = NULL]
    /\ open' = open \ {task}

(* ConnectAgent when AgentSvrd listens: the kernel completes the           *)
(* connection.  A kept connection would be used again.                     *)
ConnectAgent(c, kind) ==
    /\ Current(c) = 0 /\ Len(call) < MaxCalls
    /\ call' = Append(call, [client |-> c, kind |-> kind, ret |-> "connected", got |-> 0])
    /\ LET k    == Len(call')
           kept == mConnecting[c] /\ mTask[c] # NULL
       IN  /\ ~kept => server # "down"
           /\ mTask' = [mTask EXCEPT ![c] = IF kept THEN @ ELSE k]
           /\ open' = IF kept THEN open ELSE (open \ {mTask[c]}) \cup {k}
           /\ state' = [state EXCEPT ![k] = IF kept THEN @ ELSE "queued"]
    /\ UNCHANGED <<mConnecting, inbox, outbox, reset, serverVars, handled, faults>>

(* ConnectAgent when it does not: -1.                                      *)
ConnectRefused(c, kind) ==
    /\ Current(c) = 0 /\ Len(call) < MaxCalls
    /\ server = "down"
    /\ call' = Append(call, [client |-> c, kind |-> kind, ret |-> "refused", got |-> 0])
    /\ CloseAgent(c, mTask[c])
    /\ UNCHANGED <<kernelVars, serverVars, handled, faults>>

(* The PHP functions check their arguments first, and answer wrong ones    *)
(* with -1 as well.                                                        *)
WrongParam(c) ==
    /\ Current(c) = 0 /\ Len(call) < MaxCalls
    /\ call' = Append(call, [client |-> c, kind |-> "wrong", ret |-> "refused", got |-> 0])
    /\ UNCHANGED <<mTask, mConnecting, open, kernelVars, serverVars, handled, faults>>

HlbsQuerySvr(c)  == WrongParam(c) \/ ConnectAgent(c, "query") \/ ConnectRefused(c, "query")
HlbsNotifyRes(c) == WrongParam(c) \/ ConnectAgent(c, "report") \/ ConnectRefused(c, "report")

(* SyncSend of the request, whole or not at all.  It fails, or goes        *)
(* nowhere, when AgentSvrd has died since.                                 *)
SyncSend(c) ==
    LET n == Current(c)  k == mTask[c] IN
    /\ n # 0 /\ call[n].ret = "connected"
    /\ \/ /\ Ret(n, "sent")
          /\ inbox' = [inbox EXCEPT ![k] = IF state[k] = "gone" THEN @ ELSE Append(@, n)]
          /\ UNCHANGED <<mTask, mConnecting, open>>
       \/ /\ state[k] = "gone"
          /\ Ret(n, "unsent") /\ CloseAgent(c, k) /\ UNCHANGED inbox
    /\ UNCHANGED <<state, outbox, reset, serverVars, handled, faults>>

Waiting(c) == Current(c) # 0 /\ call[Current(c)].ret = "sent"

(* SyncRecv returns a message.  One of another length than that of the     *)
(* answer to this kind of request is an error.                             *)
SyncRecv(c) ==
    LET n == Current(c)  k == mTask[c] IN
    /\ Waiting(c) /\ outbox[k] # << >>
    /\ call' = [call EXCEPT ![n].got = Head(outbox[k]),
                            ![n].ret = IF call[Head(outbox[k])].kind = call[n].kind
                                       THEN "answered" ELSE "lost"]
    /\ outbox' = [outbox EXCEPT ![k] = Tail(@)]
    /\ CloseAgent(c, k)
    /\ UNCHANGED <<state, inbox, reset, serverVars, handled, faults>>

(* SyncRecv finds the connection closed, or gives up after iTimeout.  A    *)
(* timeout below a second is cut to 0, which is two tries.                 *)
SyncRecvFails(c) ==
    LET n == Current(c)  k == mTask[c] IN
    /\ Waiting(c) /\ outbox[k] = << >>
    /\ state[k] = "gone" \/ c \notin Patient
    /\ Ret(n, "lost") /\ CloseAgent(c, k)
    /\ UNCHANGED <<kernelVars, serverVars, handled, faults>>

-----------------------------------------------------------------------------
(* AgentSvrd.                                                              *)

(* epoll_wait: what is ready, level-triggered, and every task that is.     *)
In(k)  == (IF inbox[k] # << >> \/ k \notin open \/ k \in reset THEN {"in"} ELSE {})
Out(k) == (IF k \in writing THEN {"out"} ELSE {})
Err(k) == (IF k \in reset THEN {"err"} ELSE {})

Ready ==
    {k \in mTaskPool : In(k) \cup Out(k) # {}} \cup (IF Queued # {} THEN {Listener} ELSE {})

EpollWait ==
    /\ server = "up" /\ DOMAIN events = {} /\ Ready # {}
    /\ events' = [e \in Ready |-> IF e = Listener THEN {"in"} ELSE In(e) \cup Out(e) \cup Err(e)]
    /\ UNCHANGED <<clientVars, kernelVars, server, capacity, sendBuf, writing, handled, faults>>

Left(e) == [d \in DOMAIN events \ {e} |-> events[d]]

(* AddToTaskPool: with more tasks than mEpollEventPool has room for, the   *)
(* pool is made larger.  Its size() is 0, so the events that Recv is still *)
(* going through are not copied: what it reads next is undefined.          *)
Grows(count) == count > capacity

AcceptConn ==
    LET k == Min(Queued)  count == Cardinality(mTaskPool) + 2 IN
    /\ server = "up" /\ Listener \in DOMAIN events /\ Queued # {}
    /\ state' = [state EXCEPT ![k] = "task"]
    /\ capacity' = IF Grows(count) THEN 2 * count ELSE capacity
    /\ IF Grows(count) /\ DOMAIN Left(Listener) # {}
       THEN server' = "undefined" /\ events' = [e \in {} |-> {}]
       ELSE server' = "up" /\ events' = Left(Listener)
    /\ UNCHANGED <<clientVars, inbox, outbox, reset, sendBuf, writing, handled, faults>>

(* accept() fails, or epoll_ctl does and the connection is closed.         *)
AcceptFails ==
    /\ server = "up" /\ Listener \in DOMAIN events /\ faults < MaxFaults
    /\ \/ UNCHANGED state
       \/ Queued # {} /\ state' = [state EXCEPT ![Min(Queued)] = "gone"]
    /\ events' = Left(Listener)
    /\ faults' = faults + 1
    /\ UNCHANGED <<clientVars, inbox, outbox, reset, server, capacity, sendBuf, writing, handled>>

\* Mutant: the task is left in the pool.
RemovedLater(k) == {}

Removed(k) == {k}

(* RemoveEpoll and RemoveTaskPool, which deletes the task and its socket.  *)
Remove(k) ==
    /\ state' = [j \in Conn |-> IF j \in Removed(k) THEN "gone" ELSE state[j]]
    /\ sendBuf' = [sendBuf EXCEPT ![k] = << >>] /\ inbox' = [inbox EXCEPT ![k] = << >>]
    /\ writing' = writing \ {k} /\ reset' = reset \ {k}
    /\ UNCHANGED <<outbox, handled>>

RecvError(k) == "err" \in events[k] /\ Remove(k)

\* Mutant: what was read is left in the socket.
RestOfAll(k) == inbox[k]

Rest(k) == << >>
Writes(k) == writing \cup {k}

(* TaskRecv: every request that has come is handled by GetSvrByGXid or     *)
(* ReportSvr, which count it and put the answer into the send buffer.      *)
TaskRecv(k) ==
    /\ "err" \notin events[k] /\ "in" \in events[k] /\ inbox[k] # << >>
    /\ handled' = [n \in Call |-> handled[n] + Cardinality({i \in DOMAIN inbox[k] : inbox[k][i] = n})]
    /\ sendBuf' = [sendBuf EXCEPT ![k] = @ \o inbox[k]]
    /\ inbox' = [inbox EXCEPT ![k] = Rest(k)]
    /\ writing' = Writes(k)
    /\ UNCHANGED <<state, outbox, reset>>

TaskRecvEnds(k) ==
    /\ "err" \notin events[k] /\ "in" \in events[k]
    /\ inbox[k] = << >> /\ k \notin open /\ Remove(k)

(* EPOLLOUT without EPOLLIN: nothing to send, or TaskSend.  What is sent   *)
(* to a client that has gone comes back as an error.                       *)
TaskSend(k) ==
    /\ events[k] = {"out"}
    /\ \/ /\ sendBuf[k] = << >>
          /\ writing' = writing \ {k}
          /\ UNCHANGED <<state, inbox, outbox, reset, sendBuf, handled>>
       \/ /\ sendBuf[k] # << >>
          /\ outbox' = [outbox EXCEPT ![k] = IF k \in open THEN @ \o sendBuf[k] ELSE @]
          /\ reset' = IF k \in open THEN reset ELSE reset \cup {k}
          /\ sendBuf' = [sendBuf EXCEPT ![k] = << >>]
          /\ UNCHANGED <<state, inbox, writing, handled>>

HandleEvent(k) ==
    /\ server = "up" /\ k \in DOMAIN events
    /\ RecvError(k) \/ TaskRecv(k) \/ TaskRecvEnds(k) \/ TaskSend(k)
    /\ events' = Left(k)
    /\ UNCHANGED <<clientVars, server, capacity, faults>>

(* The process ends; the kernel closes its sockets.                        *)
End ==
    /\ server # "down"
    /\ server' = "down" /\ faults' = Min({faults + 1, MaxFaults})
    /\ state' = [k \in Conn |-> IF state[k] = "none" THEN "none" ELSE "gone"]
    /\ inbox' = [k \in Conn |-> << >>] /\ sendBuf' = [k \in Conn |-> << >>]
    /\ reset' = {} /\ writing' = {} /\ events' = [e \in {} |-> {}]
    /\ UNCHANGED <<clientVars, outbox, capacity, handled>>

Die == faults < MaxFaults /\ End

Restart ==
    /\ server = "down" /\ server' = "up" /\ capacity' = Backlog
    /\ UNCHANGED <<clientVars, kernelVars, events, sendBuf, writing, handled, faults>>

-----------------------------------------------------------------------------
Calls == \E c \in Client : HlbsQuerySvr(c) \/ HlbsNotifyRes(c)
InCall(c) == SyncSend(c) \/ SyncRecv(c) \/ SyncRecvFails(c)
Loop == EpollWait \/ AcceptConn \/ AcceptFails \/ \E k \in Conn : HandleEvent(k)

Next == Calls \/ (\E c \in Client : InCall(c)) \/ Loop \/ Die \/ Restart

Spec == Init /\ [][Next]_vars

(* AgentSvrd's loop goes on, and so does a client that is in a call.       *)
FairSpec == Spec /\ WF_vars(Loop) /\ \A c \in Client : WF_vars(InCall(c))

-----------------------------------------------------------------------------
TypeOK ==
    /\ call \in Seq([client : Client, kind : {"query", "report", "wrong"},
                     ret : Return \cup {"connected", "sent"}, got : 0 .. MaxCalls])
    /\ Len(call) <= MaxCalls
    /\ mTask \in [Client -> {NULL} \cup Conn] /\ mConnecting \in [Client -> BOOLEAN]
    /\ open \subseteq Conn
    /\ state \in [Conn -> {"none", "queued", "task", "gone"}]
    /\ inbox \in [Conn -> Seq(Call)] /\ outbox \in [Conn -> Seq(Call)]
    /\ reset \subseteq mTaskPool /\ writing \subseteq mTaskPool
    /\ server \in {"up", "down", "undefined"} /\ capacity \in Nat
    /\ DOMAIN events \subseteq mTaskPool \cup {Listener}
    /\ sendBuf \in [Conn -> Seq(Call)] /\ \A k \in Conn : sendBuf[k] # << >> => k \in mTaskPool
    /\ handled \in [Call -> Nat] /\ faults \in 0 .. MaxFaults

(* What a call returns tells what became of its request: answered, by the  *)
(* answer to this call and to no earlier one, it was counted once; refused *)
(* or not sent, it was not; and after -3 nobody knows, but once at most.   *)
(* Without a fault no call with right arguments is refused, and none goes  *)
(* unanswered but that of a client that ran out of patience.               *)
ReturnTells ==
    \A n \in DOMAIN call :
        /\ call[n].got \in {0, n}
        /\ call[n].ret = "answered" => handled[n] = 1
        /\ call[n].ret \in {"refused", "unsent"} => handled[n] = 0
        /\ call[n].ret \in {"refused", "unsent"} /\ call[n].kind # "wrong" => faults > 0
        /\ call[n].ret = "lost" => handled[n] <= 1
        /\ call[n].ret = "lost" /\ call[n].client \in Patient => faults > 0

(* The loop is undefined only with more tasks than LISTEN_BACKLOG at once. *)
UndefinedOnlyWhenMany == server = "undefined" => Cardinality(mTaskPool) + 1 > Backlog

(* A client that waits gets its answer, or an error if AgentSvrd dies.     *)
PatientReturns ==
    []<>(\/ server = "undefined"
         \/ \A n \in DOMAIN call : call[n].client \in Patient => call[n].ret \in Return)

(* The task of a client that has gone does not stay in the pool.           *)
GoneRemoved == []<>(server = "undefined" \/ mTaskPool \subseteq open)

=============================================================================
