------------------------------- MODULE MCBase -------------------------------
(***************************************************************************)
(* The parts of src/base that the other modules stand on, each by itself,  *)
(* with RouterTable: a behaviour chooses one of them and is a behaviour of *)
(* that part.  Task is extended; the others are instances.                 *)
(***************************************************************************)
EXTENDS Task

CONSTANTS
    mQueueSize, HeadLen, Reserve, PushLens, PopLen, MaxPushes,  \* MsgQueue
    Process, Sizes, HeadSize, MaxSegments,                       \* Shm
    Caller, MaxCalls,                                           \* Thread
    Start,                                                      \* Instances
    KEEPALIVE_TIME, KEEPALIVE_CNT,                              \* Heartbeat
    Sock, MaxFd,                                                \* Sockets
    Kinds, Hosts, Weights, MaxSaves,                            \* RouterTable
    mStart, mEnd, ALIGNMENT, Asked, MaxAllocs,                  \* MemPool
    MAX_SVR_HOST, MAX_SVR_NUM, PackageLen                       \* Commands

ASSUME MsgQueueAssumption ==
    /\ HeadLen \in Nat \ {0} /\ Reserve \in Nat \ {0}
    /\ mQueueSize \in Nat /\ mQueueSize > HeadLen + Reserve
    /\ PushLens \subseteq 1 .. mQueueSize - Reserve
    /\ PopLen \in Nat /\ MaxPushes \in Nat

ASSUME ShmAssumption ==
    /\ Sizes \subseteq Nat /\ HeadSize \in Nat \ {0} /\ MaxSegments \in Nat
    /\ \A n \in Sizes : n > HeadSize

ASSUME ThreadAssumption == MaxCalls \in Nat

ASSUME InstancesAssumption == IsFiniteSet(Start) /\ Start \cap {"none", "garbled"} = {}

ASSUME HeartbeatAssumption ==
    KEEPALIVE_TIME \in Nat \ {0} /\ KEEPALIVE_CNT \in Nat \ {0}

ASSUME SocketsAssumption == MaxFd \in Nat

ASSUME RouterTableAssumption == MaxSaves \in Nat

ASSUME MemPoolAssumption ==
    /\ mStart \in Nat \ {0} /\ mEnd \in Nat /\ mEnd >= mStart
    /\ ALIGNMENT \in Nat \ {0} /\ Asked \subseteq Nat

VARIABLES
    part,
    cells, mBeginIdx, mEndIdx, pushed, popped, pusher, popper,
    keyId, segments, view, given, holders, mishaps,
    mRunStatus, mMutex, thread, work, caller, calls,
    lockFile, pidFile, run, fd, port, lapses,
    mIsCheckTimer, mTimer, idle, mHeartbeatTimes, connected, coming, hung, spoke,
    sock, kernel, names, leaked, joined,
    mMapReqSvr, mRouteTable, limits, saves,
    mLast, mExtra, pieces, trouble

queueState == <<cells, mBeginIdx, mEndIdx, pushed, popped, pusher, popper>>
shmState == <<keyId, segments, view, given, holders, mishaps>>
threadState == <<mRunStatus, mMutex, thread, work, caller, calls>>
instState == <<lockFile, pidFile, run, fd, port, lapses>>
beatState == <<mIsCheckTimer, mTimer, idle, mHeartbeatTimes, connected, coming, hung, spoke>>
sockState == <<sock, kernel, names, leaked, joined>>
tableState == <<mMapReqSvr, mRouteTable, limits, saves>>
poolState == <<mLast, mExtra, pieces, trouble>>

Queue == INSTANCE MsgQueue
ShmPart == INSTANCE Shm
ThreadPart == INSTANCE Thread
InstPart == INSTANCE Instances WITH faults <- lapses
BeatPart == INSTANCE Heartbeat
SockPart == INSTANCE Sockets
TablePart == INSTANCE RouterTable
PoolPart == INSTANCE MemPool WITH given <- pieces
Messages == INSTANCE Commands

Parts == {"task", "queue", "shm", "thread", "instances", "heartbeat", "sockets", "table", "pool"}

BaseInit ==
    /\ part \in Parts
    /\ Init /\ Queue!Init /\ ShmPart!Init /\ ThreadPart!Init /\ InstPart!Init
    /\ BeatPart!Init
    /\ part # "heartbeat" => \A e \in BeatPart!End : ~mIsCheckTimer[e] /\ mTimer[e] = 1
    /\ SockPart!Init /\ TablePart!Init /\ PoolPart!Init

(* Only the part p takes a step.                                           *)
Only(p) ==
    /\ part = p /\ UNCHANGED part
    /\ p # "task" => UNCHANGED vars
    /\ p # "queue" => UNCHANGED queueState
    /\ p # "shm" => UNCHANGED shmState
    /\ p # "thread" => UNCHANGED threadState
    /\ p # "instances" => UNCHANGED instState
    /\ p # "heartbeat" => UNCHANGED beatState
    /\ p # "sockets" => UNCHANGED sockState
    /\ p # "table" => UNCHANGED tableState
    /\ p # "pool" => UNCHANGED poolState

BaseNext ==
    \/ part = "task" /\ Next /\ Only("task")
    \/ part = "queue" /\ Queue!Next /\ Only("queue")
    \/ part = "shm" /\ ShmPart!Next /\ Only("shm")
    \/ part = "thread" /\ ThreadPart!Next /\ Only("thread")
    \/ part = "instances" /\ InstPart!Next /\ Only("instances")
    \/ part = "heartbeat" /\ BeatPart!Next /\ Only("heartbeat")
    \/ part = "sockets" /\ SockPart!Next /\ Only("sockets")
    \/ part = "table" /\ TablePart!Next /\ Only("table")
    \/ part = "pool" /\ PoolPart!Next /\ Only("pool")

baseVars ==
    <<part, vars, queueState, shmState, threadState, instState, beatState, sockState,
      tableState, poolState>>

(* The fairness of each part, as FairSpec of its module has it.            *)
BaseSpec ==
    /\ BaseInit /\ [][BaseNext]_baseVars
    /\ WF_baseVars(part = "task" /\ StartTaskSend /\ Only("task"))
    /\ WF_baseVars(part = "task" /\ TaskSend /\ Only("task"))
    /\ WF_baseVars(part = "task" /\ TaskRecv /\ Only("task"))
    /\ WF_baseVars(part = "thread" /\ ThreadPart!Runs /\ Only("thread"))
    /\ \A c \in Caller : WF_baseVars(part = "thread" /\ ThreadPart!Returns(c) /\ Only("thread"))
    /\ WF_baseVars(part = "heartbeat" /\ BeatPart!Tick /\ Only("heartbeat"))
    /\ \A e \in BeatPart!End :
           WF_baseVars(part = "heartbeat" /\ BeatPart!Arrives(e) /\ Only("heartbeat"))

-----------------------------------------------------------------------------
(* wTask.cpp: in either ring the pointers and the length agree, whatever   *)
(* has been cut where; and the variables of every part have their types.   *)
WellFormed ==
    /\ RecvRing /\ SendRing
    /\ TypeOK /\ Queue!TypeOK /\ ShmPart!TypeOK /\ ThreadPart!TypeOK /\ InstPart!TypeOK
    /\ BeatPart!TypeOK /\ SockPart!TypeOK /\ TablePart!TypeOK /\ PoolPart!TypeOK

(* wTask.cpp, wTcpClient.inl: a connection is given up for a fault only,   *)
(* or by heartbeats for a peer that does not answer them; and a buffer's   *)
(* wrap is met only by a connection that has carried a buffer full.        *)
FaultsOnly ==
    /\ RefusedForFault /\ WrapsLate
    /\ \A e \in BeatPart!End : BeatPart!LeftForCause(e)

(* wTask.cpp, wMsgQueue.cpp: messages come whole, once and in order.       *)
WholeAndOnce == Streams /\ Queue!Streams

(* wTask.cpp, wThread.cpp: what was sent is handled, and a thread that was *)
(* woken or stopped does not miss it.                                      *)
WorkIsDone == Delivered /\ ThreadPart!NothingLost

(* wShm.cpp, wShmtx.cpp, wMemPool.cpp: no piece of memory is given out     *)
(* twice, and the lock put into one begins taken.                          *)
PiecesApart == ShmPart!Disjoint /\ ShmPart!BeginsTaken /\ PoolPart!Pieces

(* AgentMain.cpp, RouterMain.cpp: see Instances.                           *)
OneDaemon == InstPart!OneDaemon

(* wServer.inl, wTcpClient.inl: see Heartbeat.                             *)
HungIsFound == BeatPart!HungIsFound

(* wTcpSocket.cpp, wUnixSocket.cpp: see Sockets.                           *)
SocketsAgree == SockPart!SocketsAgree

(* routerserver/src/SvrQos.cpp: see RouterTable.                           *)
RoutedOnce == TablePart!RoutedOnce

-----------------------------------------------------------------------------
(* What needs no behaviour is evaluated here.                              *)
ASSUME MessagesChecked == Messages!Understood /\ Messages!LoginsFit
ASSUME TimeoutsChecked == \A f \in -3 .. 3 : SockPart!Timeval(f) > 0
=============================================================================
