------------------------------ MODULE MsgQueue ------------------------------
(***************************************************************************)
(* The message queue in shared memory (wMsgQueue.cpp): one process pushes, *)
(* one pops, with no lock between them.  Each reads both indexes at the    *)
(* start of its call and writes its own one at the end.  Either may be     *)
(* killed in the middle of a call; the queue outlives it.                  *)
(*                                                                         *)
(* The stores of a process reach the other in their order, as they do on   *)
(* x86.  Two processes that push at once are not modelled: nothing in the  *)
(* code would keep them apart.  A byte is <<k, j>>, the j-th of the k-th   *)
(* message, as in Task.                                                    *)
(***************************************************************************)
EXTENDS Integers, Sequences

CONSTANTS
    mQueueSize,     \* bytes of the buffer behind the two indexes
    HeadLen,        \* sizeof(int), the length in front of a message
    Reserve,        \* MSG_QUEUE_RESERVE_LEN
    PushLens,       \* the lengths of the messages pushed
    PopLen,         \* bytes that the caller of Pop has room for
    MaxPushes       \* bound: messages pushed

VARIABLES
    cells,          \* mBufferPtr
    mBeginIdx, mEndIdx,
    pushed,         \* the lengths of the messages that Push returned 0 for
    popped,         \* the messages that Pop returned; 0: not one that was pushed
    pusher, popper  \* where a call stands, and the indexes it has read

queueVars == <<cells, mBeginIdx, mEndIdx, pushed, popped, pusher, popper>>

Idle == [at |-> "idle", begin |-> 0, end |-> 0, len |-> 0]
QueueCell == 0 .. mQueueSize - 1

Init ==
    /\ cells = [i \in QueueCell |-> <<0, 0>>]
    /\ mBeginIdx = 0 /\ mEndIdx = 0        \* wShm::AllocShm clears the memory
    /\ pushed = << >> /\ popped = << >>
    /\ pusher = Idle /\ popper = Idle

(* The cell of the j-th byte after the index i, and the index behind a     *)
(* message of n bytes at i.  An index may stand behind the last cell.      *)
CellAt(i, j) == (i + j) % mQueueSize
After(i, n) ==
    LET e == i + HeadLen + n IN IF e <= mQueueSize THEN e ELSE e - mQueueSize

\* Mutant: no room is held back.
NoReserve(b, e) ==
    IF b = e THEN mQueueSize ELSE IF b > e THEN b - e ELSE mQueueSize - e + b

(* iLastLen of Push and iAllMsgLen of Pop.                                 *)
Room(b, e) ==
    (IF b = e THEN mQueueSize ELSE IF b > e THEN b - e ELSE mQueueSize - e + b) - Reserve
Used(b, e) == IF b > e THEN mQueueSize - b + e ELSE e - b

-----------------------------------------------------------------------------
(* Push.  Without room for it, it returns -2 and changes nothing.          *)
PushStart(n) ==
    /\ pusher.at = "idle" /\ Len(pushed) < MaxPushes
    /\ Room(mBeginIdx, mEndIdx) >= n + HeadLen
    /\ pusher' = [at |-> "read", begin |-> mBeginIdx, end |-> mEndIdx, len |-> n]
    /\ UNCHANGED <<cells, mBeginIdx, mEndIdx, pushed, popped, popper>>

(* The length, then the message, each in two pieces if it wraps.           *)
PushCopy ==
    /\ pusher.at = "read"
    /\ cells' = [i \in QueueCell |->
                    LET j == (i - pusher.end) % mQueueSize
                    IN  IF j < HeadLen + pusher.len THEN <<Len(pushed) + 1, j>> ELSE cells[i]]
    /\ pusher' = [pusher EXCEPT !.at = "copied"]
    /\ UNCHANGED <<mBeginIdx, mEndIdx, pushed, popped, popper>>

PushPublish ==
    /\ pusher.at = "copied"
    /\ mEndIdx' = After(pusher.end, pusher.len)
    /\ pushed' = Append(pushed, pusher.len)
    /\ pusher' = Idle
    /\ UNCHANGED <<cells, mBeginIdx, popped, popper>>

-----------------------------------------------------------------------------
(* Pop.  An empty queue returns 0.                                         *)
PopStart ==
    /\ popper.at = "idle" /\ mBeginIdx # mEndIdx
    /\ popper' = [at |-> "read", begin |-> mBeginIdx, end |-> mEndIdx, len |-> 0]
    /\ UNCHANGED <<cells, mBeginIdx, mEndIdx, pushed, popped, pusher>>

(* The value of the length at the index that was read: the one that Push   *)
(* put there; -1 stands for the bytes of no length.                        *)
HeadAt(b) ==
    LET k == cells[CellAt(b, 0)][1] IN
    IF k # 0 /\ \A j \in 0 .. HeadLen - 1 : cells[CellAt(b, j)] = <<k, j>>
    THEN IF k \in DOMAIN pushed THEN pushed[k] ELSE pusher.len
    ELSE -1

PopFits ==
    LET used == Used(popper.begin, popper.end)
    IN  used > HeadLen /\ HeadAt(popper.begin) \in 0 .. used - HeadLen

(* The results that take nothing: -2 drops everything, -3 is a length that *)
(* does not fit, -4 a message longer than the caller's room, which is      *)
(* still there at the next call and keeps all behind it from coming.       *)
PopError ==
    /\ popper.at = "read"
    /\ ~PopFits \/ HeadAt(popper.begin) > PopLen
    /\ mBeginIdx' = IF Used(popper.begin, popper.end) <= HeadLen THEN popper.end ELSE mBeginIdx
    /\ popper' = Idle
    /\ UNCHANGED <<cells, mEndIdx, pushed, popped, pusher>>

PopCopy ==
    LET n == HeadAt(popper.begin)
        k == cells[CellAt(popper.begin, 0)][1]
        whole == \A j \in 0 .. HeadLen + n - 1 : cells[CellAt(popper.begin, j)] = <<k, j>>
    IN  /\ popper.at = "read"
        /\ PopFits /\ n <= PopLen
        /\ popper' = [popper EXCEPT !.at = "copied", !.len = n, !.end = IF whole THEN k ELSE 0]
        /\ UNCHANGED <<cells, mBeginIdx, mEndIdx, pushed, popped, pusher>>

(* The message that was copied is in popper.end now.  It counts as popped   *)
(* from the store of the index on: who is killed after it had the message. *)
PopReturn ==
    /\ popper.at = "copied"
    /\ mBeginIdx' = After(popper.begin, popper.len)
    /\ popped' = Append(popped, popper.end)
    /\ popper' = Idle
    /\ UNCHANGED <<cells, mEndIdx, pushed, pusher>>

-----------------------------------------------------------------------------
(* A process is killed in its call and another takes its place.            *)
Killed ==
    /\ \/ pusher.at # "idle" /\ pusher' = Idle /\ UNCHANGED popper
       \/ popper.at # "idle" /\ popper' = Idle /\ UNCHANGED pusher
    /\ UNCHANGED <<cells, mBeginIdx, mEndIdx, pushed, popped>>

Push == (\E n \in PushLens : PushStart(n)) \/ PushCopy \/ PushPublish
Pop == PopStart \/ PopError \/ PopCopy \/ PopReturn

Next == Push \/ Pop \/ Killed

Spec == Init /\ [][Next]_queueVars

-----------------------------------------------------------------------------
TypeOK ==
    /\ cells \in [QueueCell -> (0 .. MaxPushes) \X (0 .. mQueueSize)]
    /\ mBeginIdx \in 0 .. mQueueSize /\ mEndIdx \in 0 .. mQueueSize
    /\ pushed \in Seq(PushLens) /\ Len(pushed) <= MaxPushes
    /\ popped \in Seq(0 .. MaxPushes)
    /\ {pusher.at, popper.at} \subseteq {"idle", "read", "copied"}

(* Every message that Push accepted is popped whole, once and in order,    *)
(* whoever is killed in the middle of a call.                              *)
Ordered == INSTANCE Stream WITH
    Message <- 1 .. MaxPushes,
    accepted <- [k \in 1 .. Len(pushed) |-> k],
    handled <- popped,
    broken <- FALSE
Streams == Ordered!Spec
=============================================================================
