-------------------------------- MODULE Task --------------------------------
(***************************************************************************)
(* One direction of a connection between two tasks (wTask.cpp): the send   *)
(* buffer of the writing task, the bytes in the kernel, and the receive    *)
(* buffer of the reading task.  Both buffers are rings of MSG_BUFF_LEN     *)
(* bytes with a read pointer, a write pointer and a length that the code   *)
(* keeps separately.  A message is IntLen bytes of length, then the body.  *)
(*                                                                         *)
(* The byte at offset j of the k-th message is the pair <<k, j>>, so that  *)
(* a reader that loses its place is seen to have lost it.                  *)
(***************************************************************************)
EXTENDS Integers, Sequences, FiniteSetsExt

CONSTANTS
    MSG_BUFF_LEN,   \* bytes of a ring (524288 in wCore.h)
    IntLen,         \* sizeof(int), the length in front of a message
    Lens,           \* the lengths of the messages the writer sends
    SndBuf,         \* bytes the kernel takes before send() says EAGAIN
    MaxMsgs         \* bound: messages sent over the connection

MIN_PACKAGE_LEN == 1
MAX_PACKAGE_LEN == MSG_BUFF_LEN - IntLen

ASSUME TaskAssumption ==
    /\ IntLen \in Nat \ {0, 1}
    /\ MSG_BUFF_LEN \in Nat /\ MSG_BUFF_LEN > IntLen
    /\ Lens \subseteq MIN_PACKAGE_LEN .. MAX_PACKAGE_LEN
    /\ SndBuf \in Nat \ {0} /\ MaxMsgs \in Nat

VARIABLES
    sent,           \* the lengths of the messages sent so far
    sendBuf,        \* mSendBuff
    mSendRead,      \* the pointers are offsets into their buffer,
    mSendWrite,     \*   MSG_BUFF_LEN is pBuffEnd
    mSendLen,
    sender,         \* "idle", "sending" (in TaskSend's loop), "closed", "undefined"
    wire,           \* bytes in the kernel, in order
    recvBuf,        \* mRecvBuff
    mRecvRead,
    mRecvWrite,
    mRecvLen,
    reader,         \* "idle", "parsing" (in TaskRecv's loop), "closed"
    handled,        \* messages given to HandleRecvMessage; 0: not a message sent
    faults          \* history: which of the faults below have happened

sendVars == <<sent, sendBuf, mSendRead, mSendWrite, mSendLen, sender>>
recvVars == <<recvBuf, mRecvRead, mRecvWrite, mRecvLen, reader, handled>>
vars == <<sendVars, wire, recvVars, faults>>

(***************************************************************************)
(* The faults: the points where the code leaves the stream to chance.      *)
(*   partial    SendBytes was cut short and returned 0                     *)
(*   wrapped    TaskSend sent from a buffer whose data wraps               *)
(*   split      the length was read before all its bytes had come          *)
(*   straddled  the length was read across the end of the buffer           *)
(***************************************************************************)
Fault == {"partial", "wrapped", "split", "straddled"}

Stale == <<0, 0>>   \* a byte that no message put there
Cell == {Stale} \cup ((1 .. MaxMsgs) \X (0 .. MSG_BUFF_LEN - 1))
Slot == 0 .. MSG_BUFF_LEN - 1

Init ==
    /\ sent = << >> /\ sendBuf = [i \in Slot |-> Stale]
    /\ mSendRead = 0 /\ mSendWrite = 0 /\ mSendLen = 0 /\ sender = "idle"
    /\ wire = << >>
    /\ recvBuf = [i \in Slot |-> Stale]
    /\ mRecvRead = 0 /\ mRecvWrite = 0 /\ mRecvLen = 0 /\ reader = "idle"
    /\ handled = << >> /\ faults = {}

Bytes(k, n) == [j \in 1 .. IntLen + n |-> <<k, j - 1>>]

(* n bytes of a buffer from the pointer r on, in a straight line or round  *)
(* the ring; what lies outside the buffer is somebody else's memory.       *)
Straight(buf, r, n) ==
    [j \in 1 .. n |-> IF r + j - 1 \in Slot THEN buf[r + j - 1] ELSE Stale]
Around(buf, r, n) == [j \in 1 .. n |-> buf[(r + j - 1) % MSG_BUFF_LEN]]

(* A buffer after the bytes bs are copied into it at w, round the ring.    *)
Written(buf, w, bs) ==
    [i \in Slot |-> LET j == ((i - w) % MSG_BUFF_LEN) + 1
                    IN  IF j \in 1 .. Len(bs) THEN bs[j] ELSE buf[i]]

-----------------------------------------------------------------------------
(* The writing task.                                                       *)

\* Mutant: a message that fills the rest exactly is taken not to fit.
FitsWithin(need) ==
    IF mSendWrite >= mSendRead THEN MSG_BUFF_LEN - mSendWrite > need ELSE mSendRead - mSendWrite > need

(* Where a message of need bytes goes: at the write pointer if it fits     *)
(* there in a straight line, else wrapped round the end of the buffer.     *)
SendAt == IF mSendRead # 0 /\ mSendWrite = MSG_BUFF_LEN THEN 0 ELSE mSendWrite
Fits(need) ==
    IF SendAt >= mSendRead THEN MSG_BUFF_LEN - SendAt >= need ELSE mSendRead - SendAt >= need
Wraps(need) == SendAt >= mSendRead /\ ~Fits(need)

(* A message that neither fits nor wraps is counted and not written; one   *)
(* that fits before a read pointer past the end is written past the end.   *)
Send2Buf(n) ==
    LET need == n + IntLen IN
    /\ sender = "idle" /\ Len(sent) < MaxMsgs
    /\ need <= MSG_BUFF_LEN - mSendLen      \* else ERR_NOBUFF
    /\ sent' = Append(sent, n)
    /\ \/ /\ (Fits(need) /\ SendAt + need <= MSG_BUFF_LEN) \/ Wraps(need)
          /\ sendBuf' = Written(sendBuf, SendAt, Bytes(Len(sent'), n))
          /\ mSendWrite' = SendAt + need - IF Fits(need) THEN 0 ELSE MSG_BUFF_LEN
          /\ UNCHANGED sender
       \/ /\ ~Fits(need) /\ ~Wraps(need)
          /\ mSendWrite' = SendAt /\ UNCHANGED <<sendBuf, sender>>
       \/ /\ Fits(need) /\ SendAt + need > MSG_BUFF_LEN
          /\ sender' = "undefined" /\ UNCHANGED <<sendBuf, mSendWrite>>
    /\ mSendLen' = mSendLen + need
    /\ UNCHANGED <<mSendRead, wire, recvVars, faults>>

(* SendBytes: the kernel takes what it has room for.  If that is not all,  *)
(* the next send() says EAGAIN and SendBytes returns 0, whatever it sent.  *)
Taken(bs) == Min({Len(bs), SndBuf - Len(wire)})
SendBytes(bs) == IF Taken(bs) = Len(bs) THEN Len(bs) ELSE 0
Cut(bs) == Taken(bs) > 0 /\ Taken(bs) < Len(bs)
PutOnWire(bs) == wire' = wire \o SubSeq(bs, 1, Taken(bs))

(* EPOLLOUT: the loop of TaskSend begins.                                  *)
StartTaskSend ==
    /\ sender = "idle" /\ mSendLen > 0
    /\ sender' = "sending"
    /\ UNCHANGED <<sent, sendBuf, mSendRead, mSendWrite, mSendLen, wire, recvVars, faults>>

(* One round of the loop when the data does not wrap.                      *)
SendForward ==
    LET bs == Straight(sendBuf, mSendRead, mSendLen) IN
    /\ sender = "sending" /\ reader # "closed"
    /\ mSendLen > 0 /\ mSendWrite > mSendRead
    /\ PutOnWire(bs)
    /\ mSendLen' = mSendLen - SendBytes(bs)
    /\ mSendRead' = mSendRead + SendBytes(bs)
    /\ faults' = IF Cut(bs) THEN faults \cup {"partial"} ELSE faults
    /\ UNCHANGED <<sent, sendBuf, mSendWrite, sender, recvVars>>

(* One round when it does.  The read pointer is set from the length after  *)
(* the length has been reduced.                                            *)
WrappedRead(len, left) == len - left

SendWrapped ==
    LET left == MSG_BUFF_LEN - mSendRead
        bs   == Straight(sendBuf, mSendRead, left) \o Straight(sendBuf, 0, mSendLen - left)
    IN  /\ sender = "sending" /\ reader # "closed"
        /\ mSendLen > 0 /\ mSendWrite <= mSendRead
        /\ left \in 0 .. mSendLen
        /\ PutOnWire(bs)
        /\ mSendLen' = mSendLen - SendBytes(bs)
        /\ mSendRead' = WrappedRead(mSendLen', left)
        /\ faults' = faults \cup {"wrapped"} \cup (IF Cut(bs) THEN {"partial"} ELSE {})
        /\ UNCHANGED <<sent, sendBuf, mSendWrite, sender, recvVars>>

(* memcpy is given a negative length.                                      *)
SendUndefined ==
    /\ sender = "sending" /\ mSendLen > 0 /\ mSendWrite <= mSendRead
    /\ MSG_BUFF_LEN - mSendRead \notin 0 .. mSendLen
    /\ sender' = "undefined"
    /\ UNCHANGED <<sent, sendBuf, mSendRead, mSendWrite, mSendLen, wire, recvVars, faults>>

(* TaskSend returns when everything is sent, or when send() fails because  *)
(* the reader has closed the connection.                                   *)
EndTaskSend ==
    /\ sender = "sending"
    /\ \/ mSendLen = 0 /\ sender' = "idle"
       \/ mSendLen > 0 /\ reader = "closed" /\ sender' = "closed"
    /\ UNCHANGED <<sent, sendBuf, mSendRead, mSendWrite, mSendLen, wire, recvVars, faults>>

(* SyncSend goes past the buffer.  The programs use it only on connections *)
(* whose send buffer they leave empty.  What the kernel does not take is   *)
(* never sent.                                                             *)
SyncSend(n) ==
    LET bs == Bytes(Len(sent) + 1, n) IN
    /\ sender = "idle" /\ mSendWrite = 0 /\ Len(sent) < MaxMsgs /\ reader # "closed"
    /\ sent' = Append(sent, n)
    /\ PutOnWire(bs)
    /\ faults' = IF SendBytes(bs) = 0 THEN faults \cup {"partial"} ELSE faults
    /\ UNCHANGED <<sendBuf, mSendRead, mSendWrite, mSendLen, sender, recvVars>>

-----------------------------------------------------------------------------
(* The reading task.                                                       *)

\* Mutant: the room before the read pointer is forgotten.
RoomToEnd(w) == MSG_BUFF_LEN - w

Refill == IF mRecvRead # 0 /\ mRecvWrite = MSG_BUFF_LEN THEN 0 ELSE mRecvWrite
Room(w) == IF w >= mRecvRead THEN MSG_BUFF_LEN - w ELSE mRecvRead - w

(* wTask.h:43: a whole message is received before HandleRecvMessage is     *)
(* called on it.                                                           *)
HandlesWhole == \A i \in DOMAIN handled : handled[i] # 0

(* TaskRecv up to its loop: recv() returns any number of the bytes on the  *)
(* way, at most what fits before the end or before the read pointer.       *)
StartTaskRecv ==
    LET w == Refill IN
    /\ reader = "idle" /\ mRecvLen < MSG_BUFF_LEN /\ wire # << >>
    /\ Len(handled) <= MaxMsgs /\ HandlesWhole     \* bounds
    /\ \E k \in 1 .. Min({Room(w), Len(wire)}) :
          /\ recvBuf' = Written(recvBuf, w, SubSeq(wire, 1, k))
          /\ mRecvLen' = mRecvLen + k
          /\ mRecvWrite' = w + k
          /\ wire' = SubSeq(wire, k + 1, Len(wire))
    /\ reader' = "parsing"
    /\ UNCHANGED <<sendVars, mRecvRead, handled, faults>>

ParseRead == IF mRecvRead = MSG_BUFF_LEN /\ mRecvWrite # 0 THEN 0 ELSE mRecvRead
Forward(r) == mRecvWrite > r

(* bytes the loop believes it has from r on                                *)
Avail(r) == IF Forward(r) THEN mRecvWrite - r ELSE MSG_BUFF_LEN + mRecvWrite - r

(* In the forward case the length is read where the pointer stands, come   *)
(* or not.  In the other, a length that does not end before the end of the *)
(* buffer is put together from the wrong bytes.                            *)
Misread(r) ==
    IF Forward(r) THEN (IF Avail(r) < IntLen THEN {"split"} ELSE {})
    ELSE (IF MSG_BUFF_LEN - r < IntLen THEN {"straddled"} ELSE {})

(* The values the length may have: the one the writer put there, or, when  *)
(* the bytes are not a length, any: 0 stands for those that are refused.   *)
RealLen(r) ==
    LET k == recvBuf[r][1] IN
    IF Misread(r) = {} /\ k # 0 /\ Straight(recvBuf, r, IntLen) = SubSeq(Bytes(k, 0), 1, IntLen)
    THEN {sent[k]}
    ELSE 0 .. MAX_PACKAGE_LEN

(* The message that HandleRecvMessage is given n bytes of.                 *)
Given(r, n) ==
    LET k == recvBuf[r][1] IN
    IF k # 0 /\ n = sent[k] /\ Around(recvBuf, r, IntLen + n) = Bytes(k, n) THEN k ELSE 0

(* One round of TaskRecv's loop.  The bytes of a message that was handled  *)
(* stay in the buffer, where only a misread length may meet them: Stale.   *)
ParseMessage ==
    LET r == ParseRead IN
    /\ reader = "parsing" /\ mRecvLen > 0
    /\ faults' = faults \cup Misread(r)
    /\ \E n \in RealLen(r) :
         \/ /\ n < MIN_PACKAGE_LEN                      \* ERR_MSGLEN
            /\ reader' = "closed" /\ mRecvRead' = r
            /\ UNCHANGED <<recvBuf, mRecvLen, handled>>
         \/ /\ n >= MIN_PACKAGE_LEN /\ n > Avail(r) - IntLen    \* wait for the rest
            /\ reader' = "idle" /\ mRecvRead' = r
            /\ UNCHANGED <<recvBuf, mRecvLen, handled>>
         \/ /\ n >= MIN_PACKAGE_LEN /\ n <= Avail(r) - IntLen
            /\ handled' = Append(handled, Given(r, n))
            /\ recvBuf' = Written(recvBuf, r, [j \in 1 .. n + IntLen |-> Stale])
            /\ mRecvLen' = mRecvLen - (n + IntLen)
            /\ mRecvRead' = IF Forward(r) \/ n <= MSG_BUFF_LEN - r - IntLen
                            THEN r + n + IntLen ELSE r + n + IntLen - MSG_BUFF_LEN
            /\ UNCHANGED reader
    /\ UNCHANGED <<sendVars, wire, mRecvWrite>>

EndTaskRecv ==
    /\ reader = "parsing" /\ mRecvLen <= 0
    /\ reader' = "idle"
    /\ UNCHANGED <<sendVars, wire, recvBuf, mRecvRead, mRecvWrite, mRecvLen, handled, faults>>

-----------------------------------------------------------------------------
TaskSend == SendForward \/ SendWrapped \/ SendUndefined \/ EndTaskSend
TaskRecv == StartTaskRecv \/ ParseMessage \/ EndTaskRecv

Next ==
    \/ \E n \in Lens : Send2Buf(n) \/ SyncSend(n)
    \/ StartTaskSend \/ TaskSend \/ TaskRecv

Spec == Init /\ [][Next]_vars

(* Both tasks are driven by the loop of their process: a task whose socket *)
(* is ready is served, and a handler that has begun goes on to its end.    *)
FairSpec == Spec /\ WF_vars(StartTaskSend) /\ WF_vars(TaskSend) /\ WF_vars(TaskRecv)

-----------------------------------------------------------------------------
TypeOK ==
    /\ sent \in Seq(Lens) /\ Len(sent) <= MaxMsgs
    /\ sendBuf \in [Slot -> Cell] /\ recvBuf \in [Slot -> Cell]
    /\ mSendRead \in -MSG_BUFF_LEN .. 2 * MSG_BUFF_LEN
    /\ mSendWrite \in 0 .. MSG_BUFF_LEN /\ mSendLen \in 0 .. MSG_BUFF_LEN
    /\ sender \in {"idle", "sending", "closed", "undefined"}
    /\ wire \in Seq(Cell) /\ Len(wire) <= SndBuf
    /\ mRecvRead \in 0 .. MSG_BUFF_LEN /\ mRecvWrite \in 0 .. MSG_BUFF_LEN
    /\ mRecvLen \in 0 .. MSG_BUFF_LEN
    /\ reader \in {"idle", "parsing", "closed"}
    /\ handled \in Seq(0 .. MaxMsgs)
    /\ faults \subseteq Fault

(* Whatever comes over the wire, a torn stream too, the three counters of  *)
(* the receive ring agree: TaskRecv never parses bytes it has not received *)
(* never overwrites bytes it has not parsed, and never calls recv() with   *)
(* no room, whose 0 it would take for the end of the connection.           *)
RecvRing ==
    /\ (mRecvWrite - mRecvRead - mRecvLen) % MSG_BUFF_LEN = 0
    /\ mRecvLen < MSG_BUFF_LEN => Room(Refill) \in 1 .. MSG_BUFF_LEN - mRecvLen

(* Until TaskSend has sent from a wrapped buffer, the three counters of    *)
(* the send ring agree too, and Send2Buf writes every byte it counts.      *)
SendRing ==
    "wrapped" \notin faults =>
        /\ (mSendWrite - mSendRead - mSendLen) % MSG_BUFF_LEN = 0
        /\ \A n \in Lens : n + IntLen <= MSG_BUFF_LEN - mSendLen =>
                Fits(n + IntLen) \/ Wraps(n + IntLen)

(* The connection carries the messages whole, each once and in order,      *)
(* until one of the faults has happened.                                   *)
Ordered == INSTANCE Stream WITH
    Message <- 1 .. MaxMsgs,
    accepted <- [k \in 1 .. Len(sent) |-> k],
    broken <- faults # {}
Streams == Ordered!Spec

(* Only a fault makes the reader give up a connection: no stream of whole  *)
(* messages is refused as too long, too short or ended.                    *)
RefusedForFault == reader = "closed" => faults # {}

(* A buffer's wrap is reached only by a connection that carried more than  *)
(* a buffer full of bytes: one request and one answer per connection, as   *)
(* the client API uses it, is safe from it.                                *)
Carried ==
    LET sum[k \in 0 .. Len(sent)] == IF k = 0 THEN 0 ELSE sum[k - 1] + IntLen + sent[k]
    IN  sum[Len(sent)]
WrapsLate ==
    faults \cap {"wrapped", "straddled"} # {} /\ "partial" \notin faults
        => Carried > MSG_BUFF_LEN

(* Every message sent is handled, or a fault has happened: the writer does *)
(* not stay ahead of the reader for ever.                                  *)
Delivered == []<>(Len(handled) = Len(sent) \/ faults # {})

=============================================================================
