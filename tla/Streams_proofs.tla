--------------------------- MODULE Streams_proofs ---------------------------
(***************************************************************************)
(* Proofs about the two streams of src/base: the buffers of a connection   *)
(* (Task) and the queue in shared memory (MsgQueue), as parts of BaseSpec, *)
(* for any sizes of the buffers, any lengths of the messages and any       *)
(* number of them.                                                         *)
(***************************************************************************)
EXTENDS MCBase, TLAPS, FiniteSetTheorems, NaturalsInduction, WellFoundedInduction

-----------------------------------------------------------------------------
(* The parts do not disturb each other: a step of a behaviour of BaseSpec  *)
(* is, for every part, a step of it or leaves its variables alone.         *)
LEMMA BaseStep ==
    ASSUME [BaseNext]_baseVars
    PROVE  /\ [Next]_vars /\ [Queue!Next]_queueState
           /\ [ShmPart!Next]_shmState /\ [ThreadPart!Next]_threadState
           /\ [InstPart!Next]_instState /\ [BeatPart!Next]_beatState
           /\ [SockPart!Next]_sockState /\ [TablePart!Next]_tableState
           /\ [PoolPart!Next]_poolState
  <1>1. CASE UNCHANGED baseVars
    BY <1>1 DEF baseVars
  <1>2. CASE BaseNext
    BY <1>2 DEF BaseNext, Only
  <1> QED BY <1>1, <1>2

(* A set of natural numbers has a least element.                           *)
LEMMA LeastOfNat ==
    ASSUME NEW S, S \subseteq Nat, S # {}
    PROVE  \E x \in S : \A y \in S : x <= y
  <1>1. PICK x \in S : \A y \in S : ~(<<y, x>> \in OpToRel(<, Nat))
    BY NatLessThanWellFounded, WFMin
  <1>2. \A y \in S : ~(y < x)
    <2>1. \A y \in S : y < x => <<y, x>> \in OpToRel(<, Nat)
      BY DEF OpToRel
    <2> QED BY <1>1, <2>1
  <1> QED BY <1>2

(* Division by a positive number.                                          *)
LEMMA DivMod ==
    ASSUME NEW x \in Int, NEW d \in Nat, d > 0
    PROVE  x = d * (x \div d) + (x % d) /\ x % d \in 0 .. d - 1 /\ x \div d \in Int
  <1>1. x = d * (x \div d) + (x % d)
    OBVIOUS
  <1>2. x % d \in 0 .. d - 1
    OBVIOUS
  <1>3. x \div d \in Int
    OBVIOUS
  <1> QED BY <1>1, <1>2, <1>3

LEMMA ModIs ==
    ASSUME NEW x \in Int, NEW d \in Nat, d > 0, NEW q \in Int, NEW r \in 0 .. d - 1, x = d * q + r
    PROVE  x % d = r
  OBVIOUS

(* What a ring of d bytes makes of an index that is at most one round off. *)
LEMMA RingMod ==
    ASSUME NEW x \in Int, NEW d \in Nat, d > 0
    PROVE  /\ x % d \in 0 .. d - 1
           /\ x \in 0 .. d - 1 => x % d = x
           /\ x \in d .. d + d - 1 => x % d = x - d
           /\ x \in -d .. -1 => x % d = x + d
  <1>1. x % d \in 0 .. d - 1
    OBVIOUS
  <1>2. x \in 0 .. d - 1 => x % d = x
    <2>1. x = d * 0 + x BY Z3
    <2> QED BY <2>1, ModIs
  <1>3. x \in d .. d + d - 1 => x % d = x - d
    <2>1. x = d * 1 + (x - d) BY Z3
    <2> QED BY <2>1, ModIs
  <1>4. x \in -d .. -1 => x % d = x + d
    <2>1. x = d * (-1) + (x + d) BY Z3
    <2> QED BY <2>1, ModIs
  <1> QED BY <1>1, <1>2, <1>3, <1>4

-----------------------------------------------------------------------------
(* The buffers of a connection (Task): what the variables hold.            *)
Here == {Stale} \cup ((1 .. Len(sent)) \X Slot)

SendTypes ==
    /\ sent \in Seq(Lens) /\ Len(sent) <= MaxMsgs
    /\ sendBuf \in [Slot -> Here]
    /\ mSendRead \in -MSG_BUFF_LEN .. 2 * MSG_BUFF_LEN
    /\ mSendWrite \in 0 .. MSG_BUFF_LEN /\ mSendLen \in 0 .. MSG_BUFF_LEN
    /\ sender \in {"idle", "sending", "closed", "undefined"}
RecvTypes ==
    /\ wire \in Seq(Here) /\ Len(wire) <= SndBuf
    /\ recvBuf \in [Slot -> Here]
    /\ mRecvRead \in 0 .. MSG_BUFF_LEN /\ mRecvWrite \in 0 .. MSG_BUFF_LEN
    /\ mRecvLen \in 0 .. MSG_BUFF_LEN
    /\ reader \in {"idle", "parsing", "closed"}
    /\ handled \in Seq(0 .. MaxMsgs)
    /\ faults \subseteq Fault

(* A ring from r to w with l bytes in it: without a wrap, or with one.  It *)
(* has a write pointer of 0 only until the first byte comes.               *)
Ring(w, r, l) ==
    /\ w - r = l \/ w - r = l - MSG_BUFF_LEN
    /\ w = 0 => r = 0 /\ l = 0
RecvPointers == Ring(mRecvWrite, mRecvRead, mRecvLen)
SendPointers ==
    "wrapped" \notin faults => mSendRead \in 0 .. MSG_BUFF_LEN /\ Ring(mSendWrite, mSendRead, mSendLen)
TaskInv == SendTypes /\ RecvTypes /\ RecvPointers /\ SendPointers

LEMMA Lengths ==
    /\ MSG_BUFF_LEN \in Nat /\ IntLen \in Nat /\ IntLen > 1 /\ MSG_BUFF_LEN > IntLen
    /\ \A n \in Lens : n \in Nat /\ n >= 1 /\ n + IntLen <= MSG_BUFF_LEN
    /\ SndBuf \in Nat /\ SndBuf > 0 /\ MaxMsgs \in Nat
  BY TaskAssumption DEF MIN_PACKAGE_LEN, MAX_PACKAGE_LEN

LEMMA StraightType ==
    ASSUME NEW S, Stale \in S, NEW buf \in [Slot -> S], NEW r \in Int, NEW n \in Nat
    PROVE  Straight(buf, r, n) \in Seq(S) /\ Len(Straight(buf, r, n)) = n
  BY DEF Straight

LEMMA WrittenType ==
    ASSUME NEW S, NEW buf \in [Slot -> S], NEW w \in Int, NEW bs \in Seq(S)
    PROVE  Written(buf, w, bs) \in [Slot -> S]
  <1>1. \A j \in 1 .. Len(bs) : bs[j] \in S
    OBVIOUS
  <1> QED BY <1>1 DEF Written

LEMMA BytesType ==
    ASSUME NEW k \in Nat, NEW n \in Nat, n + IntLen <= MSG_BUFF_LEN
    PROVE  Bytes(k, n) \in Seq({k} \X Slot) /\ Len(Bytes(k, n)) = IntLen + n
  BY Lengths DEF Bytes, Slot

(* The bytes that are here stay so when another message is sent.           *)
LEMMA HereGrows ==
    ASSUME sent \in Seq(Lens), NEW n \in Lens, sent' = Append(sent, n)
    PROVE  Len(sent') = Len(sent) + 1 /\ sent' \in Seq(Lens) /\ Here \subseteq Here'
           /\ ({Len(sent) + 1} \X Slot) \subseteq Here'
  BY DEF Here, Slot

LEMMA TaskInitInv == ASSUME Init PROVE TaskInv
  BY Lengths DEF Init, TaskInv, SendTypes, RecvTypes, RecvPointers, SendPointers, Ring, Here

LEMMA LeastOf2 == ASSUME NEW a \in Int, NEW b \in Int PROVE Min({a, b}) = IF a <= b THEN a ELSE b
  <1>1. \E x \in {a, b} : \A y \in {a, b} : x <= y
    OBVIOUS
  <1>2. Min({a, b}) \in {a, b} /\ \A y \in {a, b} : Min({a, b}) <= y
    BY <1>1 DEF Min
  <1> QED BY <1>2

(* SendBytes takes a first part of what it is given, or all of it.         *)
LEMMA PutType ==
    ASSUME NEW S, wire \in Seq(S), Len(wire) <= SndBuf, NEW bs \in Seq(S), PutOnWire(bs)
    PROVE  /\ Taken(bs) \in 0 .. Len(bs) /\ SendBytes(bs) \in {0, Len(bs)}
           /\ wire' \in Seq(S) /\ Len(wire') = Len(wire) + Taken(bs) /\ Len(wire') <= SndBuf
           /\ wire' = wire \o SubSeq(bs, 1, Taken(bs))
           /\ Len(bs) > 0 /\ ~Cut(bs) /\ SendBytes(bs) # Len(bs) => Taken(bs) = 0
  <1>1. Taken(bs) = IF Len(bs) <= SndBuf - Len(wire) THEN Len(bs) ELSE SndBuf - Len(wire)
    BY Lengths, LeastOf2 DEF Taken
  <1>2. Taken(bs) \in 0 .. Len(bs) /\ Taken(bs) <= SndBuf - Len(wire)
    BY <1>1, Lengths
  <1>3. SubSeq(bs, 1, Taken(bs)) \in Seq(S) /\ Len(SubSeq(bs, 1, Taken(bs))) = Taken(bs)
    BY <1>2
  <1> QED BY <1>2, <1>3, Lengths DEF PutOnWire, SendBytes, Cut

(* The first bytes of the wire, and the rest.                              *)
LEMMA SplitType ==
    ASSUME NEW S, wire \in Seq(S), NEW k \in 1 .. Len(wire)
    PROVE  /\ SubSeq(wire, 1, k) \in Seq(S) /\ Len(SubSeq(wire, 1, k)) = k
           /\ SubSeq(wire, k + 1, Len(wire)) \in Seq(S)
           /\ Len(SubSeq(wire, k + 1, Len(wire))) = Len(wire) - k
  OBVIOUS

(* Send2Buf: with the pointers in agreement a message that is let in fits  *)
(* before the end or before the read pointer, or wraps.                    *)
LEMMA SendRoom ==
    ASSUME SendTypes, SendPointers, "wrapped" \notin faults, NEW need \in Nat, need > 0,
           need <= MSG_BUFF_LEN - mSendLen
    PROVE  /\ SendAt \in 0 .. MSG_BUFF_LEN
           /\ Fits(need) => SendAt + need <= MSG_BUFF_LEN /\ Ring(SendAt + need, mSendRead, mSendLen + need)
           /\ ~Fits(need) => Wraps(need) /\ SendAt + need - MSG_BUFF_LEN \in 1 .. mSendRead
                             /\ Ring(SendAt + need - MSG_BUFF_LEN, mSendRead, mSendLen + need)
  BY Lengths DEF SendTypes, SendPointers, Ring, SendAt, Fits, Wraps

LEMMA Send2BufInv ==
    ASSUME TaskInv, NEW n \in Lens, Send2Buf(n)
    PROVE  TaskInv'
  <1> DEFINE need == n + IntLen
             bs == Bytes(Len(sent) + 1, n)
  <1>1. /\ sender = "idle" /\ Len(sent) < MaxMsgs /\ need <= MSG_BUFF_LEN - mSendLen
        /\ sent' = Append(sent, n) /\ mSendLen' = mSendLen + need
        /\ UNCHANGED <<mSendRead, wire, recvVars, faults>>
    BY DEF Send2Buf
  <1>2. need \in Nat /\ need > 0 /\ Len(sent) \in Nat
    BY Lengths DEF TaskInv, SendTypes
  <1>3. Len(sent') = Len(sent) + 1 /\ sent' \in Seq(Lens) /\ Here \subseteq Here'
        /\ ({Len(sent) + 1} \X Slot) \subseteq Here'
    BY <1>1, HereGrows DEF TaskInv, SendTypes
  <1>4. /\ \/ /\ (Fits(need) /\ SendAt + need <= MSG_BUFF_LEN) \/ Wraps(need)
              /\ sendBuf' = Written(sendBuf, SendAt, bs)
              /\ mSendWrite' = SendAt + need - IF Fits(need) THEN 0 ELSE MSG_BUFF_LEN
              /\ UNCHANGED sender
           \/ ~Fits(need) /\ ~Wraps(need) /\ mSendWrite' = SendAt /\ UNCHANGED <<sendBuf, sender>>
           \/ /\ Fits(need) /\ SendAt + need > MSG_BUFF_LEN
              /\ sender' = "undefined" /\ UNCHANGED <<sendBuf, mSendWrite>>
    BY <1>3 DEF Send2Buf
  <1>5. bs \in Seq(Here') /\ SendAt \in 0 .. MSG_BUFF_LEN /\ sendBuf \in [Slot -> Here']
    <2>1. bs \in Seq({Len(sent) + 1} \X Slot)
      BY <1>2, BytesType, Lengths
    <2>2. bs \in Seq(Here')
      BY <1>3, <2>1
    <2>3. SendAt \in 0 .. MSG_BUFF_LEN /\ sendBuf \in [Slot -> Here']
      BY <1>3, Lengths DEF TaskInv, SendTypes, SendAt
    <2> QED BY <2>2, <2>3
  <1> HIDE DEF bs
  <1>6. sendBuf' \in [Slot -> Here']
    BY <1>4, <1>5, WrittenType
  <1>7. mSendWrite' \in 0 .. MSG_BUFF_LEN /\ mSendLen' \in 0 .. MSG_BUFF_LEN
    <2>1. /\ mSendLen \in 0 .. MSG_BUFF_LEN /\ mSendWrite \in 0 .. MSG_BUFF_LEN /\ mSendRead \in Int
          /\ need <= MSG_BUFF_LEN - mSendLen
      BY <1>1, Lengths DEF TaskInv, SendTypes
    <2>2. CASE Fits(need) /\ SendAt + need <= MSG_BUFF_LEN /\ mSendWrite' = SendAt + need - 0
      BY <1>1, <1>2, <1>5, <2>1, <2>2, Lengths
    <2>3. CASE Wraps(need) /\ ~Fits(need) /\ mSendWrite' = SendAt + need - MSG_BUFF_LEN
      <3>1. MSG_BUFF_LEN - SendAt < need
        BY <1>2, <1>5, <2>1, <2>3, Lengths DEF Wraps, Fits
      <3>2. mSendWrite' \in 0 .. MSG_BUFF_LEN
        <4> HIDE DEF need
        <4> QED BY <1>2, <1>5, <2>1, <2>3, <3>1, Lengths
      <3> QED BY <1>1, <1>2, <2>1, <3>2, Lengths
    <2>4. CASE mSendWrite' \in {SendAt, mSendWrite}
      BY <1>1, <1>2, <1>5, <2>1, <2>4, Lengths
    <2> QED BY <1>4, <2>2, <2>3, <2>4 DEF Wraps
  <1>8. SendTypes'
    BY <1>1, <1>3, <1>4, <1>6, <1>7, Lengths DEF TaskInv, SendTypes
  <1>9. RecvTypes' /\ RecvPointers'
    BY <1>1, <1>3 DEF TaskInv, RecvTypes, RecvPointers, recvVars
  <1>10. SendPointers'
    <2> SUFFICES ASSUME "wrapped" \notin faults
                 PROVE  mSendRead \in 0 .. MSG_BUFF_LEN /\ Ring(mSendWrite', mSendRead, mSendLen')
      BY <1>1 DEF SendPointers, Ring
    <2>1. /\ Fits(need) => SendAt + need <= MSG_BUFF_LEN /\ Ring(SendAt + need, mSendRead, mSendLen + need)
          /\ ~Fits(need) => Wraps(need) /\ SendAt + need - MSG_BUFF_LEN \in 1 .. mSendRead
                            /\ Ring(SendAt + need - MSG_BUFF_LEN, mSendRead, mSendLen + need)
      BY <1>1, <1>2, SendRoom DEF TaskInv
    <2>2. mSendWrite' = SendAt + need - IF Fits(need) THEN 0 ELSE MSG_BUFF_LEN
      <3>1. ~(Fits(need) /\ SendAt + need > MSG_BUFF_LEN)
        BY <1>2, <1>5, <2>1, Lengths
      <3> QED BY <1>4, <2>1, <3>1
    <2>3. mSendRead \in 0 .. MSG_BUFF_LEN
      BY DEF TaskInv, SendPointers
    <2>4. CASE Fits(need)
      <3>1. mSendWrite' = SendAt + need
        BY <1>2, <1>5, <2>2, <2>4
      <3> QED BY <1>1, <2>1, <2>3, <2>4, <3>1
    <2>5. CASE ~Fits(need)
      BY <1>1, <2>1, <2>2, <2>3, <2>5
    <2> QED BY <2>4, <2>5
  <1> QED BY <1>8, <1>9, <1>10 DEF TaskInv

LEMMA SyncSendInv ==
    ASSUME TaskInv, NEW n \in Lens, SyncSend(n)
    PROVE  TaskInv'
  <1> DEFINE bs == Bytes(Len(sent) + 1, n)
  <1>1. /\ Len(sent) < MaxMsgs /\ sent' = Append(sent, n) /\ PutOnWire(bs)
        /\ faults' \in {faults, faults \cup {"partial"}}
        /\ UNCHANGED <<sendBuf, mSendRead, mSendWrite, mSendLen, sender, recvVars>>
    BY DEF SyncSend
  <1>2. Len(sent') = Len(sent) + 1 /\ sent' \in Seq(Lens) /\ Here \subseteq Here'
        /\ ({Len(sent) + 1} \X Slot) \subseteq Here'
    BY <1>1, HereGrows DEF TaskInv, SendTypes
  <1>3. bs \in Seq(Here')
    <2>1. Len(sent) + 1 \in Nat
      BY DEF TaskInv, SendTypes
    <2>2. bs \in Seq({Len(sent) + 1} \X Slot)
      BY <2>1, BytesType, Lengths
    <2> QED BY <1>2, <2>2
  <1>4. wire \in Seq(Here') /\ Len(wire) <= SndBuf
    BY <1>2 DEF TaskInv, RecvTypes
  <1> HIDE DEF bs
  <1>5. wire' \in Seq(Here') /\ Len(wire') <= SndBuf
    BY <1>1, <1>3, <1>4, PutType
  <1>6. SendTypes'
    BY <1>1, <1>2, Lengths DEF TaskInv, SendTypes
  <1>7. RecvTypes' /\ RecvPointers'
    BY <1>1, <1>2, <1>5 DEF TaskInv, RecvTypes, RecvPointers, recvVars, Fault
  <1>8. SendPointers'
    BY <1>1 DEF TaskInv, SendPointers, Ring
  <1> QED BY <1>6, <1>7, <1>8 DEF TaskInv

(* A round of TaskSend, and its begin and end.                             *)
LEMMA SendForwardInv == ASSUME TaskInv, SendForward PROVE TaskInv'
  <1> DEFINE bs == Straight(sendBuf, mSendRead, mSendLen)
  <1>1. /\ mSendLen > 0 /\ mSendWrite > mSendRead /\ PutOnWire(bs)
        /\ mSendLen' = mSendLen - SendBytes(bs) /\ mSendRead' = mSendRead + SendBytes(bs)
        /\ faults' \in {faults, faults \cup {"partial"}}
        /\ UNCHANGED <<sent, sendBuf, mSendWrite, sender, recvVars>>
    BY DEF SendForward
  <1>2. bs \in Seq(Here) /\ Len(bs) = mSendLen
    <2>1. /\ mSendLen \in Nat /\ mSendRead \in Int
          /\ sendBuf \in [Slot -> Here] /\ Stale \in Here
      BY Lengths DEF TaskInv, SendTypes, Here
    <2> QED BY <2>1, StraightType
  <1> HIDE DEF bs
  <1>3. wire' \in Seq(Here) /\ Len(wire') <= SndBuf /\ SendBytes(bs) \in {0, mSendLen}
    BY <1>1, <1>2, PutType DEF TaskInv, RecvTypes
  <1>4. Here' = Here
    BY <1>1 DEF Here
  <1>5. SendTypes'
    BY <1>1, <1>3, <1>4, Lengths DEF TaskInv, SendTypes
  <1>6. RecvTypes' /\ RecvPointers'
    BY <1>1, <1>3, <1>4 DEF TaskInv, RecvTypes, RecvPointers, recvVars, Fault
  <1>7. SendPointers'
    BY <1>1, <1>3, Lengths DEF TaskInv, SendTypes, SendPointers, Ring
  <1> QED BY <1>5, <1>6, <1>7 DEF TaskInv

LEMMA SendWrappedInv == ASSUME TaskInv, SendWrapped PROVE TaskInv'
  <1> DEFINE left == MSG_BUFF_LEN - mSendRead
             bs == Straight(sendBuf, mSendRead, left) \o Straight(sendBuf, 0, mSendLen - left)
  <1>1. /\ left \in 0 .. mSendLen /\ PutOnWire(bs)
        /\ mSendLen' = mSendLen - SendBytes(bs) /\ mSendRead' = WrappedRead(mSendLen', left)
        /\ faults' = faults \cup {"wrapped"} \cup (IF Cut(bs) THEN {"partial"} ELSE {})
        /\ UNCHANGED <<sent, sendBuf, mSendWrite, sender, recvVars>>
    BY DEF SendWrapped
  <1>2. bs \in Seq(Here) /\ Len(bs) = mSendLen
    <2>1. /\ left \in Nat /\ mSendLen - left \in Nat /\ mSendRead \in Int
          /\ sendBuf \in [Slot -> Here] /\ Stale \in Here
      BY <1>1, Lengths DEF TaskInv, SendTypes, Here
    <2> HIDE DEF left
    <2>2. /\ Straight(sendBuf, mSendRead, left) \in Seq(Here) /\ Len(Straight(sendBuf, mSendRead, left)) = left
          /\ Straight(sendBuf, 0, mSendLen - left) \in Seq(Here)
          /\ Len(Straight(sendBuf, 0, mSendLen - left)) = mSendLen - left
      BY <2>1, StraightType
    <2>3. mSendLen \in Nat BY Lengths DEF TaskInv, SendTypes
    <2> QED BY <2>1, <2>2, <2>3
  <1> HIDE DEF bs
  <1>3. wire' \in Seq(Here) /\ Len(wire') <= SndBuf /\ SendBytes(bs) \in {0, mSendLen}
    BY <1>1, <1>2, PutType DEF TaskInv, RecvTypes
  <1>4. Here' = Here
    BY <1>1 DEF Here
  <1>5. SendTypes'
    <2>1. mSendLen' \in 0 .. MSG_BUFF_LEN /\ mSendRead' = mSendLen' - left
      BY <1>1, <1>3, Lengths DEF TaskInv, SendTypes, WrappedRead
    <2>2. left \in 0 .. MSG_BUFF_LEN
      BY <1>1, Lengths DEF TaskInv, SendTypes
    <2>3. mSendRead' \in -MSG_BUFF_LEN .. 2 * MSG_BUFF_LEN
      <3>1. MSG_BUFF_LEN \in Nat BY Lengths
      <3>2. \A a \in 0 .. MSG_BUFF_LEN, b \in 0 .. MSG_BUFF_LEN :
                a - b \in -MSG_BUFF_LEN .. 2 * MSG_BUFF_LEN
        BY <3>1
      <3> HIDE DEF left
      <3> QED BY <2>1, <2>2, <3>2
    <2> QED BY <1>1, <1>4, <2>1, <2>3 DEF TaskInv, SendTypes
  <1>6. RecvTypes' /\ RecvPointers'
    BY <1>1, <1>3, <1>4 DEF TaskInv, RecvTypes, RecvPointers, recvVars, Fault
  <1>7. SendPointers'
    BY <1>1 DEF SendPointers
  <1> QED BY <1>5, <1>6, <1>7 DEF TaskInv

LEMMA SendOtherInv ==
    ASSUME TaskInv, StartTaskSend \/ SendUndefined \/ EndTaskSend
    PROVE  TaskInv'
  <1>1. /\ sender' \in {"idle", "sending", "closed", "undefined"}
        /\ UNCHANGED <<sent, sendBuf, mSendRead, mSendWrite, mSendLen, wire, recvVars, faults>>
    BY DEF StartTaskSend, SendUndefined, EndTaskSend
  <1>2. Here' = Here
    BY <1>1 DEF Here
  <1> QED BY <1>1, <1>2 DEF TaskInv, SendTypes, RecvTypes, RecvPointers, SendPointers, Ring, recvVars

-----------------------------------------------------------------------------
(* TaskRecv.  There is room for what recv() may be asked for, and it is    *)
(* not more than the ring has left.                                        *)
LEMMA RecvRoom ==
    ASSUME RecvTypes, RecvPointers, mRecvLen < MSG_BUFF_LEN
    PROVE  /\ Refill \in 0 .. MSG_BUFF_LEN /\ Room(Refill) \in 1 .. MSG_BUFF_LEN - mRecvLen
           /\ \A k \in 1 .. Room(Refill) :
                /\ Refill + k \in 1 .. MSG_BUFF_LEN /\ mRecvLen + k \in 1 .. MSG_BUFF_LEN
                /\ Ring(Refill + k, mRecvRead, mRecvLen + k)
  BY Lengths DEF RecvTypes, RecvPointers, Ring, Refill, Room

LEMMA StartTaskRecvInv == ASSUME TaskInv, StartTaskRecv PROVE TaskInv'
  <1>1. PICK k \in 1 .. Min({Room(Refill), Len(wire)}) :
            /\ recvBuf' = Written(recvBuf, Refill, SubSeq(wire, 1, k))
            /\ mRecvLen' = mRecvLen + k /\ mRecvWrite' = Refill + k
            /\ wire' = SubSeq(wire, k + 1, Len(wire))
    BY DEF StartTaskRecv
  <1>2. mRecvLen < MSG_BUFF_LEN /\ reader' = "parsing" /\ UNCHANGED <<sendVars, mRecvRead, handled, faults>>
    BY DEF StartTaskRecv
  <1>3. /\ Refill \in 0 .. MSG_BUFF_LEN /\ Room(Refill) \in 1 .. MSG_BUFF_LEN - mRecvLen
        /\ \A i \in 1 .. Room(Refill) :
                /\ Refill + i \in 1 .. MSG_BUFF_LEN /\ mRecvLen + i \in 1 .. MSG_BUFF_LEN
                /\ Ring(Refill + i, mRecvRead, mRecvLen + i)
    BY <1>2, RecvRoom DEF TaskInv
  <1>4. k \in 1 .. Room(Refill) /\ k \in 1 .. Len(wire) /\ wire \in Seq(Here) /\ Len(wire) <= SndBuf
    <2>1. Len(wire) \in Nat /\ Room(Refill) \in Int
      BY <1>3, Lengths DEF TaskInv, RecvTypes
    <2>2. Min({Room(Refill), Len(wire)}) = IF Room(Refill) <= Len(wire) THEN Room(Refill) ELSE Len(wire)
      BY <2>1, LeastOf2
    <2> QED BY <2>1, <2>2 DEF TaskInv, RecvTypes
  <1>5. Here' = Here
    BY <1>2 DEF Here, sendVars
  <1>6. /\ SubSeq(wire, 1, k) \in Seq(Here) /\ wire' \in Seq(Here) /\ Len(wire') = Len(wire) - k
    BY <1>1, <1>4, SplitType
  <1>7. Len(wire') <= SndBuf
    BY <1>4, <1>6, Lengths
  <1>8. recvBuf' \in [Slot -> Here]
    <2>1. Refill \in Int /\ recvBuf \in [Slot -> Here]
      BY <1>3, Lengths DEF TaskInv, RecvTypes
    <2> QED BY <1>1, <1>6, <2>1, WrittenType
  <1>9. RecvTypes' /\ RecvPointers'
    BY <1>1, <1>2, <1>3, <1>4, <1>5, <1>6, <1>7, <1>8, Lengths DEF TaskInv, RecvTypes, RecvPointers, Ring
  <1>10. SendTypes' /\ SendPointers'
    BY <1>2, <1>5 DEF TaskInv, SendTypes, SendPointers, Ring, sendVars
  <1> QED BY <1>9, <1>10 DEF TaskInv

(* TaskRecv's loop believes it has what it has: the bytes from its read    *)
(* pointer on, and after a message the rest of them.                       *)
LEMMA ParsePlace ==
    ASSUME RecvTypes, RecvPointers, mRecvLen > 0
    PROVE  /\ ParseRead \in 0 .. MSG_BUFF_LEN - 1 /\ Avail(ParseRead) = mRecvLen
           /\ Ring(mRecvWrite, ParseRead, mRecvLen) /\ mRecvWrite > 0
  BY Lengths DEF RecvTypes, RecvPointers, Ring, ParseRead, Avail, Forward

LEMMA ParseOn ==
    ASSUME RecvTypes, RecvPointers, mRecvLen > 0, NEW n \in Nat, n <= Avail(ParseRead) - IntLen,
           NEW next, next = IF Forward(ParseRead) \/ n <= MSG_BUFF_LEN - ParseRead - IntLen
                            THEN ParseRead + n + IntLen ELSE ParseRead + n + IntLen - MSG_BUFF_LEN
    PROVE  /\ next \in 0 .. MSG_BUFF_LEN /\ mRecvLen - (n + IntLen) \in 0 .. MSG_BUFF_LEN
           /\ Ring(mRecvWrite, next, mRecvLen - (n + IntLen))
  <1>1. /\ ParseRead \in 0 .. MSG_BUFF_LEN - 1 /\ Avail(ParseRead) = mRecvLen
        /\ Ring(mRecvWrite, ParseRead, mRecvLen) /\ mRecvWrite > 0
    BY ParsePlace
  <1>2. mRecvLen \in 0 .. MSG_BUFF_LEN /\ mRecvWrite \in 0 .. MSG_BUFF_LEN
    BY DEF RecvTypes
  <1> QED BY <1>1, <1>2, Lengths DEF Ring, Forward

(* The lengths a round may read, and the message it hands over.            *)
LEMMA LensOfHere ==
    ASSUME TaskInv, NEW r \in Slot
    PROVE  /\ recvBuf[r][1] \in 0 .. Len(sent)
           /\ recvBuf[r][1] # 0 => sent[recvBuf[r][1]] \in Lens
           /\ RealLen(r) \subseteq Lens \cup (0 .. MAX_PACKAGE_LEN)
           /\ \A n : Given(r, n) \in 0 .. MaxMsgs
  <1>1. recvBuf[r] \in Here /\ sent \in Seq(Lens) /\ Len(sent) \in Nat /\ Len(sent) <= MaxMsgs
    BY DEF TaskInv, SendTypes, RecvTypes
  <1>2. recvBuf[r][1] \in 0 .. Len(sent)
    BY <1>1 DEF Here, Stale
  <1>3. recvBuf[r][1] # 0 => sent[recvBuf[r][1]] \in Lens
    BY <1>1, <1>2
  <1>4. RealLen(r) \subseteq Lens \cup (0 .. MAX_PACKAGE_LEN)
    BY <1>3 DEF RealLen
  <1>5. \A n : Given(r, n) \in 0 .. MaxMsgs
    BY <1>1, <1>2, Lengths DEF Given
  <1> QED BY <1>2, <1>3, <1>4, <1>5

LEMMA ParseMessageInv == ASSUME TaskInv, ParseMessage PROVE TaskInv'
  <1> DEFINE r == ParseRead
  <1>1. PICK n \in RealLen(r) :
         \/ /\ reader' = "closed" /\ mRecvRead' = r
            /\ UNCHANGED <<recvBuf, mRecvLen, handled>>
         \/ /\ reader' = "idle" /\ mRecvRead' = r
            /\ UNCHANGED <<recvBuf, mRecvLen, handled>>
         \/ /\ n >= MIN_PACKAGE_LEN /\ n <= Avail(r) - IntLen
            /\ handled' = Append(handled, Given(r, n))
            /\ recvBuf' = Written(recvBuf, r, [j \in 1 .. n + IntLen |-> Stale])
            /\ mRecvLen' = mRecvLen - (n + IntLen)
            /\ mRecvRead' = IF Forward(r) \/ n <= MSG_BUFF_LEN - r - IntLen
                            THEN r + n + IntLen ELSE r + n + IntLen - MSG_BUFF_LEN
            /\ UNCHANGED reader
    BY Zenon DEF ParseMessage
  <1>2. /\ mRecvLen > 0 /\ faults' = faults \cup Misread(r)
        /\ UNCHANGED <<sendVars, wire, mRecvWrite>>
    BY Zenon DEF ParseMessage
  <1>3. /\ r \in 0 .. MSG_BUFF_LEN - 1 /\ Avail(r) = mRecvLen
        /\ Ring(mRecvWrite, r, mRecvLen) /\ mRecvWrite > 0
    BY <1>2, ParsePlace DEF TaskInv
  <1>4. n \in Nat /\ Given(r, n) \in 0 .. MaxMsgs
    BY <1>3, LensOfHere, Lengths DEF Slot, MIN_PACKAGE_LEN, MAX_PACKAGE_LEN
  <1>5. Here' = Here /\ Stale \in Here /\ faults' \subseteq Fault
    <2>1. Misread(r) \subseteq Fault
      BY DEF Misread, Fault
    <2> QED BY <1>2, <2>1 DEF Here, sendVars, TaskInv, RecvTypes
  <1>6. recvBuf' \in [Slot -> Here]
    <2>1. [j \in 1 .. n + IntLen |-> Stale] \in Seq(Here) /\ r \in Int /\ recvBuf \in [Slot -> Here]
      BY <1>3, <1>4, <1>5, Lengths DEF TaskInv, RecvTypes
    <2>2. Written(recvBuf, r, [j \in 1 .. n + IntLen |-> Stale]) \in [Slot -> Here]
      BY <2>1, WrittenType
    <2> QED BY <1>1, <2>1, <2>2
  <1>7. handled' \in Seq(0 .. MaxMsgs)
    <2>1. handled \in Seq(0 .. MaxMsgs)
      BY DEF TaskInv, RecvTypes
    <2>2. handled' \in {handled, Append(handled, Given(r, n))}
      BY <1>1
    <2> DEFINE g == Given(r, n)
               T == 0 .. MaxMsgs
    <2>3. handled \in Seq(T) /\ g \in T /\ handled' \in {handled, Append(handled, g)}
      BY <1>4, <2>1, <2>2
    <2> HIDE DEF g, T
    <2>4. handled' \in Seq(T)
      BY <2>3
    <2> QED BY <2>4 DEF T
  <1>8. mRecvRead' \in 0 .. MSG_BUFF_LEN /\ mRecvLen' \in 0 .. MSG_BUFF_LEN
        /\ Ring(mRecvWrite, mRecvRead', mRecvLen')
    <2>1. CASE mRecvRead' = r /\ mRecvLen' = mRecvLen
      BY <1>3, <2>1, Lengths DEF TaskInv, RecvTypes
    <2>2. CASE /\ n <= Avail(r) - IntLen /\ mRecvLen' = mRecvLen - (n + IntLen)
               /\ mRecvRead' = IF Forward(r) \/ n <= MSG_BUFF_LEN - r - IntLen
                               THEN r + n + IntLen ELSE r + n + IntLen - MSG_BUFF_LEN
      BY <1>2, <1>4, <2>2, ParseOn DEF TaskInv
    <2> QED BY <1>1, <2>1, <2>2
  <1>9. RecvTypes' /\ RecvPointers'
    BY <1>1, <1>2, <1>5, <1>6, <1>7, <1>8 DEF TaskInv, RecvTypes, RecvPointers, Ring
  <1>10. SendTypes' /\ SendPointers'
    BY <1>2, <1>5 DEF TaskInv, SendTypes, SendPointers, Ring, sendVars, Misread
  <1> QED BY <1>9, <1>10 DEF TaskInv

LEMMA TaskNextInv == ASSUME TaskInv, [Next]_vars PROVE TaskInv'
  <1>1. CASE UNCHANGED vars
    <2>1. UNCHANGED <<sendVars, wire, recvVars, faults>> BY <1>1 DEF vars
    <2> QED BY <2>1 DEF TaskInv, SendTypes, RecvTypes, RecvPointers, SendPointers, Ring, Here, sendVars, recvVars
  <1>2. CASE EndTaskRecv
    BY <1>2 DEF EndTaskRecv, TaskInv, SendTypes, RecvTypes, RecvPointers, SendPointers, Ring, Here, sendVars
  <1> QED BY <1>1, <1>2, Send2BufInv, SyncSendInv, SendForwardInv, SendWrappedInv, SendOtherInv,
             StartTaskRecvInv, ParseMessageInv DEF Next, TaskSend, TaskRecv

(* Task!TypeOK and the two rings hold wherever the invariant does.         *)
LEMMA TaskInvRings == ASSUME TaskInv PROVE TypeOK /\ RecvRing /\ SendRing
  <1>1. Here \subseteq Cell
    BY Lengths DEF TaskInv, SendTypes, Here, Cell, Slot
  <1>2. TypeOK
    BY <1>1 DEF TaskInv, SendTypes, RecvTypes, TypeOK
  <1>3. \A x \in {0, -MSG_BUFF_LEN} : x % MSG_BUFF_LEN = 0
    BY Lengths, RingMod
  <1>4. RecvRing
    <2>1. mRecvWrite - mRecvRead - mRecvLen \in {0, -MSG_BUFF_LEN}
      BY Lengths DEF TaskInv, RecvTypes, RecvPointers, Ring
    <2>2. mRecvLen < MSG_BUFF_LEN => Room(Refill) \in 1 .. MSG_BUFF_LEN - mRecvLen
      BY RecvRoom DEF TaskInv
    <2> QED BY <1>3, <2>1, <2>2 DEF RecvRing
  <1>5. SendRing
    <2> SUFFICES ASSUME "wrapped" \notin faults
                 PROVE  /\ (mSendWrite - mSendRead - mSendLen) % MSG_BUFF_LEN = 0
                        /\ \A n \in Lens : n + IntLen <= MSG_BUFF_LEN - mSendLen =>
                                Fits(n + IntLen) \/ Wraps(n + IntLen)
      BY Zenon DEF SendRing
    <2>1. mSendWrite - mSendRead - mSendLen \in {0, -MSG_BUFF_LEN}
      BY Lengths DEF TaskInv, SendTypes, SendPointers, Ring
    <2>2. ASSUME NEW n \in Lens, n + IntLen <= MSG_BUFF_LEN - mSendLen
          PROVE  Fits(n + IntLen) \/ Wraps(n + IntLen)
      <3>1. n + IntLen \in Nat /\ n + IntLen > 0
        BY Lengths
      <3> QED BY <2>2, <3>1, SendRoom DEF TaskInv
    <2> QED BY <1>3, <2>1, <2>2
  <1> QED BY <1>2, <1>4, <1>5

-----------------------------------------------------------------------------
(* A stream of messages with the lengths s, each behind a head of H bytes: *)
(* off says where each of them begins, and the byte at p is the j-th of    *)
(* the message k that lies there.                                          *)
Laid(H, s, off) ==
    /\ off \in [1 .. Len(s) + 1 -> Nat] /\ off[1] = 0
    /\ \A k \in 1 .. Len(s) : off[k + 1] = off[k] + H + s[k]
    /\ \A k, l \in 1 .. Len(s) + 1 : k < l => off[k] + H + s[k] <= off[l]

ByteAt(H, s, off, b, p) ==
    /\ b \in (1 .. Len(s)) \X Nat
    /\ b[2] < H + s[b[1]] /\ off[b[1]] + b[2] = p

(* A message more at the end leaves the bytes before it where they are.    *)
LEMMA Extended ==
    ASSUME NEW H \in Nat, NEW s \in Seq(Nat), NEW n \in Nat, NEW off, Laid(H, s, off)
    PROVE  \E on :
              /\ Laid(H, Append(s, n), on)
              /\ \A k \in 1 .. Len(s) + 1 : on[k] = off[k]
              /\ on[Len(s) + 2] = off[Len(s) + 1] + H + n
              /\ \A b, p : ByteAt(H, s, off, b, p) => ByteAt(H, Append(s, n), on, b, p)
              /\ \A j \in 0 .. H + n - 1 :
                    ByteAt(H, Append(s, n), on, <<Len(s) + 1, j>>, off[Len(s) + 1] + j)
  <1> DEFINE m == Len(s)
             t == Append(s, n)
             on == [k \in 1 .. m + 2 |-> IF k = m + 2 THEN off[m + 1] + H + n ELSE off[k]]
  <1>1. m \in Nat /\ Len(t) = m + 1 /\ t[m + 1] = n /\ \A k \in 1 .. m : t[k] = s[k] /\ s[k] \in Nat
    OBVIOUS
  <1>2. /\ off \in [1 .. m + 1 -> Nat] /\ off[1] = 0
        /\ \A k \in 1 .. m : off[k + 1] = off[k] + H + s[k]
        /\ \A k, l \in 1 .. m + 1 : k < l => off[k] + H + s[k] <= off[l]
    BY DEF Laid
  <1>3. /\ on \in [1 .. m + 2 -> Nat] /\ on[m + 2] = off[m + 1] + H + n
        /\ \A k \in 1 .. m + 1 : on[k] = off[k]
    <2> HIDE DEF m
    <2>1. off[m + 1] + H + n \in Nat /\ m + 2 \in 1 .. m + 2
      BY <1>1, <1>2
    <2>2. \A k \in 1 .. m + 2 : k \in 1 .. m + 1 \/ k = m + 2
      BY <1>1
    <2>3. \A k \in 1 .. m + 1 : k \in 1 .. m + 2 /\ k # m + 2 /\ off[k] \in Nat
      BY <1>1, <1>2
    <2> QED BY <2>1, <2>2, <2>3
  <1> HIDE DEF on, t, m
  <1>4. Laid(H, t, on)
    <2>1. on \in [1 .. Len(t) + 1 -> Nat] /\ on[1] = 0
      BY <1>1, <1>2, <1>3
    <2>2. \A k \in 1 .. Len(t) : on[k + 1] = on[k] + H + t[k]
      <3>1. \A k \in 1 .. m : on[k + 1] = on[k] + H + t[k]
        BY <1>1, <1>2, <1>3
      <3>2. on[m + 1 + 1] = on[m + 1] + H + t[m + 1]
        BY <1>1, <1>2, <1>3
      <3> QED BY <1>1, <3>1, <3>2
    <2>3. \A k, l \in 1 .. Len(t) + 1 : k < l => on[k] + H + t[k] <= on[l]
      <3> SUFFICES ASSUME NEW k \in 1 .. m + 2, NEW l \in 1 .. m + 2, k < l
                   PROVE  on[k] + H + t[k] <= on[l]
        BY <1>1
      <3>1. CASE l <= m + 1
        BY <1>1, <1>2, <1>3, <3>1
      <3>2. CASE l = m + 2 /\ k = m + 1
        BY <1>1, <1>2, <1>3, <3>2
      <3>3. CASE l = m + 2 /\ k <= m
        <4>1. off[k] + H + s[k] <= off[m + 1] /\ off[m + 1] \in Nat /\ off[k] \in Nat /\ s[k] \in Nat
          BY <1>1, <1>2, <3>3
        <4>2. on[k] = off[k] /\ t[k] = s[k] /\ on[l] = off[m + 1] + H + n
          BY <1>1, <1>3, <3>3
        <4> QED BY <4>1, <4>2
      <3> QED BY <1>1, <3>1, <3>2, <3>3
    <2> QED BY <2>1, <2>2, <2>3 DEF Laid
  <1>5. \A b, p : ByteAt(H, s, off, b, p) => ByteAt(H, t, on, b, p)
    <2> SUFFICES ASSUME NEW b, NEW p, ByteAt(H, s, off, b, p) PROVE ByteAt(H, t, on, b, p)
      OBVIOUS
    <2>1. b \in (1 .. m) \X Nat /\ b[2] < H + s[b[1]] /\ off[b[1]] + b[2] = p
      BY DEF ByteAt, m
    <2>2. b[1] \in 1 .. m /\ b \in (1 .. m + 1) \X Nat
      BY <1>1, <2>1
    <2>3. t[b[1]] = s[b[1]] /\ on[b[1]] = off[b[1]]
      BY <1>1, <1>3, <2>2
    <2> QED BY <1>1, <2>1, <2>2, <2>3 DEF ByteAt
  <1>6. \A j \in 0 .. H + n - 1 : ByteAt(H, t, on, <<m + 1, j>>, off[m + 1] + j)
    BY <1>1, <1>2, <1>3 DEF ByteAt
  <1> QED BY <1>3, <1>4, <1>5, <1>6 DEF t, m

(* The byte i places behind the end of the message m is of a later one:    *)
(* the i-th of the next, if that has so many.                              *)
LEMMA Placed ==
    ASSUME NEW H \in Nat, NEW s \in Seq(Nat), NEW off, Laid(H, s, off),
           NEW m \in 0 .. Len(s), NEW i \in Nat, NEW b, ByteAt(H, s, off, b, off[m + 1] + i)
    PROVE  m < Len(s) /\ (i < H + s[m + 1] => b = <<m + 1, i>>)
  <1> DEFINE k == b[1]
             j == b[2]
  <1>1. /\ b \in (1 .. Len(s)) \X Nat /\ k \in 1 .. Len(s) /\ j \in Nat /\ b = <<k, j>>
        /\ j < H + s[k] /\ off[k] + j = off[m + 1] + i
    BY DEF ByteAt
  <1>2. /\ \A x, y \in 1 .. Len(s) + 1 : x < y => off[x] + H + s[x] <= off[y]
        /\ \A x \in 1 .. Len(s) + 1 : off[x] \in Nat
        /\ \A x \in 1 .. Len(s) : s[x] \in Nat
        /\ Len(s) \in Nat /\ m \in Nat /\ m + 1 \in 1 .. Len(s) + 1
    <2>1. /\ \A x, y \in 1 .. Len(s) + 1 : x < y => off[x] + H + s[x] <= off[y]
          /\ \A x \in 1 .. Len(s) + 1 : off[x] \in Nat
      BY DEF Laid
    <2>2. /\ \A x \in 1 .. Len(s) : s[x] \in Nat
          /\ Len(s) \in Nat /\ m \in Nat /\ m + 1 \in 1 .. Len(s) + 1
      OBVIOUS
    <2> QED BY <2>1, <2>2
  <1> HIDE DEF k, j
  <1>3. ~(k < m + 1)
    <2> SUFFICES ASSUME k < m + 1 PROVE FALSE
      OBVIOUS
    <2>1. off[k] + H + s[k] <= off[m + 1] /\ off[k] \in Nat /\ s[k] \in Nat /\ off[m + 1] \in Nat
      BY <1>1, <1>2
    <2>2. \A x, y, z, u, v \in Nat : x + H + z <= y /\ u < H + z => x + u # y + v
      OBVIOUS
    <2>3. j \in Nat /\ j < H + s[k] /\ off[k] + j = off[m + 1] + i
      BY <1>1
    <2> QED BY <2>1, <2>2, <2>3
  <1>4. m < Len(s)
    BY <1>1, <1>2, <1>3
  <1>5. ASSUME i < H + s[m + 1] PROVE k = m + 1
    <2> SUFFICES ASSUME m + 1 < k PROVE FALSE
      BY <1>1, <1>2, <1>3
    <2>1. off[m + 1] + H + s[m + 1] <= off[k] /\ off[k] \in Nat /\ s[m + 1] \in Nat /\ off[m + 1] \in Nat
      BY <1>1, <1>2, <1>4
    <2>2. \A x, y, z, u, v \in Nat : x + H + z <= y /\ v < H + z => y + u # x + v
      OBVIOUS
    <2>3. j \in Nat /\ off[k] + j = off[m + 1] + i
      BY <1>1
    <2> QED BY <1>5, <2>1, <2>2, <2>3
  <1>6. ASSUME k = m + 1 PROVE b = <<m + 1, i>>
    <2>1. off[m + 1] \in Nat
      BY <1>2
    <2> QED BY <1>1, <1>6, <2>1
  <1> QED BY <1>4, <1>5, <1>6

(* In a ring of d bytes, how far the cell of x is behind y.                *)
LEMMA RingApart ==
    ASSUME NEW x \in Int, NEW y \in Int, NEW d \in Nat, d > 0
    PROVE  ((x % d) - y) % d = (x - y) % d
  <1>1. /\ x = d * (x \div d) + (x % d) /\ x % d \in 0 .. d - 1 /\ x \div d \in Int
        /\ x - y = d * ((x - y) \div d) + ((x - y) % d) /\ (x - y) % d \in 0 .. d - 1
        /\ (x - y) \div d \in Int
    <2>1. x - y \in Int OBVIOUS
    <2> QED BY <2>1, DivMod
  <1> DEFINE q == (x - y) \div d - (x \div d)
             r == (x - y) % d
  <1>2. q \in Int /\ r \in 0 .. d - 1
    BY <1>1
  <1>3. d * q = d * ((x - y) \div d) - d * (x \div d)
    <2>1. \A a, b \in Int : d * (a - b) = d * a - d * b BY Z3
    <2> QED BY <1>1, <2>1
  <1>4. (x % d) - y = d * q + r
    <2> DEFINE u == d * ((x - y) \div d)
               v == d * (x \div d)
               z == d * q
    <2>1. z = u - v /\ x = v + (x % d) /\ x - y = u + r /\ u \in Int /\ v \in Int /\ x % d \in Int /\ r \in Int
      BY <1>1, <1>3
    <2> HIDE DEF u, v, z, r
    <2>2. (x % d) - y = z + r
      BY <2>1
    <2> QED BY <2>2 DEF z, r
  <1> HIDE DEF q, r
  <1>5. (x % d) - y \in Int
    BY <1>1
  <1> QED BY <1>2, <1>4, <1>5, ModIs DEF r

(* Two places that are whole rounds apart are one cell.                    *)
LEMMA SameCell ==
    ASSUME NEW x \in Int, NEW d \in Nat, d > 0, NEW q \in {-2, -1, 0, 1, 2}
    PROVE  (x + q * d) % d = x % d
  <1>1. x = d * (x \div d) + (x % d) /\ x % d \in 0 .. d - 1 /\ x \div d \in Int
    BY DivMod
  <1>2. d * (x \div d + q) = d * (x \div d) + q * d
    <2>1. \A a \in Int : d * (a + q) = d * a + q * d BY Z3
    <2> QED BY <1>1, <2>1
  <1>3. x + q * d = d * (x \div d + q) + (x % d)
    <2> DEFINE u == d * (x \div d)
               v == q * d
               r == x % d
    <2>1. x = u + r /\ d * (x \div d + q) = u + v /\ u \in Int /\ v \in Int /\ r \in Int
      BY <1>1, <1>2
    <2> HIDE DEF u, v, r
    <2>2. x + v = (u + v) + r
      BY <2>1
    <2> QED BY <2>1, <2>2 DEF v, r
  <1>4. x \div d + q \in Int /\ x + q * d \in Int
    BY <1>1
  <1> QED BY <1>1, <1>3, <1>4, ModIs

(* What a ring holds at x after bs has been written into it from w on.     *)
LEMMA WrittenRing ==
    ASSUME NEW buf, NEW w \in Int, NEW x \in Int, NEW bs, Len(bs) \in Nat
    PROVE  Written(buf, w, bs)[x % MSG_BUFF_LEN] =
                IF (x - w) % MSG_BUFF_LEN < Len(bs) THEN bs[((x - w) % MSG_BUFF_LEN) + 1]
                ELSE buf[x % MSG_BUFF_LEN]
  <1> DEFINE c == x % MSG_BUFF_LEN
             e == (x - w) % MSG_BUFF_LEN
  <1>1. c \in Slot /\ e \in 0 .. MSG_BUFF_LEN - 1
    BY Lengths, RingMod DEF Slot
  <1>2. (c - w) % MSG_BUFF_LEN = e
    <2>1. MSG_BUFF_LEN \in Nat /\ MSG_BUFF_LEN > 0
      BY Lengths
    <2> QED BY <2>1, RingApart, Zenon
  <1> HIDE DEF c, e
  <1>3. Written(buf, w, bs)[c] =
            LET j == ((c - w) % MSG_BUFF_LEN) + 1 IN IF j \in 1 .. Len(bs) THEN bs[j] ELSE buf[c]
    BY <1>1 DEF Written
  <1>4. Written(buf, w, bs)[c] = IF e + 1 \in 1 .. Len(bs) THEN bs[e + 1] ELSE buf[c]
    BY <1>2, <1>3
  <1>5. e + 1 \in 1 .. Len(bs) <=> e < Len(bs)
    BY <1>1, Lengths
  <1> QED BY <1>4, <1>5 DEF c, e

-----------------------------------------------------------------------------
(* What the buffers of a connection hold of the stream from D on: first    *)
(* the bytes in the receive ring, then those on the wire, then those that  *)
(* wait in the send buffer, as long as these do not wrap.                  *)
Byte(off, b, p) == ByteAt(IntLen, sent, off, b, p)

Carries(off, D) ==
    /\ \A i \in 0 .. mRecvLen - 1 : Byte(off, recvBuf[(mRecvRead + i) % MSG_BUFF_LEN], D + i)
    /\ \A i \in 1 .. Len(wire) : Byte(off, wire[i], D + mRecvLen + i - 1)
    /\ mSendWrite > mSendRead =>
            \A i \in 0 .. mSendLen - 1 : Byte(off, sendBuf[mSendRead + i], D + mRecvLen + Len(wire) + i)
    /\ D + mRecvLen + Len(wire) + mSendLen = off[Len(sent) + 1]

(* Without a fault: the messages handled are the first ones sent, and the  *)
(* buffers carry the rest.                                                 *)
Whole(off) ==
    /\ Len(handled) <= Len(sent) /\ \A k \in 1 .. Len(handled) : handled[k] = k
    /\ reader # "closed" /\ Carries(off, off[Len(handled) + 1])

(* Until a buffer full has been sent, or a send has been cut short, every  *)
(* byte lies in either buffer at its place in the stream.                  *)
Early(off) ==
    "partial" \notin faults /\ off[Len(sent) + 1] <= MSG_BUFF_LEN =>
        /\ faults \cap {"wrapped", "straddled"} = {}
        /\ mSendWrite = mSendRead + mSendLen /\ mSendWrite <= off[Len(sent) + 1]
        /\ mRecvWrite = mRecvRead + mRecvLen
        /\ mRecvWrite + Len(wire) + mSendLen = off[Len(sent) + 1]

StreamInv == \E off : Laid(IntLen, sent, off) /\ (faults = {} => Whole(off)) /\ Early(off)

Accepted == [k \in 1 .. Len(sent) |-> k]
StreamStep == [Ordered!Next]_<<Accepted, handled, faults # {}>>

LEMMA LensNat == sent \in Seq(Lens) => sent \in Seq(Nat)
  BY Lengths

LEMMA StreamInitInv == ASSUME Init PROVE StreamInv /\ Ordered!Init
  <1> DEFINE off == [k \in 1 .. 1 |-> 0]
  <1>1. Laid(IntLen, sent, off)
    BY Lengths DEF Init, Laid
  <1>2. Whole(off) /\ Early(off)
    BY Lengths DEF Init, Whole, Early, Carries
  <1>3. Ordered!Init
    BY DEF Init, Ordered!Init
  <1> QED BY <1>1, <1>2, <1>3 DEF StreamInv

(* A step that leaves the lengths and the messages handled as they are,    *)
(* and no fault behind it, is none of the stream.                          *)
LEMMA StreamStill ==
    ASSUME UNCHANGED <<sent, handled>>, faults \subseteq faults'
    PROVE  StreamStep
  <1>1. Accepted' = Accepted
    BY DEF Accepted
  <1>2. CASE faults' = {}
    BY <1>1, <1>2 DEF StreamStep
  <1>3. CASE faults' # {}
    <2>1. Ordered!Break
      BY <1>3 DEF Ordered!Break
    <2> QED BY <2>1 DEF StreamStep, Ordered!Next
  <1> QED BY <1>2, <1>3

LEMMA StreamAccepts ==
    ASSUME TaskInv, NEW n \in Lens, sent' = Append(sent, n), Len(sent) < MaxMsgs,
           UNCHANGED handled, faults \subseteq faults'
    PROVE  StreamStep
  <1>1. CASE faults' # {}
    <2>1. Ordered!Break
      BY <1>1 DEF Ordered!Break
    <2> QED BY <2>1 DEF StreamStep, Ordered!Next
  <1>2. CASE faults' = {}
    <2>1. Len(sent) \in Nat /\ Len(sent') = Len(sent) + 1 /\ Len(sent) + 1 \in 1 .. MaxMsgs
      BY Lengths DEF TaskInv, SendTypes
    <2>2. [k \in 1 .. Len(sent') |-> k] = Append([k \in 1 .. Len(sent) |-> k], Len(sent) + 1)
      BY <2>1
    <2>3. UNCHANGED <<handled, faults # {}>>
      BY <1>2
    <2> QED BY <2>1, <2>2, <2>3 DEF StreamStep, Ordered!Next, Ordered!Accept
  <1> QED BY <1>1, <1>2

(* Send2Buf without a fault behind it: the bytes of the new message follow *)
(* those that wait, if the buffer does not wrap now.                       *)
LEMMA Send2BufPlace ==
    ASSUME TaskInv, NEW n \in Lens, Send2Buf(n), "wrapped" \notin faults
    PROVE  /\ mSendWrite' > mSendRead =>
                /\ mSendWrite = mSendRead + mSendLen /\ mSendWrite' = mSendWrite + n + IntLen
                /\ mSendRead \in 0 .. MSG_BUFF_LEN
                /\ \A i \in 0 .. mSendLen - 1 : sendBuf'[mSendRead + i] = sendBuf[mSendRead + i]
                /\ \A i \in 0 .. n + IntLen - 1 :
                        sendBuf'[mSendRead + mSendLen + i] = <<Len(sent) + 1, i>>
           /\ mSendRead \in Nat /\ mSendWrite = mSendRead + mSendLen /\ mSendWrite + n + IntLen <= MSG_BUFF_LEN
                => mSendWrite' = mSendWrite + n + IntLen
  <1> DEFINE need == n + IntLen
             bs == Bytes(Len(sent) + 1, n)
  <1>1. need \in Nat /\ need > 0 /\ need <= MSG_BUFF_LEN - mSendLen /\ n \in Nat
    BY Lengths DEF Send2Buf
  <1>0. n + IntLen - 1 = need - 1
    BY Lengths
  <1>2. /\ mSendRead \in 0 .. MSG_BUFF_LEN /\ Ring(mSendWrite, mSendRead, mSendLen)
        /\ mSendWrite \in 0 .. MSG_BUFF_LEN /\ mSendLen \in 0 .. MSG_BUFF_LEN
        /\ sendBuf \in [Slot -> Here] /\ Len(sent) \in Nat
    BY DEF TaskInv, SendTypes, SendPointers
  <1>3. /\ SendAt \in 0 .. MSG_BUFF_LEN
        /\ Fits(need) => SendAt + need <= MSG_BUFF_LEN
        /\ ~Fits(need) => Wraps(need) /\ SendAt + need - MSG_BUFF_LEN \in 1 .. mSendRead
    BY <1>1, SendRoom DEF TaskInv
  <1>4. /\ \/ /\ (Fits(need) /\ SendAt + need <= MSG_BUFF_LEN) \/ Wraps(need)
              /\ sendBuf' = Written(sendBuf, SendAt, bs)
              /\ mSendWrite' = SendAt + need - IF Fits(need) THEN 0 ELSE MSG_BUFF_LEN
           \/ ~Fits(need) /\ ~Wraps(need)
           \/ Fits(need) /\ SendAt + need > MSG_BUFF_LEN
    <2>1. Len(sent') = Len(sent) + 1
      BY <1>2 DEF Send2Buf, TaskInv, SendTypes
    <2> QED BY <2>1 DEF Send2Buf
  <1>5. /\ sendBuf' = Written(sendBuf, SendAt, bs)
        /\ mSendWrite' = SendAt + need - IF Fits(need) THEN 0 ELSE MSG_BUFF_LEN
    <2>1. ~(Fits(need) /\ SendAt + need > MSG_BUFF_LEN)
      BY <1>1, <1>3, Lengths
    <2> QED BY <1>3, <1>4, <2>1
  <1>6. Len(bs) = need /\ \A i \in 0 .. need - 1 : bs[i + 1] = <<Len(sent) + 1, i>>
    BY <1>1, Lengths DEF Bytes
  <1> HIDE DEF bs
  <1>7. ASSUME mSendWrite' > mSendRead
        PROVE  /\ SendAt = mSendWrite /\ mSendWrite' = mSendWrite + need
               /\ mSendWrite = mSendRead + mSendLen
    <2>1. Fits(need) /\ mSendWrite' = SendAt + need
      <3>1. CASE ~Fits(need)
        BY <1>1, <1>2, <1>3, <1>5, <1>7, <3>1, Lengths
      <3>2. CASE Fits(need)
        <4>1. mSendWrite' = SendAt + need - 0
          BY <1>5, <3>2
        <4> QED BY <1>1, <1>3, <3>2, <4>1
      <3> QED BY <3>1, <3>2
    <2> HIDE DEF need
    <2>2. SendAt >= mSendRead
      BY <1>1, <1>2, <1>3, <1>7, <2>1, Lengths DEF Fits
    <2>3. SendAt = mSendWrite
      BY <1>2, <2>2, Lengths DEF SendAt
    <2>4. mSendWrite = mSendRead + mSendLen
      BY <1>1, <1>2, <2>2, <2>3, Lengths DEF Ring
    <2> QED BY <2>1, <2>3, <2>4
  <1>8. ASSUME mSendWrite' > mSendRead, NEW i \in 0 .. (mSendLen + need) - 1
        PROVE  sendBuf'[mSendRead + i] =
                  IF i < mSendLen THEN sendBuf[mSendRead + i] ELSE <<Len(sent) + 1, i - mSendLen>>
    <2>1. /\ SendAt = mSendRead + mSendLen /\ mSendRead + mSendLen + need <= MSG_BUFF_LEN
          /\ i \in Int /\ mSendRead + i \in Slot
      <3>1. SendAt = mSendRead + mSendLen /\ mSendWrite' = mSendRead + mSendLen + need
        BY <1>1, <1>2, <1>7, <1>8
      <3>2. mSendWrite' <= MSG_BUFF_LEN
        BY <1>3, <1>5, <1>1, <1>2, <3>1, Lengths
      <3> HIDE DEF need
      <3> QED BY <1>1, <1>2, <3>1, <3>2, <1>8, Lengths DEF Slot
    <2>2. (mSendRead + i) % MSG_BUFF_LEN = mSendRead + i
      BY <2>1, Lengths, RingMod DEF Slot
    <2>3. (mSendRead + i) - SendAt = i - mSendLen
      BY <1>2, <2>1
    <2>4. sendBuf'[mSendRead + i] =
             IF (i - mSendLen) % MSG_BUFF_LEN < need THEN bs[((i - mSendLen) % MSG_BUFF_LEN) + 1]
             ELSE sendBuf[mSendRead + i]
      <3>1. SendAt \in Int /\ mSendRead + i \in Int /\ Len(bs) \in Nat
        BY <1>1, <1>3, <1>6, <2>1, Lengths DEF Slot
      <3>2. Written(sendBuf, SendAt, bs)[(mSendRead + i) % MSG_BUFF_LEN] =
               IF ((mSendRead + i) - SendAt) % MSG_BUFF_LEN < Len(bs)
               THEN bs[(((mSendRead + i) - SendAt) % MSG_BUFF_LEN) + 1]
               ELSE sendBuf[(mSendRead + i) % MSG_BUFF_LEN]
        <4> DEFINE x == mSendRead + i
                   w == SendAt
        <4>1. w \in Int /\ x \in Int /\ Len(bs) \in Nat
          BY <3>1
        <4> HIDE DEF x, w
        <4>2. Written(sendBuf, w, bs)[x % MSG_BUFF_LEN] =
                 IF (x - w) % MSG_BUFF_LEN < Len(bs) THEN bs[((x - w) % MSG_BUFF_LEN) + 1]
                 ELSE sendBuf[x % MSG_BUFF_LEN]
          BY <4>1, WrittenRing
        <4> QED BY <4>2 DEF x, w
      <3> QED BY <1>5, <1>6, <2>2, <2>3, <3>2, Zenon
    <2>5. CASE i < mSendLen
      <3>1. (i - mSendLen) % MSG_BUFF_LEN = i - mSendLen + MSG_BUFF_LEN
        <4>1. i - mSendLen \in -MSG_BUFF_LEN .. -1
          BY <1>2, <1>8, <2>5, Lengths
        <4> QED BY <4>1, Lengths, RingMod
      <3>2. ~(i - mSendLen + MSG_BUFF_LEN < need)
        <4> HIDE DEF need
        <4> QED BY <1>1, <1>2, <1>8, <2>5, Lengths
      <3> QED BY <2>4, <2>5, <3>1, <3>2
    <2>6. CASE ~(i < mSendLen)
      <3>1. i - mSendLen \in 0 .. need - 1 /\ i - mSendLen \in 0 .. MSG_BUFF_LEN - 1
        <4> HIDE DEF need
        <4> QED BY <1>1, <1>2, <1>8, <2>6, Lengths
      <3>2. (i - mSendLen) % MSG_BUFF_LEN = i - mSendLen
        BY <3>1, Lengths, RingMod
      <3>3. i - mSendLen < need
        BY <1>1, <3>1
      <3> QED BY <1>6, <2>4, <2>6, <3>1, <3>2, <3>3
    <2> QED BY <2>5, <2>6
  <1>9. ASSUME mSendWrite' > mSendRead
        PROVE  /\ \A i \in 0 .. mSendLen - 1 : sendBuf'[mSendRead + i] = sendBuf[mSendRead + i]
               /\ \A i \in 0 .. n + IntLen - 1 :
                      sendBuf'[mSendRead + mSendLen + i] = <<Len(sent) + 1, i>>
    <2>0. \A i \in 0 .. (mSendLen + need) - 1 :
             sendBuf'[mSendRead + i] =
                 IF i < mSendLen THEN sendBuf[mSendRead + i] ELSE <<Len(sent) + 1, i - mSendLen>>
      BY <1>8, <1>9, Zenon
    <2>1. \A i \in 0 .. mSendLen - 1 : sendBuf'[mSendRead + i] = sendBuf[mSendRead + i]
      <3> HIDE DEF need
      <3>1. \A i \in 0 .. mSendLen - 1 : i \in 0 .. (mSendLen + need) - 1 /\ i < mSendLen
        BY <1>1, <1>2, Lengths
      <3> QED BY <2>0, <3>1, Zenon
    <2>2. ASSUME NEW i \in 0 .. need - 1
          PROVE  sendBuf'[mSendRead + mSendLen + i] = <<Len(sent) + 1, i>>
      <3> HIDE DEF need
      <3>1. /\ mSendLen + i \in 0 .. (mSendLen + need) - 1 /\ ~(mSendLen + i < mSendLen)
            /\ (mSendLen + i) - mSendLen = i /\ mSendRead + (mSendLen + i) = mSendRead + mSendLen + i
        BY <1>1, <1>2, Lengths
      <3>2. sendBuf'[mSendRead + (mSendLen + i)] = <<Len(sent) + 1, (mSendLen + i) - mSendLen>>
        <4> DEFINE x == mSendLen + i
        <4>1. x \in 0 .. (mSendLen + need) - 1 /\ ~(x < mSendLen)
          BY <3>1
        <4> HIDE DEF x
        <4>2. sendBuf'[mSendRead + x] = <<Len(sent) + 1, x - mSendLen>>
          BY <2>0, <4>1
        <4> QED BY <4>2 DEF x
      <3> QED BY <3>1, <3>2
    <2>3. \A i \in 0 .. n + IntLen - 1 : sendBuf'[mSendRead + mSendLen + i] = <<Len(sent) + 1, i>>
      <3> HIDE DEF need
      <3> QED BY <1>0, <2>2, Zenon
    <2> QED BY <2>1, <2>3
  <1>10. ASSUME mSendWrite = mSendRead + mSendLen, mSendWrite + need <= MSG_BUFF_LEN
         PROVE  mSendWrite' = mSendWrite + need
    <2>1. SendAt = mSendWrite
      BY <1>1, <1>2, <1>10, Lengths DEF SendAt
    <2>2. Fits(need)
      BY <1>1, <1>2, <1>10, <2>1, Lengths DEF Fits
    <2>3. mSendWrite' = SendAt + need - 0
      BY <1>5, <2>2
    <2> QED BY <1>1, <1>2, <2>1, <2>3
  <1>11. /\ mSendWrite + need = mSendWrite + n + IntLen
         /\ mSendRead \in 0 .. MSG_BUFF_LEN
    BY <1>1, <1>2, Lengths
  <1>12. mSendWrite' > mSendRead =>
            /\ mSendWrite = mSendRead + mSendLen /\ mSendWrite' = mSendWrite + n + IntLen
            /\ mSendRead \in 0 .. MSG_BUFF_LEN
            /\ \A i \in 0 .. mSendLen - 1 : sendBuf'[mSendRead + i] = sendBuf[mSendRead + i]
            /\ \A i \in 0 .. n + IntLen - 1 :
                    sendBuf'[mSendRead + mSendLen + i] = <<Len(sent) + 1, i>>
    <2> HIDE DEF need
    <2> QED BY <1>7, <1>9, <1>11, Zenon
  <1>13. mSendRead \in Nat /\ mSendWrite = mSendRead + mSendLen /\ mSendWrite + n + IntLen <= MSG_BUFF_LEN
            => mSendWrite' = mSendWrite + n + IntLen
    <2> HIDE DEF need
    <2> QED BY <1>10, <1>11, Zenon
  <1> HIDE DEF need
  <1> QED BY <1>12, <1>13

LEMMA Send2BufStream ==
    ASSUME TaskInv, StreamInv, NEW n \in Lens, Send2Buf(n)
    PROVE  StreamInv' /\ StreamStep
  <1> DEFINE need == n + IntLen
  <1>1. /\ Len(sent) < MaxMsgs /\ sent' = Append(sent, n) /\ mSendLen' = mSendLen + need
        /\ UNCHANGED <<mSendRead, wire, recvBuf, mRecvRead, mRecvWrite, mRecvLen, reader, handled, faults>>
    BY DEF Send2Buf, recvVars
  <1>2. StreamStep
    BY <1>1, StreamAccepts
  <1>3. PICK off : Laid(IntLen, sent, off) /\ (faults = {} => Whole(off)) /\ Early(off)
    BY DEF StreamInv
  <1>4. PICK on :
            /\ Laid(IntLen, sent', on)
            /\ \A k \in 1 .. Len(sent) + 1 : on[k] = off[k]
            /\ on[Len(sent) + 2] = off[Len(sent) + 1] + IntLen + n
            /\ \A b, p : ByteAt(IntLen, sent, off, b, p) => ByteAt(IntLen, sent', on, b, p)
            /\ \A j \in 0 .. IntLen + n - 1 :
                  ByteAt(IntLen, sent', on, <<Len(sent) + 1, j>>, off[Len(sent) + 1] + j)
    <2>1. sent \in Seq(Nat) /\ n \in Nat /\ IntLen \in Nat
      BY LensNat, Lengths DEF TaskInv, SendTypes
    <2> QED BY <1>1, <1>3, <2>1, Extended
  <1>5. /\ Len(sent) \in Nat /\ Len(sent') = Len(sent) + 1 /\ need \in Nat /\ need > 0 /\ n \in Nat
        /\ \A k \in 1 .. Len(sent) + 1 : off[k] \in Nat
    <2>1. sent \in Seq(Lens) /\ n \in Nat /\ IntLen \in Nat /\ IntLen > 1
      BY Lengths DEF TaskInv, SendTypes
    <2>2. \A k \in 1 .. Len(sent) + 1 : off[k] \in Nat
      BY <1>3 DEF Laid
    <2>3. Len(sent) \in Nat /\ Len(sent') = Len(sent) + 1
      BY <1>1, <2>1
    <2> QED BY <2>1, <2>2, <2>3
  <1>6. /\ mSendRead \in Int /\ mSendWrite \in 0 .. MSG_BUFF_LEN /\ mSendLen \in 0 .. MSG_BUFF_LEN
        /\ mRecvLen \in 0 .. MSG_BUFF_LEN /\ Len(wire) \in Nat /\ Len(handled) \in Nat
        /\ mRecvWrite \in Nat
    BY Lengths DEF TaskInv, SendTypes, RecvTypes
  <1>7. ASSUME faults = {} PROVE Whole(on)'
    <2> DEFINE D == off[Len(handled) + 1]
               top == off[Len(sent) + 1]
    <2>1. /\ Len(handled) <= Len(sent) /\ \A k \in 1 .. Len(handled) : handled[k] = k
          /\ reader # "closed" /\ Carries(off, D)
      BY <1>3, <1>7 DEF Whole
    <2>2. on[Len(handled) + 1] = D /\ D \in Nat /\ top \in Nat
      BY <1>4, <1>5, <1>6, <2>1
    <2>3. D + mRecvLen + Len(wire) + mSendLen = top
      BY <2>1 DEF Carries
    <2>4. /\ \A i \in 0 .. mRecvLen - 1 :
                ByteAt(IntLen, sent', on, recvBuf[(mRecvRead + i) % MSG_BUFF_LEN], D + i)
          /\ \A i \in 1 .. Len(wire) : ByteAt(IntLen, sent', on, wire[i], D + mRecvLen + i - 1)
      BY <1>4, <2>1 DEF Carries, Byte
    <2>5. ASSUME mSendWrite' > mSendRead, NEW i \in 0 .. (mSendLen + need) - 1
          PROVE  ByteAt(IntLen, sent', on, sendBuf'[mSendRead + i], D + mRecvLen + Len(wire) + i)
      <3>1. /\ mSendWrite = mSendRead + mSendLen
            /\ \A j \in 0 .. mSendLen - 1 : sendBuf'[mSendRead + j] = sendBuf[mSendRead + j]
            /\ \A j \in 0 .. need - 1 : sendBuf'[mSendRead + mSendLen + j] = <<Len(sent) + 1, j>>
        <4>1. "wrapped" \notin faults
          BY <1>7
        <4>2. mSendWrite' > mSendRead =>
                 /\ mSendWrite = mSendRead + mSendLen
                 /\ \A j \in 0 .. mSendLen - 1 : sendBuf'[mSendRead + j] = sendBuf[mSendRead + j]
                 /\ \A j \in 0 .. n + IntLen - 1 : sendBuf'[mSendRead + mSendLen + j] = <<Len(sent) + 1, j>>
          BY <4>1, Send2BufPlace
        <4>3. n + IntLen - 1 = need - 1
          BY <1>5, Lengths
        <4> HIDE DEF need
        <4> QED BY <2>5, <4>2, <4>3, Zenon
      <3>2. CASE i < mSendLen
        <4>1. mSendLen > 0 /\ i \in 0 .. mSendLen - 1 /\ mSendWrite > mSendRead
          BY <1>6, <2>5, <3>1, <3>2
        <4>2. Byte(off, sendBuf[mSendRead + i], D + mRecvLen + Len(wire) + i)
          BY <2>1, <4>1 DEF Carries
        <4> QED BY <1>4, <3>1, <4>1, <4>2 DEF Byte
      <3>3. CASE ~(i < mSendLen)
        <4> HIDE DEF need
        <4>1. PICK j \in 0 .. need - 1 : i = mSendLen + j
          <5>1. i - mSendLen \in 0 .. need - 1 /\ i = mSendLen + (i - mSendLen)
            BY <1>5, <1>6, <2>5, <3>3
          <5> QED BY <5>1
        <4>2. mSendRead + i = mSendRead + mSendLen + j
          BY <1>5, <1>6, <4>1
        <4>3. D + mRecvLen + Len(wire) + i = top + j
          <5>1. D + mRecvLen + Len(wire) + (mSendLen + j) = (D + mRecvLen + Len(wire) + mSendLen) + j
            <6> HIDE DEF D
            <6> QED BY <1>5, <1>6, <2>2, <4>1
          <5> QED BY <2>3, <4>1, <5>1
        <4>4. ByteAt(IntLen, sent', on, <<Len(sent) + 1, j>>, top + j)
          <5>1. j \in 0 .. IntLen + n - 1
            BY <1>5, <4>1, Lengths DEF need
          <5> QED BY <1>4, <5>1
        <4>5. sendBuf'[mSendRead + i] = <<Len(sent) + 1, j>>
          BY <3>1, <4>1, <4>2
        <4> QED BY <4>3, <4>4, <4>5
      <3> QED BY <3>2, <3>3
    <2>6. on[Len(sent') + 1] = top + need
      BY <1>4, <1>5, <2>2, Lengths
    <2>7. D + mRecvLen + Len(wire) + (mSendLen + need) = top + need
      <3> HIDE DEF D, top, need
      <3> QED BY <1>5, <1>6, <2>2, <2>3
    <2>8. Carries(on, on[Len(handled) + 1])'
      <3> DEFINE G == on[Len(handled') + 1]
      <3>1. G = D
        BY <1>1, <2>2
      <3>2. mSendWrite' > mSendRead =>
               \A i \in 0 .. (mSendLen + need) - 1 :
                   ByteAt(IntLen, sent', on, sendBuf'[mSendRead + i], D + mRecvLen + Len(wire) + i)
        BY <2>5, Zenon
      <3> HIDE DEF D, G, need
      <3> SUFFICES
            /\ \A i \in 0 .. mRecvLen' - 1 :
                  ByteAt(IntLen, sent', on, recvBuf'[(mRecvRead' + i) % MSG_BUFF_LEN], G + i)
            /\ \A i \in 1 .. Len(wire') : ByteAt(IntLen, sent', on, wire'[i], G + mRecvLen' + i - 1)
            /\ mSendWrite' > mSendRead' => \A i \in 0 .. mSendLen' - 1 :
                  ByteAt(IntLen, sent', on, sendBuf'[mSendRead' + i], G + mRecvLen' + Len(wire') + i)
            /\ G + mRecvLen' + Len(wire') + mSendLen' = on[Len(sent') + 1]
        BY Zenon DEF Carries, Byte, G
      <3>3. /\ mSendLen' = mSendLen + need /\ mSendRead' = mSendRead /\ mRecvLen' = mRecvLen
            /\ mRecvRead' = mRecvRead /\ recvBuf' = recvBuf /\ wire' = wire
        BY <1>1 DEF need
      <3>4. G + mRecvLen' + Len(wire') + mSendLen' = on[Len(sent') + 1]
        BY <2>6, <2>7, <3>1, <3>3
      <3> QED BY <2>4, <3>1, <3>2, <3>3, <3>4, Zenon
    <2>9. Len(handled) <= Len(sent')
      BY <1>5, <1>6, <2>1
    <2> HIDE DEF D
    <2> QED BY <1>1, <2>1, <2>8, <2>9 DEF Whole
  <1>8. Early(on)'
    <2> DEFINE top == off[Len(sent) + 1]
    <2> SUFFICES ASSUME "partial" \notin faults, on[Len(sent') + 1] <= MSG_BUFF_LEN
                 PROVE  /\ faults \cap {"wrapped", "straddled"} = {}
                        /\ mSendWrite' = mSendRead + mSendLen' /\ mSendWrite' <= on[Len(sent') + 1]
                        /\ mRecvWrite = mRecvRead + mRecvLen
                        /\ mRecvWrite + Len(wire) + mSendLen' = on[Len(sent') + 1]
      BY <1>1 DEF Early
    <2>1. on[Len(sent') + 1] = top + need /\ top \in Nat /\ top + need <= MSG_BUFF_LEN /\ top <= MSG_BUFF_LEN
      BY <1>4, <1>5, Lengths
    <2> HIDE DEF top
    <2>2. /\ faults \cap {"wrapped", "straddled"} = {}
          /\ mSendWrite = mSendRead + mSendLen /\ mSendWrite <= top
          /\ mRecvWrite = mRecvRead + mRecvLen /\ mRecvWrite + Len(wire) + mSendLen = top
      BY <1>3, <2>1 DEF Early, top
    <2>3. mSendRead \in 0 .. MSG_BUFF_LEN
      BY <2>2 DEF TaskInv, SendPointers
    <2>4. mSendWrite' = mSendWrite + n + IntLen
      <3>1. mSendWrite + n + IntLen <= MSG_BUFF_LEN
        BY <1>5, <1>6, <2>1, <2>2, Lengths
      <3> QED BY <2>2, <2>3, <3>1, Send2BufPlace
    <2>5. mSendWrite' = mSendWrite + need
      BY <1>5, <1>6, <2>4, Lengths
    <2> HIDE DEF need
    <2>6. mSendWrite + need = mSendRead + (mSendLen + need) /\ mSendWrite + need <= top + need
          /\ mRecvWrite + Len(wire) + (mSendLen + need) = top + need
      <3>1. need \in Nat /\ Len(wire) \in Nat /\ mSendLen \in Int /\ mRecvWrite \in Int
            /\ mSendRead \in Int /\ top \in Nat /\ mSendWrite \in Int
        BY <1>5, <1>6, <2>1
      <3>2. mRecvWrite + Len(wire) + (mSendLen + need) = (mRecvWrite + Len(wire) + mSendLen) + need
        BY <3>1
      <3> QED BY <2>2, <3>1, <3>2
    <2> QED BY <1>1, <2>1, <2>2, <2>5, <2>6
  <1> QED BY <1>1, <1>2, <1>4, <1>7, <1>8 DEF StreamInv

(* SendBytes that takes all it is given.                                   *)
LEMMA PutWhole ==
    ASSUME NEW S, wire \in Seq(S), Len(wire) <= SndBuf, NEW bs \in Seq(S), PutOnWire(bs),
           SendBytes(bs) = Len(bs), Len(bs) > 0
    PROVE  /\ Len(wire') = Len(wire) + Len(bs)
           /\ \A i \in 1 .. Len(wire) : wire'[i] = wire[i]
           /\ \A i \in 1 .. Len(bs) : wire'[Len(wire) + i] = bs[i]
  <1>1. Taken(bs) = Len(bs)
    BY DEF SendBytes
  <1>2. SubSeq(bs, 1, Len(bs)) = bs
    OBVIOUS
  <1>3. wire' = wire \o bs
    BY <1>1, <1>2 DEF PutOnWire
  <1> QED BY <1>3

LEMMA SyncSendStream ==
    ASSUME TaskInv, StreamInv, NEW n \in Lens, SyncSend(n)
    PROVE  StreamInv' /\ StreamStep
  <1> DEFINE bs == Bytes(Len(sent) + 1, n)
             need == n + IntLen
  <1>1. /\ Len(sent) < MaxMsgs /\ mSendWrite = 0 /\ sent' = Append(sent, n) /\ PutOnWire(bs)
        /\ faults' = IF SendBytes(bs) = 0 THEN faults \cup {"partial"} ELSE faults
        /\ UNCHANGED <<sendBuf, mSendRead, mSendWrite, mSendLen,
                       recvBuf, mRecvRead, mRecvWrite, mRecvLen, reader, handled>>
    BY DEF SyncSend, recvVars
  <1>2. StreamStep
    BY <1>1, StreamAccepts
  <1>3. PICK off : Laid(IntLen, sent, off) /\ (faults = {} => Whole(off)) /\ Early(off)
    BY DEF StreamInv
  <1>4. PICK on :
            /\ Laid(IntLen, sent', on)
            /\ \A k \in 1 .. Len(sent) + 1 : on[k] = off[k]
            /\ on[Len(sent) + 2] = off[Len(sent) + 1] + IntLen + n
            /\ \A b, p : ByteAt(IntLen, sent, off, b, p) => ByteAt(IntLen, sent', on, b, p)
            /\ \A j \in 0 .. IntLen + n - 1 :
                  ByteAt(IntLen, sent', on, <<Len(sent) + 1, j>>, off[Len(sent) + 1] + j)
    <2>1. sent \in Seq(Nat) /\ n \in Nat /\ IntLen \in Nat
      BY LensNat, Lengths DEF TaskInv, SendTypes
    <2> QED BY <1>1, <1>3, <2>1, Extended
  <1>5. /\ Len(sent) \in Nat /\ Len(sent') = Len(sent) + 1 /\ need \in Nat /\ need > 0 /\ n \in Nat
        /\ \A k \in 1 .. Len(sent) + 1 : off[k] \in Nat
    <2>1. sent \in Seq(Lens) /\ n \in Nat /\ IntLen \in Nat /\ IntLen > 1
      BY Lengths DEF TaskInv, SendTypes
    <2>2. \A k \in 1 .. Len(sent) + 1 : off[k] \in Nat
      BY <1>3 DEF Laid
    <2>3. Len(sent) \in Nat /\ Len(sent') = Len(sent) + 1
      BY <1>1, <2>1
    <2> QED BY <2>1, <2>2, <2>3
  <1>6. /\ mSendRead \in Int /\ mSendLen \in 0 .. MSG_BUFF_LEN
        /\ mRecvLen \in 0 .. MSG_BUFF_LEN /\ Len(wire) \in Nat /\ Len(handled) \in Nat
        /\ mRecvWrite \in Nat /\ MSG_BUFF_LEN \in Nat
    BY Lengths DEF TaskInv, SendTypes, RecvTypes
  <1>7. Len(bs) = need /\ \A i \in 1 .. need : bs[i] = <<Len(sent) + 1, i - 1>>
    BY <1>5, Lengths DEF Bytes
  <1>8. "wrapped" \notin faults => mSendRead = 0 /\ mSendLen = 0
    BY <1>1 DEF TaskInv, SendPointers, Ring
  <1>9. ASSUME "partial" \notin faults'
        PROVE  /\ faults' = faults /\ Len(wire') = Len(wire) + need
               /\ \A i \in 1 .. Len(wire) : wire'[i] = wire[i]
               /\ \A i \in 1 .. need : wire'[Len(wire) + i] = <<Len(sent) + 1, i - 1>>
    <2> DEFINE S == Cell \cup ((1 .. Len(sent) + 1) \X Slot)
    <2>1. wire \in Seq(S) /\ Len(wire) <= SndBuf
      <3>1. Here \subseteq S
        BY <1>5 DEF Here, Cell
      <3> QED BY <3>1 DEF TaskInv, RecvTypes
    <2>2. bs \in Seq(S)
      <3>1. bs \in Seq({Len(sent) + 1} \X Slot)
        BY <1>5, BytesType, Lengths
      <3>2. ({Len(sent) + 1} \X Slot) \subseteq S
        BY <1>5
      <3> QED BY <3>1, <3>2
    <2> HIDE DEF S, bs
    <2>3. SendBytes(bs) = Len(bs) /\ Len(bs) > 0 /\ faults' = faults
      <3>1. SendBytes(bs) \in {0, Len(bs)}
        BY DEF SendBytes
      <3> QED BY <1>1, <1>5, <1>7, <1>9, <3>1
    <2>4. /\ Len(wire') = Len(wire) + Len(bs)
          /\ \A i \in 1 .. Len(wire) : wire'[i] = wire[i]
          /\ \A i \in 1 .. Len(bs) : wire'[Len(wire) + i] = bs[i]
      BY <1>1, <2>1, <2>2, <2>3, PutWhole
    <2> HIDE DEF need
    <2> QED BY <1>7, <2>3, <2>4
  <1>10. on[Len(sent') + 1] = off[Len(sent) + 1] + need /\ off[Len(sent) + 1] \in Nat
    BY <1>4, <1>5, Lengths
  <1>11. IntLen + n - 1 = need - 1
    BY <1>5, Lengths
  <1> HIDE DEF bs, need
  <1>12. ASSUME faults' = {} PROVE Whole(on)'
    <2> DEFINE D == off[Len(handled) + 1]
               top == off[Len(sent) + 1]
    <2>1. faults = {} /\ "partial" \notin faults'
      BY <1>9, <1>12
    <2>2. /\ Len(handled) <= Len(sent) /\ \A k \in 1 .. Len(handled) : handled[k] = k
          /\ reader # "closed" /\ Carries(off, D)
      BY <1>3, <2>1 DEF Whole
    <2>3. on[Len(handled) + 1] = D /\ D \in Nat /\ top \in Nat
      BY <1>4, <1>5, <1>6, <2>2
    <2>4. D + mRecvLen + Len(wire) = top /\ mSendLen = 0 /\ mSendRead = 0
      <3>1. mSendLen = 0 /\ mSendRead = 0
        BY <1>8, <2>1
      <3>2. D + mRecvLen + Len(wire) + mSendLen = top
        BY <2>2 DEF Carries
      <3> HIDE DEF D, top
      <3> QED BY <1>6, <2>3, <3>1, <3>2
    <2>5. /\ \A i \in 0 .. mRecvLen - 1 :
                ByteAt(IntLen, sent', on, recvBuf[(mRecvRead + i) % MSG_BUFF_LEN], D + i)
          /\ \A i \in 1 .. Len(wire) : ByteAt(IntLen, sent', on, wire[i], D + mRecvLen + i - 1)
      BY <1>4, <2>2 DEF Carries, Byte
    <2>6. ASSUME NEW i \in 1 .. Len(wire) + need
          PROVE  ByteAt(IntLen, sent', on, wire'[i], D + mRecvLen + i - 1)
      <3>1. CASE i <= Len(wire)
        <4>1. i \in 1 .. Len(wire)
          BY <1>5, <1>6, <3>1
        <4> QED BY <1>9, <2>1, <2>5, <4>1
      <3>2. CASE ~(i <= Len(wire))
        <4>1. PICK j \in 1 .. need : i = Len(wire) + j
          <5>1. i - Len(wire) \in 1 .. need /\ i = Len(wire) + (i - Len(wire))
            BY <1>5, <1>6, <3>2
          <5> QED BY <5>1
        <4>2. wire'[i] = <<Len(sent) + 1, j - 1>>
          BY <1>9, <2>1, <4>1
        <4>3. D + mRecvLen + i - 1 = top + (j - 1)
          <5>1. D + mRecvLen + (Len(wire) + j) - 1 = (D + mRecvLen + Len(wire)) + (j - 1)
            <6> HIDE DEF D
            <6> QED BY <1>5, <1>6, <2>3, <4>1
          <5> QED BY <2>4, <4>1, <5>1
        <4>4. j - 1 \in 0 .. IntLen + n - 1
          BY <1>5, <1>11, <4>1
        <4> QED BY <1>4, <4>2, <4>3, <4>4
      <3> QED BY <3>1, <3>2
    <2>7. D + mRecvLen + (Len(wire) + need) + mSendLen = top + need
      <3> HIDE DEF D, top
      <3> QED BY <1>5, <1>6, <2>3, <2>4
    <2>8. Carries(on, on[Len(handled) + 1])'
      <3> DEFINE G == on[Len(handled') + 1]
      <3>1. G = D
        BY <1>1, <2>3
      <3>2. /\ mSendLen' = 0 /\ mSendRead' = mSendRead /\ mSendWrite' = 0 /\ mRecvLen' = mRecvLen
            /\ mRecvRead' = mRecvRead /\ recvBuf' = recvBuf /\ Len(wire') = Len(wire) + need
        BY <1>1, <1>9, <2>1, <2>4
      <3>3. G + mRecvLen' + Len(wire') + mSendLen' = on[Len(sent') + 1]
        BY <1>10, <2>4, <2>7, <3>1, <3>2
      <3>4. ~(mSendWrite' > mSendRead')
        BY <2>4, <3>2
      <3>5. \A i \in 1 .. Len(wire') : ByteAt(IntLen, sent', on, wire'[i], D + mRecvLen + i - 1)
        BY <2>6, <3>2, Zenon
      <3>6. G = on[Len(handled') + 1]
        OBVIOUS
      <3> HIDE DEF D, G
      <3> QED BY <2>5, <3>1, <3>2, <3>3, <3>4, <3>5, <3>6, Zenon DEF Carries, Byte
    <2>9. Len(handled) <= Len(sent')
      BY <1>5, <1>6, <2>2
    <2> HIDE DEF D
    <2> QED BY <1>1, <2>2, <2>8, <2>9 DEF Whole
  <1>13. Early(on)'
    <2> DEFINE top == off[Len(sent) + 1]
    <2> SUFFICES ASSUME "partial" \notin faults', on[Len(sent') + 1] <= MSG_BUFF_LEN
                 PROVE  /\ faults' \cap {"wrapped", "straddled"} = {}
                        /\ mSendWrite' = mSendRead' + mSendLen' /\ mSendWrite' <= on[Len(sent') + 1]
                        /\ mRecvWrite' = mRecvRead' + mRecvLen'
                        /\ mRecvWrite' + Len(wire') + mSendLen' = on[Len(sent') + 1]
      BY DEF Early
    <2>1. faults' = faults /\ Len(wire') = Len(wire) + need
      BY <1>9
    <2>2. top \in Nat /\ top <= MSG_BUFF_LEN
      BY <1>5, <1>6, <1>10
    <2>3. /\ faults \cap {"wrapped", "straddled"} = {}
          /\ mSendWrite = mSendRead + mSendLen /\ mSendWrite <= top
          /\ mRecvWrite = mRecvRead + mRecvLen /\ mRecvWrite + Len(wire) + mSendLen = top
      BY <1>3, <2>1, <2>2 DEF Early
    <2>4. mSendRead = 0 /\ mSendLen = 0
      BY <1>8, <2>3
    <2>5. on[Len(sent') + 1] = top + need
      BY <1>10
    <2> HIDE DEF top
    <2>6. mRecvWrite + (Len(wire) + need) + 0 = top + need /\ 0 <= top + need
      BY <1>5, <1>6, <2>2, <2>3, <2>4
    <2> QED BY <1>1, <2>1, <2>3, <2>4, <2>5, <2>6
  <1> QED BY <1>2, <1>4, <1>12, <1>13 DEF StreamInv
(* A round of TaskSend hands the waiting bytes to the kernel, all or none. *)
LEMMA SendForwardStream ==
    ASSUME TaskInv, StreamInv, SendForward
    PROVE  StreamInv' /\ StreamStep
  <1> DEFINE bs == Straight(sendBuf, mSendRead, mSendLen)
  <1>1. /\ mSendLen > 0 /\ mSendWrite > mSendRead /\ PutOnWire(bs)
        /\ mSendLen' = mSendLen - SendBytes(bs) /\ mSendRead' = mSendRead + SendBytes(bs)
        /\ faults' = IF Cut(bs) THEN faults \cup {"partial"} ELSE faults
        /\ UNCHANGED <<sent, sendBuf, mSendWrite, recvBuf, mRecvRead, mRecvWrite, mRecvLen, reader, handled>>
    BY DEF SendForward, recvVars
  <1>2. StreamStep
    <2>1. faults \subseteq faults'
      BY <1>1
    <2> QED BY <1>1, <2>1, StreamStill
  <1>3. PICK off : Laid(IntLen, sent, off) /\ (faults = {} => Whole(off)) /\ Early(off)
    BY DEF StreamInv
  <1>4. /\ mSendRead \in Int /\ mSendLen \in 0 .. MSG_BUFF_LEN /\ mSendWrite \in 0 .. MSG_BUFF_LEN
        /\ mRecvLen \in 0 .. MSG_BUFF_LEN /\ Len(wire) \in Nat /\ Len(handled) \in Nat
        /\ mRecvWrite \in Nat /\ MSG_BUFF_LEN \in Nat /\ Len(sent) \in Nat
        /\ wire \in Seq(Here) /\ Len(wire) <= SndBuf
    BY Lengths DEF TaskInv, SendTypes, RecvTypes
  <1>5. bs \in Seq(Here) /\ Len(bs) = mSendLen
    <2>1. mSendLen \in Nat /\ sendBuf \in [Slot -> Here] /\ Stale \in Here
      BY Lengths DEF TaskInv, SendTypes, Here
    <2> QED BY <1>4, <2>1, StraightType
  <1>6. ASSUME "wrapped" \notin faults
        PROVE  /\ mSendWrite = mSendRead + mSendLen
               /\ \A i \in 1 .. mSendLen : bs[i] = sendBuf[mSendRead + i - 1]
    <2>1. mSendWrite = mSendRead + mSendLen /\ mSendRead \in 0 .. MSG_BUFF_LEN
      BY <1>1, <1>4, <1>6, Lengths DEF TaskInv, SendPointers, Ring
    <2>2. \A i \in 1 .. mSendLen : mSendRead + i - 1 \in Slot
      BY <1>4, <2>1 DEF Slot
    <2> QED BY <2>1, <2>2 DEF Straight
  <1> HIDE DEF bs
  <1>7. ASSUME "partial" \notin faults'
        PROVE  /\ faults' = faults
               /\ \/ /\ Len(wire') = Len(wire) + mSendLen /\ mSendLen' = 0 /\ mSendRead' = mSendRead + mSendLen
                     /\ \A i \in 1 .. Len(wire) : wire'[i] = wire[i]
                     /\ \A i \in 1 .. mSendLen : wire'[Len(wire) + i] = bs[i]
                  \/ wire' = wire /\ mSendLen' = mSendLen /\ mSendRead' = mSendRead
    <2>1. ~Cut(bs) /\ faults' = faults
      BY <1>1, <1>7
    <2>2. SendBytes(bs) \in {0, mSendLen} /\ wire' = wire \o SubSeq(bs, 1, Taken(bs))
          /\ (SendBytes(bs) # mSendLen => Taken(bs) = 0)
      BY <1>1, <1>4, <1>5, <2>1, PutType
    <2>3. CASE SendBytes(bs) = mSendLen
      <3>1. /\ Len(wire') = Len(wire) + mSendLen
            /\ \A i \in 1 .. Len(wire) : wire'[i] = wire[i]
            /\ \A i \in 1 .. mSendLen : wire'[Len(wire) + i] = bs[i]
        <4>1. SendBytes(bs) = Len(bs) /\ Len(bs) > 0
          BY <1>1, <1>5, <2>3
        <4> QED BY <1>1, <1>4, <1>5, <4>1, PutWhole
      <3> QED BY <1>1, <1>4, <2>1, <2>3, <3>1
    <2>4. CASE SendBytes(bs) # mSendLen
      <3>1. SubSeq(bs, 1, 0) = << >> /\ wire \o << >> = wire
        BY <1>4, <1>5
      <3> QED BY <1>1, <1>4, <2>1, <2>2, <2>4, <3>1
    <2> QED BY <2>3, <2>4
  <1>8. ASSUME faults' = {} PROVE Whole(off)'
    <2> DEFINE D == off[Len(handled) + 1]
               top == off[Len(sent) + 1]
    <2>1. faults = {} /\ "partial" \notin faults' /\ "wrapped" \notin faults
      BY <1>7, <1>8
    <2>2. /\ Len(handled) <= Len(sent) /\ \A k \in 1 .. Len(handled) : handled[k] = k
          /\ reader # "closed" /\ Carries(off, D)
      BY <1>3, <2>1 DEF Whole
    <2>3. D \in Nat
      BY <1>3, <1>4, <2>2 DEF Laid
    <2> HIDE DEF D, top
    <2>4. Carries(off, D)'
      <3>1. CASE wire' = wire /\ mSendLen' = mSendLen /\ mSendRead' = mSendRead
        BY <1>1, <2>2, <3>1 DEF Carries, Byte, D
      <3>2. CASE /\ Len(wire') = Len(wire) + mSendLen /\ mSendLen' = 0 /\ mSendRead' = mSendRead + mSendLen
                 /\ \A i \in 1 .. Len(wire) : wire'[i] = wire[i]
                 /\ \A i \in 1 .. mSendLen : wire'[Len(wire) + i] = bs[i]
        <4>1. \A i \in 1 .. Len(wire') : ByteAt(IntLen, sent, off, wire'[i], D + mRecvLen + i - 1)
          <5> SUFFICES ASSUME NEW i \in 1 .. Len(wire) + mSendLen
                       PROVE  ByteAt(IntLen, sent, off, wire'[i], D + mRecvLen + i - 1)
            BY <3>2
          <5>1. CASE i <= Len(wire)
            <6>1. i \in 1 .. Len(wire)
              BY <1>4, <5>1
            <6> QED BY <2>2, <3>2, <6>1 DEF Carries, Byte
          <5>2. CASE ~(i <= Len(wire))
            <6>1. PICK j \in 0 .. mSendLen - 1 : i = Len(wire) + (j + 1)
              <7>1. /\ i - Len(wire) - 1 \in 0 .. mSendLen - 1
                    /\ i = Len(wire) + ((i - Len(wire) - 1) + 1)
                BY <1>4, <5>2
              <7> QED BY <7>1
            <6>2. wire'[i] = sendBuf[mSendRead + j]
              <7>1. j + 1 \in 1 .. mSendLen /\ mSendRead + (j + 1) - 1 = mSendRead + j
                BY <1>4, <6>1
              <7>2. wire'[i] = bs[j + 1] /\ bs[j + 1] = sendBuf[mSendRead + (j + 1) - 1]
                BY <1>6, <2>1, <3>2, <6>1, <7>1
              <7> QED BY <7>1, <7>2
            <6>3. Byte(off, sendBuf[mSendRead + j], D + mRecvLen + Len(wire) + j)
              BY <1>1, <2>2, <6>1 DEF Carries
            <6>4. D + mRecvLen + i - 1 = D + mRecvLen + Len(wire) + j
              BY <1>4, <2>3, <6>1
            <6> QED BY <6>2, <6>3, <6>4 DEF Byte
          <5> QED BY <5>1, <5>2
        <4>2. D + mRecvLen + Len(wire') + mSendLen' = off[Len(sent) + 1]
          <5>1. D + mRecvLen + Len(wire) + mSendLen = off[Len(sent) + 1]
            BY <2>2 DEF Carries
          <5>2. D + mRecvLen + (Len(wire) + mSendLen) + 0 = D + mRecvLen + Len(wire) + mSendLen
            BY <1>4, <2>3
          <5> QED BY <3>2, <5>1, <5>2
        <4>3. \A i \in 0 .. mRecvLen - 1 :
                 ByteAt(IntLen, sent, off, recvBuf[(mRecvRead + i) % MSG_BUFF_LEN], D + i)
          BY <2>2 DEF Carries, Byte
        <4>4. ~(mSendWrite > mSendRead')
          BY <1>4, <1>6, <2>1, <3>2
        <4>5. D' = D
          BY <1>1 DEF D
        <4> QED BY <1>1, <3>2, <4>1, <4>2, <4>3, <4>4, <4>5 DEF Carries, Byte
      <3> QED BY <1>7, <2>1, <3>1, <3>2
    <2> QED BY <1>1, <2>2, <2>4 DEF Whole, D
  <1>9. Early(off)'
    <2> DEFINE top == off[Len(sent) + 1]
    <2> SUFFICES ASSUME "partial" \notin faults', top <= MSG_BUFF_LEN
                 PROVE  /\ faults' \cap {"wrapped", "straddled"} = {}
                        /\ mSendWrite' = mSendRead' + mSendLen' /\ mSendWrite' <= top
                        /\ mRecvWrite' = mRecvRead' + mRecvLen'
                        /\ mRecvWrite' + Len(wire') + mSendLen' = top
      BY <1>1 DEF Early
    <2>1. faults' = faults
      BY <1>7
    <2>2. /\ faults \cap {"wrapped", "straddled"} = {}
          /\ mSendWrite = mSendRead + mSendLen /\ mSendWrite <= top
          /\ mRecvWrite = mRecvRead + mRecvLen /\ mRecvWrite + Len(wire) + mSendLen = top
      BY <1>3, <2>1 DEF Early
    <2> HIDE DEF top
    <2>3. mSendRead + mSendLen = (mSendRead + mSendLen) + 0
          /\ mRecvWrite + (Len(wire) + mSendLen) + 0 = mRecvWrite + Len(wire) + mSendLen
      BY <1>4
    <2> QED BY <1>1, <1>7, <2>1, <2>2, <2>3
  <1> QED BY <1>1, <1>2, <1>3, <1>8, <1>9 DEF StreamInv

(* From a buffer that wraps nothing is sent without a fault, and it does   *)
(* not wrap early.                                                         *)
LEMMA SendWrappedStream ==
    ASSUME TaskInv, StreamInv, SendWrapped
    PROVE  StreamInv' /\ StreamStep
  <1>1. /\ mSendLen > 0 /\ mSendWrite <= mSendRead
        /\ "wrapped" \in faults' /\ faults \subseteq faults'
        /\ UNCHANGED <<sent, handled>>
    BY DEF SendWrapped, recvVars
  <1>2. StreamStep
    BY <1>1, StreamStill
  <1>3. PICK off : Laid(IntLen, sent, off) /\ (faults = {} => Whole(off)) /\ Early(off)
    BY DEF StreamInv
  <1>4. ~(mSendWrite = mSendRead + mSendLen)
    BY <1>1, Lengths DEF TaskInv, SendTypes
  <1>5. Early(off)'
    BY <1>1, <1>3, <1>4 DEF Early
  <1> QED BY <1>1, <1>2, <1>3, <1>5 DEF StreamInv

LEMMA SendOtherStream ==
    ASSUME StreamInv, StartTaskSend \/ SendUndefined \/ EndTaskSend \/ EndTaskRecv \/ UNCHANGED vars
    PROVE  StreamInv' /\ StreamStep
  <1>1. /\ UNCHANGED <<sent, sendBuf, mSendRead, mSendWrite, mSendLen, wire, faults,
                       recvBuf, mRecvRead, mRecvWrite, mRecvLen, handled>>
        /\ reader' = reader \/ reader' = "idle"
    BY DEF StartTaskSend, SendUndefined, EndTaskSend, EndTaskRecv, vars, sendVars, recvVars
  <1>2. StreamStep
    BY <1>1, StreamStill
  <1>3. PICK off : Laid(IntLen, sent, off) /\ (faults = {} => Whole(off)) /\ Early(off)
    BY DEF StreamInv
  <1>4. Laid(IntLen, sent', off) /\ (faults' = {} => Whole(off)') /\ Early(off)'
    BY <1>1, <1>3 DEF Whole, Carries, Byte, Early
  <1> QED BY <1>2, <1>4 DEF StreamInv
-----------------------------------------------------------------------------
(* recv() moves the first bytes of the wire behind those in the ring.      *)
LEMMA RecvPlaces ==
    ASSUME TaskInv, StartTaskRecv
    PROVE  \E k \in 1 .. Len(wire) :
              /\ mRecvLen' = mRecvLen + k /\ mRecvLen' <= MSG_BUFF_LEN /\ mRecvWrite' = Refill + k
              /\ Len(wire') = Len(wire) - k /\ \A i \in 1 .. Len(wire) - k : wire'[i] = wire[k + i]
              /\ \A i \in 0 .. mRecvLen - 1 :
                    recvBuf'[(mRecvRead + i) % MSG_BUFF_LEN] = recvBuf[(mRecvRead + i) % MSG_BUFF_LEN]
              /\ \A i \in 1 .. k : recvBuf'[(mRecvRead + mRecvLen + i - 1) % MSG_BUFF_LEN] = wire[i]
  <1>1. PICK k \in 1 .. Min({Room(Refill), Len(wire)}) :
            /\ recvBuf' = Written(recvBuf, Refill, SubSeq(wire, 1, k))
            /\ mRecvLen' = mRecvLen + k /\ mRecvWrite' = Refill + k
            /\ wire' = SubSeq(wire, k + 1, Len(wire))
    BY DEF StartTaskRecv
  <1>2. mRecvLen < MSG_BUFF_LEN /\ mRecvLen \in Nat /\ mRecvRead \in 0 .. MSG_BUFF_LEN
        /\ mRecvWrite \in 0 .. MSG_BUFF_LEN /\ wire \in Seq(Here) /\ Len(wire) \in Nat
        /\ MSG_BUFF_LEN \in Nat /\ MSG_BUFF_LEN > 0
    BY Lengths DEF StartTaskRecv, TaskInv, RecvTypes
  <1>3. Refill \in 0 .. MSG_BUFF_LEN /\ Room(Refill) \in 1 .. MSG_BUFF_LEN - mRecvLen
    BY <1>2, RecvRoom DEF TaskInv
  <1>4. k \in 1 .. Len(wire) /\ mRecvLen + k <= MSG_BUFF_LEN
    <2>1. Min({Room(Refill), Len(wire)}) = IF Room(Refill) <= Len(wire) THEN Room(Refill) ELSE Len(wire)
      <3>1. Room(Refill) \in Int /\ Len(wire) \in Int
        BY <1>2, <1>3
      <3> QED BY <3>1, LeastOf2
    <2> QED BY <1>2, <1>3, <2>1
  <1>5. /\ Len(wire') = Len(wire) - k /\ \A i \in 1 .. Len(wire) - k : wire'[i] = wire[k + i]
        /\ Len(SubSeq(wire, 1, k)) = k /\ \A i \in 1 .. k : SubSeq(wire, 1, k)[i] = wire[i]
    BY <1>1, <1>2, <1>4
  <1>6. mRecvRead + mRecvLen - Refill \in {0, MSG_BUFF_LEN}
    BY <1>2 DEF TaskInv, RecvPointers, Ring, Refill
  <1> DEFINE bs == SubSeq(wire, 1, k)
  <1> HIDE DEF bs
  <1>7. ASSUME NEW i \in 0 .. mRecvLen + k
        PROVE  LET e == IF i < mRecvLen THEN (i - mRecvLen) + MSG_BUFF_LEN ELSE i - mRecvLen IN
               e < MSG_BUFF_LEN =>
                 recvBuf'[(mRecvRead + i) % MSG_BUFF_LEN] =
                    IF e < k THEN bs[e + 1] ELSE recvBuf[(mRecvRead + i) % MSG_BUFF_LEN]
    <2> DEFINE e == IF i < mRecvLen THEN (i - mRecvLen) + MSG_BUFF_LEN ELSE i - mRecvLen
               x == mRecvRead + i
    <2> SUFFICES ASSUME e < MSG_BUFF_LEN
                 PROVE  recvBuf'[x % MSG_BUFF_LEN] =
                            IF e < k THEN bs[e + 1] ELSE recvBuf[x % MSG_BUFF_LEN]
      OBVIOUS
    <2>1. x \in Int /\ Refill \in Int /\ e \in 0 .. MSG_BUFF_LEN - 1
      BY <1>2, <1>3, <1>4
    <2>2. (x - Refill) % MSG_BUFF_LEN = e
      <3>1. PICK q \in {-2, -1, 0, 1, 2} : x - Refill = e + q * MSG_BUFF_LEN
        <4>1. x - Refill = (i - mRecvLen) + (mRecvRead + mRecvLen - Refill)
          BY <1>2, <1>3
        <4>2. \E q \in {-2, -1, 0, 1, 2} : x - Refill = e + q * MSG_BUFF_LEN
          <5>1. x - Refill \in {e + (-1) * MSG_BUFF_LEN, e + 0 * MSG_BUFF_LEN, e + 1 * MSG_BUFF_LEN}
            BY <1>2, <1>6, <4>1
          <5> QED BY <5>1
        <4> QED BY <4>2
      <3>2. (e + q * MSG_BUFF_LEN) % MSG_BUFF_LEN = e % MSG_BUFF_LEN
        BY <1>2, <2>1, SameCell
      <3>3. e % MSG_BUFF_LEN = e
        BY <1>2, <2>1, RingMod
      <3> QED BY <3>1, <3>2, <3>3
    <2>3. Len(bs) = k /\ k \in Nat
      BY <1>4, <1>5 DEF bs
    <2> HIDE DEF x, e
    <2>4. Written(recvBuf, Refill, bs)[x % MSG_BUFF_LEN] =
             IF (x - Refill) % MSG_BUFF_LEN < Len(bs) THEN bs[((x - Refill) % MSG_BUFF_LEN) + 1]
             ELSE recvBuf[x % MSG_BUFF_LEN]
      BY <2>1, <2>3, WrittenRing
    <2> QED BY <1>1, <2>2, <2>3, <2>4 DEF bs
  <1>8. ASSUME NEW i \in 0 .. mRecvLen - 1
        PROVE  recvBuf'[(mRecvRead + i) % MSG_BUFF_LEN] = recvBuf[(mRecvRead + i) % MSG_BUFF_LEN]
    <2>1. /\ i \in 0 .. mRecvLen + k /\ i < mRecvLen
          /\ (i - mRecvLen) + MSG_BUFF_LEN < MSG_BUFF_LEN /\ ~((i - mRecvLen) + MSG_BUFF_LEN < k)
      BY <1>2, <1>4
    <2> QED BY <1>7, <2>1
  <1>9. ASSUME NEW i \in 1 .. k
        PROVE  recvBuf'[(mRecvRead + mRecvLen + i - 1) % MSG_BUFF_LEN] = wire[i]
    <2> DEFINE j == mRecvLen + (i - 1)
    <2>1. /\ j \in 0 .. mRecvLen + k /\ ~(j < mRecvLen) /\ j - mRecvLen = i - 1
          /\ i - 1 < MSG_BUFF_LEN /\ i - 1 < k /\ (i - 1) + 1 = i
          /\ mRecvRead + mRecvLen + i - 1 = mRecvRead + j
      BY <1>2, <1>4
    <2> HIDE DEF j
    <2>2. recvBuf'[(mRecvRead + j) % MSG_BUFF_LEN] = bs[i]
      BY <1>7, <2>1
    <2>3. bs[i] = wire[i]
      BY <1>5 DEF bs
    <2> QED BY <2>1, <2>2, <2>3
  <1> QED BY <1>1, <1>4, <1>5, <1>8, <1>9

LEMMA StartTaskRecvStream ==
    ASSUME TaskInv, StreamInv, StartTaskRecv
    PROVE  StreamInv' /\ StreamStep
  <1>1. /\ reader = "idle" /\ reader' = "parsing"
        /\ UNCHANGED <<sent, sendBuf, mSendRead, mSendWrite, mSendLen, mRecvRead, handled, faults>>
    BY DEF StartTaskRecv, sendVars
  <1>2. StreamStep
    BY <1>1, StreamStill
  <1>3. PICK off : Laid(IntLen, sent, off) /\ (faults = {} => Whole(off)) /\ Early(off)
    BY DEF StreamInv
  <1>4. PICK k \in 1 .. Len(wire) :
              /\ mRecvLen' = mRecvLen + k /\ mRecvLen' <= MSG_BUFF_LEN /\ mRecvWrite' = Refill + k
              /\ Len(wire') = Len(wire) - k /\ \A i \in 1 .. Len(wire) - k : wire'[i] = wire[k + i]
              /\ \A i \in 0 .. mRecvLen - 1 :
                    recvBuf'[(mRecvRead + i) % MSG_BUFF_LEN] = recvBuf[(mRecvRead + i) % MSG_BUFF_LEN]
              /\ \A i \in 1 .. k : recvBuf'[(mRecvRead + mRecvLen + i - 1) % MSG_BUFF_LEN] = wire[i]
    BY RecvPlaces
  <1>5. /\ mRecvLen \in Nat /\ Len(wire) \in Nat /\ mSendLen \in Nat /\ Len(sent) \in Nat
        /\ Len(handled) \in Nat /\ mRecvWrite \in 0 .. MSG_BUFF_LEN /\ mRecvRead \in 0 .. MSG_BUFF_LEN
        /\ MSG_BUFF_LEN \in Nat /\ k \in Nat
    BY Lengths DEF TaskInv, SendTypes, RecvTypes
  <1>6. ASSUME faults = {} PROVE Whole(off)'
    <2> DEFINE D == off[Len(handled) + 1]
    <2>1. /\ Len(handled) <= Len(sent) /\ \A i \in 1 .. Len(handled) : handled[i] = i
          /\ reader # "closed" /\ Carries(off, D)
      BY <1>3, <1>6 DEF Whole
    <2>2. D \in Nat
      BY <1>3, <1>5, <2>1 DEF Laid
    <2>3. D' = D
      BY <1>1
    <2> HIDE DEF D
    <2>4. ASSUME NEW i \in 0 .. (mRecvLen + k) - 1
          PROVE  ByteAt(IntLen, sent, off, recvBuf'[(mRecvRead + i) % MSG_BUFF_LEN], D + i)
      <3>1. CASE i < mRecvLen
        <4>1. i \in 0 .. mRecvLen - 1
          BY <1>5, <3>1
        <4> QED BY <1>4, <2>1, <4>1 DEF Carries, Byte
      <3>2. CASE ~(i < mRecvLen)
        <4>1. PICK j \in 1 .. k : i = mRecvLen + (j - 1)
          <5>1. i - mRecvLen + 1 \in 1 .. k /\ i = mRecvLen + ((i - mRecvLen + 1) - 1)
            BY <1>5, <3>2
          <5> QED BY <5>1
        <4>2. mRecvRead + i = mRecvRead + mRecvLen + j - 1
          BY <1>5, <4>1
        <4>3. D + i = D + mRecvLen + j - 1
          BY <1>5, <2>2, <4>1
        <4>4. j \in 1 .. Len(wire)
          BY <1>5, <4>1
        <4>5. recvBuf'[(mRecvRead + i) % MSG_BUFF_LEN] = wire[j]
          BY <1>4, <4>1, <4>2
        <4> QED BY <2>1, <4>3, <4>4, <4>5 DEF Carries, Byte
      <3> QED BY <3>1, <3>2
    <2>5. ASSUME NEW i \in 1 .. Len(wire) - k
          PROVE  ByteAt(IntLen, sent, off, wire'[i], D + (mRecvLen + k) + i - 1)
      <3>1. k + i \in 1 .. Len(wire) /\ D + (mRecvLen + k) + i - 1 = D + mRecvLen + (k + i) - 1
        BY <1>5, <2>2
      <3> QED BY <1>4, <2>1, <3>1 DEF Carries, Byte
    <2>6. /\ \A i \in 0 .. mSendLen - 1 :
                D + (mRecvLen + k) + (Len(wire) - k) + i = D + mRecvLen + Len(wire) + i
          /\ D + (mRecvLen + k) + (Len(wire) - k) + mSendLen = D + mRecvLen + Len(wire) + mSendLen
      BY <1>5, <2>2
    <2>7. Carries(off, D)'
      <3>1. mSendWrite > mSendRead =>
               \A i \in 0 .. mSendLen - 1 :
                   ByteAt(IntLen, sent, off, sendBuf[mSendRead + i], D + mRecvLen + Len(wire) + i)
        BY <2>1, Zenon DEF Carries, Byte
      <3>2. mSendWrite > mSendRead =>
               \A i \in 0 .. mSendLen - 1 :
                   ByteAt(IntLen, sent, off, sendBuf[mSendRead + i],
                          D + (mRecvLen + k) + (Len(wire) - k) + i)
        BY <2>6, <3>1
      <3>3. D + mRecvLen + Len(wire) + mSendLen = off[Len(sent) + 1]
        BY <2>1, Zenon DEF Carries
      <3> QED BY <1>1, <1>4, <2>3, <2>4, <2>5, <2>6, <3>2, <3>3, Zenon DEF Carries, Byte
    <2> QED BY <1>1, <2>1, <2>7 DEF Whole, D
  <1>7. Early(off)'
    <2> DEFINE top == off[Len(sent) + 1]
    <2> SUFFICES ASSUME "partial" \notin faults, top <= MSG_BUFF_LEN
                 PROVE  /\ faults \cap {"wrapped", "straddled"} = {}
                        /\ mSendWrite = mSendRead + mSendLen /\ mSendWrite <= top
                        /\ mRecvWrite' = mRecvRead + mRecvLen'
                        /\ mRecvWrite' + Len(wire') + mSendLen = top
      BY <1>1 DEF Early
    <2>1. /\ faults \cap {"wrapped", "straddled"} = {}
          /\ mSendWrite = mSendRead + mSendLen /\ mSendWrite <= top
          /\ mRecvWrite = mRecvRead + mRecvLen /\ mRecvWrite + Len(wire) + mSendLen = top
      BY <1>3 DEF Early
    <2>2. Refill = mRecvWrite
      BY <1>5, <2>1 DEF Refill
    <2> HIDE DEF top
    <2>3. mRecvWrite + k = mRecvRead + (mRecvLen + k)
          /\ (mRecvWrite + k) + (Len(wire) - k) + mSendLen = mRecvWrite + Len(wire) + mSendLen
      BY <1>5, <2>1
    <2> QED BY <1>4, <2>1, <2>2, <2>3
  <1> QED BY <1>1, <1>2, <1>3, <1>6, <1>7 DEF StreamInv
(* A message handled leaves the bytes behind it where they are.            *)
LEMMA ParsePlaces ==
    ASSUME TaskInv, mRecvLen > 0, NEW n \in Nat, n <= Avail(ParseRead) - IntLen,
           recvBuf' = Written(recvBuf, ParseRead, [j \in 1 .. n + IntLen |-> Stale]),
           mRecvRead' = IF Forward(ParseRead) \/ n <= MSG_BUFF_LEN - ParseRead - IntLen
                        THEN ParseRead + n + IntLen ELSE ParseRead + n + IntLen - MSG_BUFF_LEN
    PROVE  \A i \in 0 .. mRecvLen - (n + IntLen) - 1 :
              recvBuf'[(mRecvRead' + i) % MSG_BUFF_LEN] =
                 recvBuf[(mRecvRead + ((n + IntLen) + i)) % MSG_BUFF_LEN]
  <1> DEFINE r == ParseRead
             m == n + IntLen
             bs == [j \in 1 .. m |-> Stale]
  <1>1. /\ r \in 0 .. MSG_BUFF_LEN - 1 /\ Avail(r) = mRecvLen
        /\ Ring(mRecvWrite, r, mRecvLen) /\ mRecvWrite > 0
    BY ParsePlace DEF TaskInv
  <1>2. /\ mRecvLen \in 0 .. MSG_BUFF_LEN /\ mRecvRead \in 0 .. MSG_BUFF_LEN
        /\ MSG_BUFF_LEN \in Nat /\ MSG_BUFF_LEN > 0 /\ IntLen \in Nat /\ m \in Nat /\ m <= mRecvLen
    BY <1>1, Lengths DEF TaskInv, RecvTypes
  <1>3. mRecvRead - r \in {0, MSG_BUFF_LEN}
    BY <1>2 DEF ParseRead
  <1>4. mRecvRead' - r - m \in {0, -MSG_BUFF_LEN}
    <2>1. mRecvRead' = r + n + IntLen \/ mRecvRead' = r + n + IntLen - MSG_BUFF_LEN
      OBVIOUS
    <2>2. r \in Int /\ n \in Int /\ IntLen \in Int /\ MSG_BUFF_LEN \in Int /\ m = n + IntLen
      BY <1>1, <1>2
    <2> HIDE DEF r, m
    <2>3. CASE mRecvRead' = r + n + IntLen
      BY <2>2, <2>3
    <2>4. CASE mRecvRead' = r + n + IntLen - MSG_BUFF_LEN
      BY <2>2, <2>4
    <2> QED BY <2>1, <2>3, <2>4
  <1>5. Len(bs) = m
    BY <1>2
  <1> SUFFICES ASSUME NEW i \in 0 .. mRecvLen - m - 1
               PROVE  recvBuf'[(mRecvRead' + i) % MSG_BUFF_LEN] =
                          recvBuf[(mRecvRead + (m + i)) % MSG_BUFF_LEN]
    OBVIOUS
  <1>6. recvBuf' = Written(recvBuf, r, bs)
    OBVIOUS
  <1>7. mRecvRead' \in Int
    BY <1>1, <1>2
  <1> HIDE DEF r, m, bs
  <1> DEFINE x == mRecvRead' + i
             e == m + i
  <1>8. e \in 0 .. MSG_BUFF_LEN - 1 /\ ~(e < m) /\ x \in Int /\ r \in Int
    BY <1>1, <1>2, <1>7
  <1>9. (x - r) % MSG_BUFF_LEN = e
    <2>1. x - r \in {e + 0 * MSG_BUFF_LEN, e + (-1) * MSG_BUFF_LEN}
      <3>1. x - r = e + (mRecvRead' - r - m)
        BY <1>1, <1>2, <1>7
      <3> HIDE DEF x, e
      <3> QED BY <1>2, <1>4, <1>8, <3>1
    <2> HIDE DEF x, e
    <2>2. e % MSG_BUFF_LEN = e
      BY <1>2, <1>8, RingMod
    <2>3. \A q \in {-2, -1, 0, 1, 2} : (e + q * MSG_BUFF_LEN) % MSG_BUFF_LEN = e
      BY <1>2, <1>8, <2>2, SameCell
    <2> QED BY <2>1, <2>3
  <1>10. x % MSG_BUFF_LEN = (mRecvRead + e) % MSG_BUFF_LEN
    <2>1. \E q \in {-2, -1, 0, 1, 2} : x = (mRecvRead + e) + q * MSG_BUFF_LEN
      <3>1. x = (mRecvRead + e) + (mRecvRead' - r - m) - (mRecvRead - r)
        BY <1>1, <1>2, <1>7
      <3>2. x \in {(mRecvRead + e) + 0 * MSG_BUFF_LEN, (mRecvRead + e) + (-1) * MSG_BUFF_LEN,
                   (mRecvRead + e) + (-2) * MSG_BUFF_LEN}
        <4> DEFINE u == mRecvRead' - r - m
                   v == mRecvRead - r
                   y == mRecvRead + e
        <4>1. x = y + u - v /\ u \in {0, -MSG_BUFF_LEN} /\ v \in {0, MSG_BUFF_LEN} /\ y \in Int
          BY <1>2, <1>3, <1>4, <1>8, <3>1
        <4> HIDE DEF u, v, y, x, e
        <4>2. x \in {y + 0 * MSG_BUFF_LEN, y + (-1) * MSG_BUFF_LEN, y + (-2) * MSG_BUFF_LEN}
          BY <1>2, <4>1
        <4> QED BY <4>2 DEF y
      <3> QED BY <3>2
    <2>2. mRecvRead + e \in Int
      BY <1>2, <1>8
    <2> DEFINE y == mRecvRead + e
    <2> HIDE DEF x, e, y
    <2>3. \A q \in {-2, -1, 0, 1, 2} : (y + q * MSG_BUFF_LEN) % MSG_BUFF_LEN = y % MSG_BUFF_LEN
      BY <1>2, <2>2, SameCell DEF y
    <2> QED BY <2>1, <2>3 DEF y
  <1>11. Written(recvBuf, r, bs)[x % MSG_BUFF_LEN] =
             IF (x - r) % MSG_BUFF_LEN < Len(bs) THEN bs[((x - r) % MSG_BUFF_LEN) + 1]
             ELSE recvBuf[x % MSG_BUFF_LEN]
    <2>1. Len(bs) \in Nat
      BY <1>2, <1>5
    <2> HIDE DEF x
    <2> QED BY <1>8, <2>1, WrittenRing
  <1>12. recvBuf'[x % MSG_BUFF_LEN] = recvBuf[x % MSG_BUFF_LEN]
    <2> HIDE DEF x, e
    <2> QED BY <1>5, <1>6, <1>8, <1>9, <1>11
  <1>13. recvBuf'[x % MSG_BUFF_LEN] = recvBuf[(mRecvRead + e) % MSG_BUFF_LEN]
    <2> HIDE DEF x, e
    <2> QED BY <1>10, <1>12
  <1> QED BY <1>13

(* Without a fault the round reads the length of the next message, and     *)
(* hands over that message if it has come.                                 *)
LEMMA ParseNext ==
    ASSUME TaskInv, NEW off, Laid(IntLen, sent, off), Whole(off),
           mRecvLen > 0, Misread(ParseRead) = {}
    PROVE  LET h == Len(handled) IN
           /\ h < Len(sent) /\ RealLen(ParseRead) = {sent[h + 1]}
           /\ sent[h + 1] <= Avail(ParseRead) - IntLen => Given(ParseRead, sent[h + 1]) = h + 1
  <1> DEFINE h == Len(handled)
             r == ParseRead
             D == off[h + 1]
  <1>1. /\ r \in 0 .. MSG_BUFF_LEN - 1 /\ Avail(r) = mRecvLen
        /\ Ring(mRecvWrite, r, mRecvLen) /\ mRecvWrite > 0
    BY ParsePlace DEF TaskInv
  <1>2. /\ mRecvLen \in 0 .. MSG_BUFF_LEN /\ mRecvRead \in 0 .. MSG_BUFF_LEN
        /\ mRecvWrite \in 0 .. MSG_BUFF_LEN
        /\ MSG_BUFF_LEN \in Nat /\ MSG_BUFF_LEN > 0 /\ IntLen \in Nat /\ IntLen > 1
        /\ sent \in Seq(Nat) /\ Len(sent) \in Nat /\ h \in 0 .. Len(sent)
    <2>1. sent \in Seq(Nat) /\ Len(sent) \in Nat /\ handled \in Seq(0 .. MaxMsgs)
      BY LensNat DEF TaskInv, SendTypes, RecvTypes
    <2>2. Len(handled) <= Len(sent)
      BY DEF Whole
    <2> QED BY <2>1, <2>2, Lengths DEF TaskInv, RecvTypes
  <1>3. mRecvRead - r \in {0, MSG_BUFF_LEN}
    BY <1>2 DEF ParseRead
  <1>4. ASSUME NEW i \in 0 .. mRecvLen - 1
        PROVE  /\ ByteAt(IntLen, sent, off, recvBuf[(r + i) % MSG_BUFF_LEN], D + i)
               /\ h < Len(sent)
               /\ i < IntLen + sent[h + 1] => recvBuf[(r + i) % MSG_BUFF_LEN] = <<h + 1, i>>
    <2>1. (mRecvRead + i) % MSG_BUFF_LEN = (r + i) % MSG_BUFF_LEN
      <3> DEFINE y == r + i
      <3>1. y \in Int /\ mRecvRead + i \in {y + 0 * MSG_BUFF_LEN, y + 1 * MSG_BUFF_LEN}
        BY <1>1, <1>2, <1>3
      <3> HIDE DEF y
      <3>2. \A q \in {-2, -1, 0, 1, 2} : (y + q * MSG_BUFF_LEN) % MSG_BUFF_LEN = y % MSG_BUFF_LEN
        BY <1>2, <3>1, SameCell
      <3> QED BY <3>1, <3>2 DEF y
    <2>2. ByteAt(IntLen, sent, off, recvBuf[(r + i) % MSG_BUFF_LEN], D + i)
      BY <2>1 DEF Whole, Carries, Byte
    <2> HIDE DEF r, h
    <2>3. i \in Nat
      BY <1>2
    <2> QED BY <1>2, <2>2, <2>3, Placed
  <1>5. h < Len(sent) /\ sent[h + 1] \in Nat /\ h + 1 # 0 /\ sent[h + 1] + IntLen <= MSG_BUFF_LEN
    <2>1. h < Len(sent)
      <3>1. 0 \in 0 .. mRecvLen - 1
        BY <1>2
      <3> QED BY <1>4, <3>1
    <2>2. sent[h + 1] \in Lens
      BY <1>2, <2>1 DEF TaskInv, SendTypes
    <2> QED BY <1>2, <2>1, <2>2, Lengths
  <1> DEFINE n == sent[h + 1]
  <1>6. recvBuf[r] = <<h + 1, 0>>
    <2>1. 0 \in 0 .. mRecvLen - 1 /\ 0 < IntLen + sent[h + 1] /\ r + 0 = r
      BY <1>1, <1>2, <1>5
    <2>2. r % MSG_BUFF_LEN = r
      BY <1>1, <1>2, RingMod
    <2> QED BY <1>4, <2>1, <2>2
  <1>7. r + IntLen <= MSG_BUFF_LEN /\ IntLen <= mRecvLen
    <2>1. CASE Forward(r)
      <3>1. ~(Avail(r) < IntLen)
        BY <2>1 DEF Misread
      <3> QED BY <1>1, <1>2, <2>1, <3>1 DEF Forward, Avail
    <2>2. CASE ~Forward(r)
      <3>1. ~(MSG_BUFF_LEN - r < IntLen)
        BY <2>2 DEF Misread
      <3> QED BY <1>1, <1>2, <2>2, <3>1 DEF Forward, Avail
    <2> QED BY <2>1, <2>2
  <1>8. Straight(recvBuf, r, IntLen) = SubSeq(Bytes(h + 1, 0), 1, IntLen)
    <2>1. \A j \in 1 .. IntLen : Straight(recvBuf, r, IntLen)[j] = <<h + 1, j - 1>>
      <3> SUFFICES ASSUME NEW j \in 1 .. IntLen
                   PROVE  Straight(recvBuf, r, IntLen)[j] = <<h + 1, j - 1>>
        OBVIOUS
      <3>1. /\ j - 1 \in 0 .. mRecvLen - 1 /\ j - 1 < IntLen + sent[h + 1]
            /\ r + (j - 1) \in Slot /\ r + (j - 1) \in 0 .. MSG_BUFF_LEN - 1
        BY <1>1, <1>2, <1>5, <1>7 DEF Slot
      <3>2. (r + (j - 1)) % MSG_BUFF_LEN = r + (j - 1)
        BY <1>2, <3>1, RingMod
      <3>3. recvBuf[r + (j - 1)] = <<h + 1, j - 1>>
        BY <1>4, <3>1, <3>2
      <3>4. r + j - 1 = r + (j - 1)
        BY <1>1
      <3> HIDE DEF r, h
      <3> QED BY <3>1, <3>3, <3>4 DEF Straight
    <2>2. \A j \in 1 .. IntLen : SubSeq(Bytes(h + 1, 0), 1, IntLen)[j] = <<h + 1, j - 1>>
      BY <1>2 DEF Bytes
    <2>3. DOMAIN Straight(recvBuf, r, IntLen) = 1 .. IntLen
          /\ DOMAIN SubSeq(Bytes(h + 1, 0), 1, IntLen) = 1 .. IntLen
      BY <1>2 DEF Bytes, Straight
    <2>4. /\ Straight(recvBuf, r, IntLen) = [j \in 1 .. IntLen |-> Straight(recvBuf, r, IntLen)[j]]
          /\ SubSeq(Bytes(h + 1, 0), 1, IntLen) = [j \in 1 .. IntLen |-> SubSeq(Bytes(h + 1, 0), 1, IntLen)[j]]
      BY <1>2 DEF Bytes, Straight
    <2> DEFINE f == Straight(recvBuf, r, IntLen)
               g == SubSeq(Bytes(h + 1, 0), 1, IntLen)
    <2> HIDE DEF f, g
    <2>5. f = g
      BY <2>1, <2>2, <2>4 DEF f, g
    <2> QED BY <2>5 DEF f, g
  <1>9. RealLen(r) = {n}
    <2>1. recvBuf[r][1] = h + 1
      BY <1>6
    <2> QED BY <1>5, <1>8, <2>1 DEF RealLen
  <1>10. ASSUME n <= Avail(r) - IntLen PROVE Given(r, n) = h + 1
    <2>1. recvBuf[r][1] = h + 1
      BY <1>6
    <2>2. n + IntLen <= mRecvLen
      BY <1>1, <1>2, <1>5, <1>10
    <2>3. ASSUME NEW j \in 1 .. IntLen + n
          PROVE  recvBuf[(r + j - 1) % MSG_BUFF_LEN] = <<h + 1, j - 1>>
      <3>1. j - 1 \in 0 .. mRecvLen - 1 /\ j - 1 < IntLen + sent[h + 1] /\ r + j - 1 = r + (j - 1)
        BY <1>1, <1>2, <1>5, <2>2
      <3> QED BY <1>4, <3>1
    <2>4. Around(recvBuf, r, IntLen + n) = Bytes(h + 1, n)
      BY <2>3 DEF Around, Bytes
    <2> QED BY <1>5, <2>1, <2>4 DEF Given
  <1> QED BY <1>5, <1>9, <1>10

LEMMA ParseMessageStream ==
    ASSUME TaskInv, StreamInv, ParseMessage
    PROVE  StreamInv' /\ StreamStep /\ (reader' = "closed" => faults' # {})
  <1> DEFINE r == ParseRead
             h == Len(handled)
  <1>1. PICK n \in RealLen(r) :
         \/ /\ n < MIN_PACKAGE_LEN
            /\ reader' = "closed" /\ mRecvRead' = r
            /\ UNCHANGED <<recvBuf, mRecvLen, handled>>
         \/ /\ n >= MIN_PACKAGE_LEN /\ n > Avail(r) - IntLen
            /\ reader' = "idle" /\ mRecvRead' = r
            /\ UNCHANGED <<recvBuf, mRecvLen, handled>>
         \/ /\ n >= MIN_PACKAGE_LEN /\ n <= Avail(r) - IntLen
            /\ handled' = Append(handled, Given(r, n))
            /\ recvBuf' = Written(recvBuf, r, [j \in 1 .. n + IntLen |-> Stale])
            /\ mRecvLen' = mRecvLen - (n + IntLen)
            /\ mRecvRead' = IF Forward(r) \/ n <= MSG_BUFF_LEN - r - IntLen
                            THEN r + n + IntLen ELSE r + n + IntLen - MSG_BUFF_LEN
            /\ UNCHANGED reader
    BY Zenon DEF ParseMessage
  <1>2. /\ mRecvLen > 0 /\ faults' = faults \cup Misread(r)
        /\ reader = "parsing"
        /\ UNCHANGED <<sent, sendBuf, mSendRead, mSendWrite, mSendLen, wire, mRecvWrite>>
    BY Zenon DEF ParseMessage, sendVars
  <1>3. PICK off : Laid(IntLen, sent, off) /\ (faults = {} => Whole(off)) /\ Early(off)
    BY DEF StreamInv
  <1>4. /\ r \in 0 .. MSG_BUFF_LEN - 1 /\ Avail(r) = mRecvLen
        /\ Ring(mRecvWrite, r, mRecvLen) /\ mRecvWrite > 0
    BY <1>2, ParsePlace DEF TaskInv
  <1>5. /\ mRecvLen \in Nat /\ Len(wire) \in Nat /\ mSendLen \in Nat /\ Len(sent) \in Nat
        /\ h \in Nat /\ mRecvWrite \in 0 .. MSG_BUFF_LEN /\ mRecvRead \in 0 .. MSG_BUFF_LEN
        /\ MSG_BUFF_LEN \in Nat /\ n \in Nat /\ IntLen \in Nat /\ handled \in Seq(0 .. MaxMsgs)
        /\ \A k \in 1 .. Len(sent) : sent[k] \in Nat /\ sent[k] >= 1
        /\ \A k \in 1 .. Len(sent) + 1 : off[k] \in Nat
    <2>1. n \in Nat
      BY <1>4, LensOfHere, Lengths DEF Slot, MIN_PACKAGE_LEN, MAX_PACKAGE_LEN
    <2>2. \A k \in 1 .. Len(sent) : sent[k] \in Lens
      BY DEF TaskInv, SendTypes
    <2>3. \A k \in 1 .. Len(sent) + 1 : off[k] \in Nat
      BY <1>3 DEF Laid
    <2> QED BY <2>1, <2>2, <2>3, Lengths DEF TaskInv, SendTypes, RecvTypes
  <1>6. ASSUME faults' = {}
        PROVE  /\ faults = {} /\ Whole(off) /\ h < Len(sent) /\ n = sent[h + 1]
               /\ n <= Avail(r) - IntLen => Given(r, n) = h + 1
    <2>1. faults = {} /\ Misread(r) = {}
      BY <1>2, <1>6
    <2>2. h < Len(sent) /\ RealLen(r) = {sent[h + 1]}
          /\ (sent[h + 1] <= Avail(r) - IntLen => Given(r, sent[h + 1]) = h + 1)
      BY <1>2, <1>3, <2>1, ParseNext
    <2> QED BY <1>1, <1>3, <2>1, <2>2
  <1>7. ASSUME faults' = {} PROVE reader' # "closed"
    <2>1. n >= 1
      BY <1>5, <1>6, <1>7
    <2>2. ~(n < MIN_PACKAGE_LEN)
      BY <1>5, <2>1 DEF MIN_PACKAGE_LEN
    <2> HIDE DEF r
    <2> QED BY <1>1, <1>2, <2>2
  <1>8. StreamStep
    <2>1. CASE faults' # {}
      <3>1. Ordered!Break
        BY <2>1 DEF Ordered!Break
      <3> QED BY <3>1 DEF StreamStep, Ordered!Next
    <2>2. CASE faults' = {} /\ handled' = handled
      <3>1. faults \subseteq faults'
        BY <1>2
      <3> QED BY <1>2, <2>2, <3>1, StreamStill
    <2>3. CASE faults' = {} /\ handled' = Append(handled, Given(r, n)) /\ n <= Avail(r) - IntLen
      <3>1. /\ handled' = Append(handled, h + 1) /\ h + 1 \in 1 .. Len(sent)
            /\ \A k \in 1 .. h : handled[k] = k
        BY <1>5, <1>6, <2>3 DEF Whole
      <3>2. handled' = SubSeq([k \in 1 .. Len(sent) |-> k], 1, h + 1)
        <4>1. \A k \in 1 .. h + 1 : SubSeq([j \in 1 .. Len(sent) |-> j], 1, h + 1)[k] = k
          BY <1>5, <3>1
        <4>2. \A k \in 1 .. h + 1 : handled'[k] = k
          BY <1>5, <3>1
        <4>3. handled' \in Seq(Int) /\ Len(handled') = h + 1
          BY <1>5, <3>1
        <4>4. SubSeq([j \in 1 .. Len(sent) |-> j], 1, h + 1) \in Seq(Int)
              /\ Len(SubSeq([j \in 1 .. Len(sent) |-> j], 1, h + 1)) = h + 1
          BY <1>5, <3>1
        <4> DEFINE f == SubSeq([j \in 1 .. Len(sent) |-> j], 1, h + 1)
        <4> HIDE DEF f
        <4>5. handled' = f
          BY <1>5, <4>1, <4>2, <4>3, <4>4 DEF f
        <4> QED BY <4>5 DEF f
      <3>3. h + 1 \in h + 1 .. Len([k \in 1 .. Len(sent) |-> k])
        BY <1>5, <3>1
      <3>4. UNCHANGED <<[k \in 1 .. Len(sent) |-> k], faults # {}>>
        BY <1>2, <1>6, <2>3
      <3>5. Ordered!Handle
        BY <3>2, <3>3, <3>4 DEF Ordered!Handle
      <3> QED BY <3>5 DEF StreamStep, Ordered!Next
    <2> QED BY <1>1, <2>1, <2>2, <2>3
  <1>9. ASSUME faults' = {} PROVE Whole(off)'
    <2> DEFINE D == off[h + 1]
    <2>1. /\ h < Len(sent) /\ \A k \in 1 .. h : handled[k] = k /\ Carries(off, D)
      BY <1>6, <1>9 DEF Whole
    <2>2. D \in Nat
      BY <1>5, <2>1
    <2>3. CASE mRecvRead' = r /\ UNCHANGED <<recvBuf, mRecvLen, handled>>
      <3>1. \A i \in Int : (r + i) % MSG_BUFF_LEN = (mRecvRead + i) % MSG_BUFF_LEN
        <4> SUFFICES ASSUME NEW i \in Int
                     PROVE  (r + i) % MSG_BUFF_LEN = (mRecvRead + i) % MSG_BUFF_LEN
          OBVIOUS
        <4> DEFINE y == r + i
        <4>1. y \in Int /\ mRecvRead + i \in {y + 0 * MSG_BUFF_LEN, y + 1 * MSG_BUFF_LEN}
          BY <1>4, <1>5 DEF ParseRead
        <4> HIDE DEF y
        <4>2. \A q \in {-2, -1, 0, 1, 2} : (y + q * MSG_BUFF_LEN) % MSG_BUFF_LEN = y % MSG_BUFF_LEN
          BY <1>5, <4>1, Lengths, SameCell
        <4> QED BY <4>1, <4>2 DEF y
      <3>2. \A i \in 0 .. mRecvLen - 1 :
               ByteAt(IntLen, sent, off, recvBuf[(r + i) % MSG_BUFF_LEN], D + i)
        <4>1. Carries(off, D)
          BY <1>6, <1>9 DEF Whole
        <4> HIDE DEF r, D
        <4> QED BY <3>1, <4>1 DEF Carries, Byte
      <3>3. Carries(off, D)
        BY <1>6, <1>9 DEF Whole
      <3> HIDE DEF r, D
      <3>4. Carries(off, D)'
        <4>1. D' = D
          BY <2>3 DEF D
        <4> QED BY <1>2, <2>3, <3>2, <3>3, <4>1 DEF Carries, Byte
      <3>5. Len(handled) <= Len(sent)
        BY <1>5, <2>1
      <3> QED BY <1>2, <1>7, <1>9, <2>1, <2>3, <3>4, <3>5 DEF Whole, D
    <2>4. CASE /\ n <= Avail(r) - IntLen
               /\ handled' = Append(handled, Given(r, n))
               /\ recvBuf' = Written(recvBuf, r, [j \in 1 .. n + IntLen |-> Stale])
               /\ mRecvLen' = mRecvLen - (n + IntLen)
               /\ mRecvRead' = IF Forward(r) \/ n <= MSG_BUFF_LEN - r - IntLen
                               THEN r + n + IntLen ELSE r + n + IntLen - MSG_BUFF_LEN
      <3> DEFINE m == n + IntLen
                 E == off[h + 2]
      <3>1. \A i \in 0 .. mRecvLen - m - 1 :
               recvBuf'[(mRecvRead' + i) % MSG_BUFF_LEN] = recvBuf[(mRecvRead + (m + i)) % MSG_BUFF_LEN]
        BY <1>2, <1>5, <2>4, ParsePlaces
      <3>2. E = D + m /\ E \in Nat
        <4>1. off[(h + 1) + 1] = off[h + 1] + IntLen + sent[h + 1] /\ h + 1 + 1 = h + 2
          BY <1>3, <1>5, <2>1 DEF Laid
        <4> QED BY <1>5, <1>6, <1>9, <2>2, <4>1
      <3>3. /\ handled' = Append(handled, h + 1) /\ Len(handled') = h + 1
            /\ \A k \in 1 .. h + 1 : handled'[k] = k
        BY <1>5, <1>6, <1>9, <2>1, <2>4
      <3>4. Carries(off, D) /\ m \in Nat /\ m <= mRecvLen
        BY <1>4, <1>5, <1>6, <1>9, <2>4 DEF Whole
      <3>5. ASSUME NEW i \in 0 .. (mRecvLen - m) - 1
            PROVE  ByteAt(IntLen, sent, off, recvBuf'[(mRecvRead' + i) % MSG_BUFF_LEN], E + i)
        <4> HIDE DEF m, D, E
        <4>1. m + i \in 0 .. mRecvLen - 1 /\ D + (m + i) = E + i /\ i \in 0 .. mRecvLen - m - 1
          BY <1>5, <2>2, <3>2, <3>4
        <4>2. Byte(off, recvBuf[(mRecvRead + (m + i)) % MSG_BUFF_LEN], D + (m + i))
          BY <3>4, <4>1 DEF Carries
        <4> QED BY <3>1, <4>1, <4>2 DEF Byte
      <3>6. E + (mRecvLen - m) = D + mRecvLen
        <4> HIDE DEF m, D, E
        <4> QED BY <1>5, <2>2, <3>2, <3>4
      <3>7. off[Len(handled') + 1] = E
        BY <1>5, <3>3
      <3>8. Carries(off, off[Len(handled) + 1])'
        <4> DEFINE G == off[Len(handled') + 1]
        <4>1. G = E /\ mRecvLen' = mRecvLen - m
          BY <2>4, <3>7
        <4>2. G + mRecvLen' = D + mRecvLen
          BY <3>6, <4>1
        <4>3. G = off[Len(handled') + 1]
          OBVIOUS
        <4> HIDE DEF G, D, E, m
        <4> QED BY <1>2, <3>4, <3>5, <4>1, <4>2, <4>3 DEF Carries, Byte
      <3>9. Len(handled') <= Len(sent)
        BY <1>5, <2>1, <3>3
      <3> QED BY <1>2, <1>7, <1>9, <3>3, <3>8, <3>9 DEF Whole
    <2> QED BY <1>1, <2>3, <2>4
  <1>10. Early(off)'
    <2> DEFINE top == off[Len(sent) + 1]
    <2> SUFFICES ASSUME "partial" \notin faults', top <= MSG_BUFF_LEN
                 PROVE  /\ faults' \cap {"wrapped", "straddled"} = {}
                        /\ mSendWrite = mSendRead + mSendLen /\ mSendWrite <= top
                        /\ mRecvWrite = mRecvRead' + mRecvLen'
                        /\ mRecvWrite + Len(wire) + mSendLen = top
      BY <1>2 DEF Early
    <2>1. /\ faults \cap {"wrapped", "straddled"} = {}
          /\ mSendWrite = mSendRead + mSendLen /\ mSendWrite <= top
          /\ mRecvWrite = mRecvRead + mRecvLen /\ mRecvWrite + Len(wire) + mSendLen = top
      <3>1. "partial" \notin faults
        BY <1>2
      <3> QED BY <1>3, <3>1 DEF Early
    <2>2. r = mRecvRead /\ Forward(r)
      BY <1>2, <1>5, <2>1 DEF ParseRead, Forward
    <2>3. "straddled" \notin Misread(r) /\ "wrapped" \notin Misread(r)
      BY <2>2 DEF Misread
    <2>4. mRecvWrite = mRecvRead' + mRecvLen'
      <3> HIDE DEF r
      <3>1. r + n + IntLen + (mRecvLen - (n + IntLen)) = r + mRecvLen
        BY <1>4, <1>5
      <3> QED BY <1>1, <2>1, <2>2, <3>1
    <2> QED BY <1>2, <2>1, <2>3, <2>4
  <1> QED BY <1>2, <1>3, <1>7, <1>8, <1>9, <1>10 DEF StreamInv

LEMMA StreamNextInv ==
    ASSUME TaskInv, StreamInv, [Next]_vars
    PROVE  StreamInv' /\ StreamStep
  <1>1. CASE StartTaskSend \/ SendUndefined \/ EndTaskSend \/ EndTaskRecv \/ UNCHANGED vars
    BY <1>1, SendOtherStream
  <1> QED BY <1>1, Send2BufStream, SyncSendStream, SendForwardStream, SendWrappedStream,
             StartTaskRecvStream, ParseMessageStream DEF Next, TaskSend, TaskRecv

(* The bytes that lie behind the last message are as many as Carried adds  *)
(* up: the offsets are the sums that it is made of.                        *)
LEMMA CarriedIs ==
    ASSUME sent \in Seq(Lens), NEW off, Laid(IntLen, sent, off)
    PROVE  Carried = off[Len(sent) + 1]
  <1> DEFINE Sums(f) == f = [k \in 0 .. Len(sent) |-> IF k = 0 THEN 0 ELSE f[k - 1] + IntLen + sent[k]]
             sum == CHOOSE f : Sums(f)
             g == [k \in 0 .. Len(sent) |-> off[k + 1]]
  <1>1. Carried = sum[Len(sent)]
    BY Zenon DEF Carried
  <1>2. /\ Len(sent) \in Nat /\ IntLen \in Nat /\ \A k \in 1 .. Len(sent) : sent[k] \in Nat
        /\ \A k \in 1 .. Len(sent) + 1 : off[k] \in Nat
        /\ off[1] = 0 /\ \A k \in 1 .. Len(sent) : off[k + 1] = off[k] + IntLen + sent[k]
    <2>1. /\ Len(sent) \in Nat /\ IntLen \in Nat /\ \A k \in 1 .. Len(sent) : sent[k] \in Nat
      BY LensNat, Lengths
    <2>2. /\ \A k \in 1 .. Len(sent) + 1 : off[k] \in Nat
          /\ off[1] = 0 /\ \A k \in 1 .. Len(sent) : off[k + 1] = off[k] + IntLen + sent[k]
      BY DEF Laid
    <2> QED BY <2>1, <2>2
  <1>3. Sums(g)
    <2>1. ASSUME NEW k \in 0 .. Len(sent)
          PROVE  g[k] = IF k = 0 THEN 0 ELSE g[k - 1] + IntLen + sent[k]
      <3>1. CASE k = 0
        BY <1>2, <3>1
      <3>2. CASE k # 0
        <4>1. /\ k \in 1 .. Len(sent) /\ k - 1 \in 0 .. Len(sent) /\ (k - 1) + 1 = k
          BY <1>2, <3>2
        <4>2. g[k] = off[k + 1] /\ g[k - 1] = off[k]
          BY <4>1
        <4> QED BY <1>2, <3>2, <4>1, <4>2
      <3> QED BY <3>1, <3>2
    <2>2. g = [k \in 0 .. Len(sent) |-> g[k]]
      OBVIOUS
    <2> HIDE DEF g
    <2> QED BY <2>1, <2>2
  <1>4. Sums(sum)
    <2> HIDE DEF Sums, g
    <2> QED BY <1>3, Zenon
  <1>5. \A k \in 0 .. Len(sent) : sum[k] = IF k = 0 THEN 0 ELSE sum[k - 1] + IntLen + sent[k]
    <2> HIDE DEF sum
    <2> QED BY <1>4
  <1> HIDE DEF sum, g, Sums
  <1>6. \A k \in 0 .. Len(sent) : sum[k] = off[k + 1]
    <2> DEFINE Off == {k \in 0 .. Len(sent) : sum[k] # off[k + 1]}
    <2> SUFFICES ASSUME Off # {} PROVE FALSE
      OBVIOUS
    <2>1. PICK k \in Off : \A y \in Off : k <= y
      <3>1. Off \subseteq Nat
        BY <1>2
      <3> QED BY <3>1, LeastOfNat
    <2>2. k # 0
      BY <1>2, <1>5, <2>1
    <2>3. k \in 1 .. Len(sent) /\ k - 1 \in 0 .. Len(sent) /\ (k - 1) + 1 = k /\ ~(k <= k - 1)
      BY <1>2, <2>1, <2>2
    <2>4. sum[k - 1] = off[k]
      <3>1. k - 1 \notin Off
        BY <2>1, <2>3
      <3> QED BY <2>3, <3>1
    <2> QED BY <1>2, <1>5, <2>1, <2>2, <2>3, <2>4
  <1> QED BY <1>1, <1>2, <1>6

(* A ring that spoilt a message has met one of the faults that are named.  *)
LEMMA StreamInvFaults == ASSUME TaskInv, StreamInv PROVE RefusedForFault /\ WrapsLate
  <1>1. PICK off : Laid(IntLen, sent, off) /\ (faults = {} => Whole(off)) /\ Early(off)
    BY DEF StreamInv
  <1>2. RefusedForFault
    BY <1>1 DEF RefusedForFault, Whole
  <1>3. WrapsLate
    <2>1. Carried = off[Len(sent) + 1]
      BY <1>1, CarriedIs DEF TaskInv, SendTypes
    <2>2. off[Len(sent) + 1] \in Nat /\ MSG_BUFF_LEN \in Nat
      <3>1. Len(sent) \in Nat
        BY DEF TaskInv, SendTypes
      <3> QED BY <1>1, <3>1, Lengths DEF Laid
    <2> QED BY <1>1, <2>1, <2>2 DEF WrapsLate, Early
  <1> QED BY <1>2, <1>3

(* The invariant of the connection holds, and each of its steps is one of  *)
(* the stream it promises.                                                 *)
LEMMA TaskInvariant == BaseSpec => [](TaskInv /\ StreamInv) /\ [][StreamStep]_baseVars
  <1>1. BaseInit => TaskInv /\ StreamInv
    BY TaskInitInv, StreamInitInv DEF BaseInit
  <1>2. TaskInv /\ StreamInv /\ [BaseNext]_baseVars => (TaskInv /\ StreamInv)' /\ StreamStep
    BY BaseStep, TaskNextInv, StreamNextInv
  <1> QED BY <1>1, <1>2, PTL DEF BaseSpec

(* wTask.cpp: what the reading task hands to HandleRecvMessage are the     *)
(* first of the messages that the writing task was told are on their way,  *)
(* each whole and once and in their order, until one of the four faults    *)
(* has happened: the two rings implement Stream.                           *)
THEOREM StreamsCorrect == BaseSpec => Streams
  <1>1. BaseInit => Ordered!Init
    BY StreamInitInv DEF BaseInit
  <1>2. StreamStep => [Ordered!Next]_<<[k \in 1 .. Len(sent) |-> k], handled, faults # {}>>
    BY DEF StreamStep, Accepted
  <1>3. UNCHANGED baseVars => UNCHANGED <<[k \in 1 .. Len(sent) |-> k], handled, faults # {}>>
    BY DEF baseVars, vars, sendVars, recvVars
  <1>4. [StreamStep]_baseVars => [Ordered!Next]_<<[k \in 1 .. Len(sent) |-> k], handled, faults # {}>>
    BY <1>2, <1>3
  <1> QED BY <1>1, <1>4, TaskInvariant, PTL DEF BaseSpec, Streams, Ordered!Spec

-----------------------------------------------------------------------------
(* The queue (MsgQueue).  Waiting is the bytes pushed and not yet popped;  *)
(* the indexes are a ring around them that is never full.                  *)
Steps == {"idle", "read", "copied"}

QueueTypes ==
    /\ cells \in [0 .. mQueueSize - 1 -> (0 .. MaxPushes) \X (0 .. mQueueSize)]
    /\ mBeginIdx \in 0 .. mQueueSize /\ mEndIdx \in 0 .. mQueueSize
    /\ pushed \in Seq(PushLens) /\ Len(pushed) <= MaxPushes
    /\ popped \in Seq(0 .. MaxPushes) /\ Len(popped) <= Len(pushed)
    /\ \A k \in 1 .. Len(popped) : popped[k] = k
    /\ pusher \in [at : Steps, begin : 0 .. mQueueSize, end : 0 .. mQueueSize, len : Nat]
    /\ popper \in [at : Steps, begin : 0 .. mQueueSize, end : Nat, len : Nat]

Waiting(off) == off[Len(pushed) + 1] - off[Len(popped) + 1]

(* l bytes between the index b and the index e.                            *)
Between(b, e, l) == e - b = l \/ e - b = l - mQueueSize

QueueCarries(off) ==
    /\ Waiting(off) \in 0 .. mQueueSize - Reserve
    /\ Between(mBeginIdx, mEndIdx, Waiting(off))
    /\ mEndIdx = 0 => mBeginIdx = 0 /\ Waiting(off) = 0
    /\ \A i \in 0 .. Waiting(off) - 1 :
          ByteAt(HeadLen, pushed, off, cells[(mBeginIdx + i) % mQueueSize], off[Len(popped) + 1] + i)

(* What a call of Push relies on while the other side goes on popping, and *)
(* one of Pop while the other side goes on pushing.                        *)
PusherHolds(off) ==
    /\ pusher.at # "idle" =>
          /\ pusher.end = mEndIdx /\ pusher.len \in PushLens /\ Len(pushed) < MaxPushes
          /\ Waiting(off) + HeadLen + pusher.len + Reserve <= mQueueSize
    /\ pusher.at = "copied" =>
          \A j \in 0 .. HeadLen + pusher.len - 1 :
              cells[(mEndIdx + j) % mQueueSize] = <<Len(pushed) + 1, j>>

PopperHolds(off) ==
    /\ popper.at # "idle" => popper.begin = mBeginIdx /\ Len(popped) < Len(pushed)
    /\ popper.at = "read" => popper.end \in 0 .. mQueueSize
    /\ popper.at = "read" =>
          \E m \in Len(popped) + 1 .. Len(pushed) :
              Between(popper.begin, popper.end, off[m + 1] - off[Len(popped) + 1])
    /\ popper.at = "copied" => popper.end = Len(popped) + 1 /\ popper.len = pushed[Len(popped) + 1]

QueueInv ==
    QueueTypes /\ \E off : /\ Laid(HeadLen, pushed, off)
                           /\ QueueCarries(off) /\ PusherHolds(off) /\ PopperHolds(off)

QueueStep == [Queue!Ordered!Next]_<<[k \in 1 .. Len(pushed) |-> k], popped, FALSE>>

LEMMA QueueLengths ==
    /\ HeadLen \in Nat /\ HeadLen > 0 /\ Reserve \in Nat /\ Reserve > 0
    /\ mQueueSize \in Nat /\ mQueueSize > 0 /\ mQueueSize > HeadLen + Reserve
    /\ \A n \in PushLens : n \in Nat /\ n >= 1 /\ n <= mQueueSize
    /\ MaxPushes \in Nat /\ PushLens \subseteq Nat
  BY MsgQueueAssumption

(* The lengths of the messages and the places where they begin.            *)
LEMMA QueueLaid ==
    ASSUME QueueTypes, NEW off, Laid(HeadLen, pushed, off)
    PROVE  /\ Len(pushed) \in Nat /\ Len(popped) \in Nat /\ Len(popped) <= Len(pushed)
           /\ pushed \in Seq(Nat)
           /\ \A k \in 1 .. Len(pushed) + 1 : off[k] \in Nat
           /\ \A k \in 1 .. Len(pushed) : pushed[k] \in Nat /\ pushed[k] >= 1 /\ pushed[k] \in PushLens
           /\ off[Len(pushed) + 1] \in Nat /\ off[Len(popped) + 1] \in Nat
           /\ Waiting(off) \in Int
           /\ Len(popped) = Len(pushed) => Waiting(off) = 0
           /\ Len(popped) < Len(pushed) =>
                /\ off[Len(popped) + 2] = off[Len(popped) + 1] + HeadLen + pushed[Len(popped) + 1]
                /\ \A m \in Len(popped) + 1 .. Len(pushed) :
                      /\ off[m + 1] - off[Len(popped) + 1] >= HeadLen + pushed[Len(popped) + 1]
                      /\ off[m + 1] - off[Len(popped) + 1] <= Waiting(off)
  <1>1. /\ Len(pushed) \in Nat /\ Len(popped) \in Nat /\ Len(popped) <= Len(pushed)
        /\ pushed \in Seq(Nat) /\ \A k \in 1 .. Len(pushed) : pushed[k] \in PushLens
    <2>1. pushed \in Seq(PushLens) /\ popped \in Seq(0 .. MaxPushes) /\ Len(popped) <= Len(pushed)
      BY DEF QueueTypes
    <2>2. \A k \in 1 .. Len(pushed) : pushed[k] \in PushLens
      BY <2>1
    <2>3. pushed \in Seq(Nat)
      <3>1. \A k \in 1 .. Len(pushed) : pushed[k] \in Nat
        BY <2>2, QueueLengths
      <3>2. Len(pushed) \in Nat /\ pushed = [k \in 1 .. Len(pushed) |-> pushed[k]]
        BY <2>1
      <3> QED BY <3>1, <3>2
    <2> QED BY <2>1, <2>2, <2>3
  <1>2. /\ \A k \in 1 .. Len(pushed) + 1 : off[k] \in Nat
        /\ \A k \in 1 .. Len(pushed) : off[k + 1] = off[k] + HeadLen + pushed[k]
        /\ \A k, l \in 1 .. Len(pushed) + 1 : k < l => off[k] + HeadLen + pushed[k] <= off[l]
    BY DEF Laid
  <1>3. \A k \in 1 .. Len(pushed) : pushed[k] \in Nat /\ pushed[k] >= 1 /\ pushed[k] \in PushLens
    BY <1>1, QueueLengths
  <1>4. off[Len(pushed) + 1] \in Nat /\ off[Len(popped) + 1] \in Nat /\ Waiting(off) \in Int
    BY <1>1, <1>2 DEF Waiting
  <1>5. Len(popped) = Len(pushed) => Waiting(off) = 0
    BY <1>4 DEF Waiting
  <1>6. ASSUME Len(popped) < Len(pushed)
        PROVE  /\ off[Len(popped) + 2] = off[Len(popped) + 1] + HeadLen + pushed[Len(popped) + 1]
               /\ \A m \in Len(popped) + 1 .. Len(pushed) :
                      /\ off[m + 1] - off[Len(popped) + 1] >= HeadLen + pushed[Len(popped) + 1]
                      /\ off[m + 1] - off[Len(popped) + 1] <= Waiting(off)
    <2> DEFINE h == Len(popped)
    <2>1. h + 1 \in 1 .. Len(pushed) /\ h + 1 + 1 = h + 2
      BY <1>1, <1>6
    <2>2. off[h + 2] = off[h + 1] + HeadLen + pushed[h + 1]
      BY <1>2, <2>1
    <2>3. ASSUME NEW m \in h + 1 .. Len(pushed)
          PROVE  /\ off[m + 1] - off[h + 1] >= HeadLen + pushed[h + 1]
                 /\ off[m + 1] - off[h + 1] <= Waiting(off)
      <3>1. m + 1 \in 1 .. Len(pushed) + 1 /\ h + 1 < m + 1 /\ h + 1 \in 1 .. Len(pushed) + 1
        BY <1>1, <2>1
      <3>2. off[h + 1] + HeadLen + pushed[h + 1] <= off[m + 1] /\ off[m + 1] \in Nat
        BY <1>2, <3>1
      <3>3. off[m + 1] <= off[Len(pushed) + 1]
        <4>1. CASE m = Len(pushed)
          BY <1>4, <4>1
        <4>2. CASE m < Len(pushed)
          <5>1. off[m + 1] + HeadLen + pushed[m + 1] <= off[Len(pushed) + 1] /\ pushed[m + 1] \in Nat
            BY <1>1, <1>2, <1>3, <3>1, <4>2
          <5> QED BY <1>4, <3>2, <5>1, QueueLengths
        <4> QED BY <1>1, <4>1, <4>2
      <3> HIDE DEF h
      <3>4. pushed[h + 1] \in Nat /\ off[h + 1] \in Nat
        BY <1>3, <1>4, <2>1 DEF h
      <3> QED BY <1>4, <3>2, <3>3, <3>4, QueueLengths DEF Waiting, h
    <2> QED BY <2>2, <2>3
  <1> QED BY <1>1, <1>2, <1>3, <1>4, <1>5, <1>6

LEMMA QueueInitInv == ASSUME Queue!Init PROVE QueueInv /\ Queue!Ordered!Init
  <1> DEFINE off == [k \in 1 .. 1 |-> 0]
  <1>1. /\ cells = [i \in 0 .. mQueueSize - 1 |-> <<0, 0>>]
        /\ mBeginIdx = 0 /\ mEndIdx = 0 /\ pushed = << >> /\ popped = << >>
        /\ pusher = [at |-> "idle", begin |-> 0, end |-> 0, len |-> 0] /\ popper = pusher
    BY DEF Queue!Init, Queue!Idle, Queue!QueueCell
  <1>2. QueueTypes
    BY <1>1, QueueLengths DEF QueueTypes, Steps
  <1>3. Laid(HeadLen, pushed, off)
    BY <1>1, QueueLengths DEF Laid
  <1>4. Waiting(off) = 0
    BY <1>1 DEF Waiting
  <1>5. QueueCarries(off) /\ PusherHolds(off) /\ PopperHolds(off)
    BY <1>1, <1>4, QueueLengths DEF QueueCarries, PusherHolds, PopperHolds, Between
  <1>6. Queue!Ordered!Init
    BY <1>1 DEF Queue!Ordered!Init
  <1> QED BY <1>2, <1>3, <1>5, <1>6 DEF QueueInv

(* In the ring of the queue: where the byte i places behind mBeginIdx is,  *)
(* counted from mEndIdx.                                                   *)
LEMMA QueuePlace ==
    ASSUME NEW b \in Int, NEW e \in Int, NEW u \in 0 .. mQueueSize, Between(b, e, u),
           NEW i \in Int
    PROVE  /\ i \in 0 .. u - 1 => (((b + i) % mQueueSize) - e) % mQueueSize = (i - u) + mQueueSize
           /\ (b + (u + i)) % mQueueSize = (e + i) % mQueueSize
           /\ i \in 0 .. mQueueSize - 1 => (((e + i) % mQueueSize) - e) % mQueueSize = i
  <1>1. mQueueSize \in Nat /\ mQueueSize > 0
    BY QueueLengths
  <1>2. ASSUME i \in 0 .. u - 1
        PROVE  (((b + i) % mQueueSize) - e) % mQueueSize = (i - u) + mQueueSize
    <2> DEFINE x == b + i
               y == (i - u) + mQueueSize
    <2>1. x \in Int /\ y \in 0 .. mQueueSize - 1
      BY <1>1, <1>2
    <2>2. x - e \in {y + 0 * mQueueSize, y + (-1) * mQueueSize}
      BY <1>1, <1>2 DEF Between
    <2> HIDE DEF x, y
    <2>3. \A q \in {-2, -1, 0, 1, 2} : (y + q * mQueueSize) % mQueueSize = y % mQueueSize
      BY <1>1, <2>1, SameCell
    <2>4. y % mQueueSize = y
      BY <1>1, <2>1, RingMod
    <2>5. (x - e) % mQueueSize = y
      BY <2>2, <2>3, <2>4
    <2>6. ((x % mQueueSize) - e) % mQueueSize = (x - e) % mQueueSize
      BY <1>1, <2>1, RingApart
    <2>7. ((x % mQueueSize) - e) % mQueueSize = y
      BY <2>5, <2>6
    <2> QED BY <2>7 DEF x, y
  <1>3. (b + (u + i)) % mQueueSize = (e + i) % mQueueSize
    <2> DEFINE y == e + i
               x == b + (u + i)
    <2>1. y \in Int /\ x \in {y + 0 * mQueueSize, y + 1 * mQueueSize}
      BY <1>1 DEF Between
    <2> HIDE DEF x, y
    <2>2. \A q \in {-2, -1, 0, 1, 2} : (y + q * mQueueSize) % mQueueSize = y % mQueueSize
      BY <1>1, <2>1, SameCell
    <2>3. x % mQueueSize = y % mQueueSize
      BY <2>1, <2>2
    <2> QED BY <2>3 DEF x, y
  <1>4. ASSUME i \in 0 .. mQueueSize - 1
        PROVE  (((e + i) % mQueueSize) - e) % mQueueSize = i
    <2> DEFINE x == e + i
    <2>1. x \in Int /\ x - e = i
      OBVIOUS
    <2> HIDE DEF x
    <2>2. ((x % mQueueSize) - e) % mQueueSize = (x - e) % mQueueSize
      BY <1>1, <2>1, RingApart
    <2>3. i % mQueueSize = i
      BY <1>1, <1>4, RingMod
    <2>4. ((x % mQueueSize) - e) % mQueueSize = i
      BY <2>1, <2>2, <2>3
    <2> QED BY <2>4 DEF x
  <1> QED BY <1>2, <1>3, <1>4

(* What Push takes for the room, and Pop for the bytes, between two        *)
(* indexes.                                                                *)
LEMMA QueueRoom ==
    ASSUME NEW b \in 0 .. mQueueSize, NEW e \in 0 .. mQueueSize,
           NEW u \in 0 .. mQueueSize - Reserve, Between(b, e, u)
    PROVE  /\ Queue!Room(b, e) = mQueueSize - u - Reserve
           /\ Queue!Used(b, e) = u
  BY QueueLengths DEF Queue!Room, Queue!Used, Between

LEMMA QueueAfter ==
    ASSUME NEW i \in 0 .. mQueueSize, NEW n \in Nat, HeadLen + n <= mQueueSize
    PROVE  Queue!After(i, n) \in 1 .. mQueueSize /\ Between(i, Queue!After(i, n), HeadLen + n)
  BY QueueLengths DEF Queue!After, Between

(* Bytes behind bytes, and bytes taken from the front.                     *)
LEMMA QueueMore ==
    ASSUME NEW b \in 0 .. mQueueSize, NEW e \in 0 .. mQueueSize, NEW u \in Nat, Between(b, e, u),
           NEW c \in 0 .. mQueueSize, NEW d \in Nat, d > 0, Between(e, c, d),
           u + d + Reserve <= mQueueSize
    PROVE  u + d \in 0 .. mQueueSize - Reserve /\ Between(b, c, u + d)
  BY QueueLengths DEF Between

LEMMA QueueLess ==
    ASSUME NEW b \in 0 .. mQueueSize, NEW e \in 0 .. mQueueSize, NEW u \in 0 .. mQueueSize - Reserve,
           Between(b, e, u), NEW c \in 1 .. mQueueSize, NEW d \in Nat, d <= u, Between(b, c, d), e > 0
    PROVE  u - d \in 0 .. mQueueSize - Reserve /\ Between(c, e, u - d)
  BY QueueLengths DEF Between

(* A step that pushes and pops nothing.                                    *)
LEMMA QueueStill ==
    ASSUME UNCHANGED <<pushed, popped>>
    PROVE  QueueStep
  BY DEF QueueStep

LEMMA PushStartInv ==
    ASSUME QueueInv, NEW n \in PushLens, Queue!PushStart(n)
    PROVE  QueueInv' /\ QueueStep
  <1>1. /\ pusher.at = "idle" /\ Len(pushed) < MaxPushes
        /\ Queue!Room(mBeginIdx, mEndIdx) >= n + HeadLen
        /\ pusher' = [at |-> "read", begin |-> mBeginIdx, end |-> mEndIdx, len |-> n]
        /\ UNCHANGED <<cells, mBeginIdx, mEndIdx, pushed, popped, popper>>
    BY DEF Queue!PushStart
  <1>2. QueueTypes
    BY DEF QueueInv
  <1>3. PICK off : /\ Laid(HeadLen, pushed, off)
                   /\ QueueCarries(off) /\ PusherHolds(off) /\ PopperHolds(off)
    BY DEF QueueInv
  <1>4. QueueTypes'
    BY <1>1, <1>2, QueueLengths DEF QueueTypes, Steps
  <1>5. Waiting(off) + HeadLen + n + Reserve <= mQueueSize
    <2>1. Queue!Room(mBeginIdx, mEndIdx) = mQueueSize - Waiting(off) - Reserve
      BY <1>2, <1>3, QueueRoom DEF QueueTypes, QueueCarries
    <2>2. Waiting(off) \in Int /\ n \in Nat
      BY <1>2, <1>3, QueueLaid, QueueLengths
    <2> HIDE DEF Waiting
    <2> QED BY <1>1, <2>1, <2>2, QueueLengths
  <1>6. Waiting(off)' = Waiting(off)
    BY <1>1 DEF Waiting
  <1>7. PusherHolds(off)'
    BY <1>1, <1>5, <1>6 DEF PusherHolds
  <1>8. QueueCarries(off)' /\ PopperHolds(off)'
    BY <1>1, <1>3, <1>6 DEF QueueCarries, PopperHolds
  <1> QED BY <1>1, <1>3, <1>4, <1>7, <1>8, QueueStill DEF QueueInv

LEMMA PushCopyInv ==
    ASSUME QueueInv, Queue!PushCopy
    PROVE  QueueInv' /\ QueueStep
  <1> DEFINE n == pusher.len
  <1>1. /\ pusher.at = "read"
        /\ cells' = [i \in 0 .. mQueueSize - 1 |->
                        IF (i - pusher.end) % mQueueSize < HeadLen + n
                        THEN <<Len(pushed) + 1, (i - pusher.end) % mQueueSize>> ELSE cells[i]]
        /\ pusher' = [pusher EXCEPT !.at = "copied"]
        /\ UNCHANGED <<mBeginIdx, mEndIdx, pushed, popped, popper>>
    BY DEF Queue!PushCopy, Queue!QueueCell
  <1>2. QueueTypes
    BY DEF QueueInv
  <1>3. PICK off : /\ Laid(HeadLen, pushed, off)
                   /\ QueueCarries(off) /\ PusherHolds(off) /\ PopperHolds(off)
    BY DEF QueueInv
  <1>4. /\ pusher.end = mEndIdx /\ n \in PushLens /\ n \in Nat /\ Len(pushed) + 1 \in 0 .. MaxPushes
        /\ Waiting(off) + HeadLen + n + Reserve <= mQueueSize
        /\ Waiting(off) \in 0 .. mQueueSize - Reserve /\ HeadLen + n \in 0 .. mQueueSize
        /\ Between(mBeginIdx, mEndIdx, Waiting(off))
        /\ mBeginIdx \in Int /\ mEndIdx \in Int /\ Len(pushed) \in Nat
    <2>1. /\ pusher.end = mEndIdx /\ n \in PushLens /\ Len(pushed) < MaxPushes
          /\ Waiting(off) + HeadLen + n + Reserve <= mQueueSize
      BY <1>1, <1>3 DEF PusherHolds
    <2>2. Waiting(off) \in 0 .. mQueueSize - Reserve /\ Between(mBeginIdx, mEndIdx, Waiting(off))
      BY <1>3 DEF QueueCarries
    <2>3. Len(pushed) \in Nat /\ n \in Nat /\ mBeginIdx \in Int /\ mEndIdx \in Int
      BY <1>2, <2>1, QueueLengths DEF QueueTypes
    <2> HIDE DEF n
    <2> QED BY <2>1, <2>2, <2>3, QueueLengths
  <1>5. \A c \in 0 .. mQueueSize - 1 :
            cells'[c] = IF (c - mEndIdx) % mQueueSize < HeadLen + n
                        THEN <<Len(pushed) + 1, (c - mEndIdx) % mQueueSize>> ELSE cells[c]
    BY <1>1, <1>4
  <1>6. \A x \in Int : x % mQueueSize \in 0 .. mQueueSize - 1
    BY QueueLengths, RingMod
  <1>7. QueueTypes'
    <2>1. cells' \in [0 .. mQueueSize - 1 -> (0 .. MaxPushes) \X (0 .. mQueueSize)]
      <3>1. \A c \in 0 .. mQueueSize - 1 : (c - mEndIdx) % mQueueSize \in 0 .. mQueueSize
        BY <1>4, <1>6, QueueLengths
      <3>2. ASSUME NEW c \in 0 .. mQueueSize - 1
            PROVE  cells'[c] \in (0 .. MaxPushes) \X (0 .. mQueueSize)
        <4> DEFINE d == (c - mEndIdx) % mQueueSize
                   w == Len(pushed) + 1
        <4>1. cells[c] \in (0 .. MaxPushes) \X (0 .. mQueueSize)
          BY <1>2 DEF QueueTypes
        <4>2. <<w, d>> \in (0 .. MaxPushes) \X (0 .. mQueueSize)
          <5>1. d \in 0 .. mQueueSize /\ w \in 0 .. MaxPushes
            BY <1>4, <3>1
          <5> HIDE DEF d, w
          <5> QED BY <5>1
        <4>3. cells'[c] = <<w, d>> \/ cells'[c] = cells[c]
          <5>1. cells'[c] = IF d < HeadLen + n THEN <<w, d>> ELSE cells[c]
            BY <1>5
          <5> HIDE DEF d, w, n
          <5> QED BY <5>1
        <4> HIDE DEF d, w
        <4> QED BY <4>1, <4>2, <4>3
      <3>3. cells' = [c \in 0 .. mQueueSize - 1 |-> cells'[c]]
        BY <1>1
      <3> QED BY <3>2, <3>3
    <2>2. pusher' \in [at : Steps, begin : 0 .. mQueueSize, end : 0 .. mQueueSize, len : Nat]
      BY <1>1, <1>2 DEF QueueTypes, Steps
    <2> QED BY <1>1, <1>2, <2>1, <2>2 DEF QueueTypes
  <1>8. pusher'.at = "copied" /\ pusher'.end = mEndIdx /\ pusher'.len = n
    BY <1>1, <1>2, <1>4 DEF QueueTypes
  <1>9. Waiting(off)' = Waiting(off)
    BY <1>1 DEF Waiting
  <1> DEFINE u == Waiting(off)
  <1>10. ASSUME NEW i \in 0 .. u - 1
         PROVE  cells'[(mBeginIdx + i) % mQueueSize] = cells[(mBeginIdx + i) % mQueueSize]
    <2> HIDE DEF u
    <2>1. u \in 0 .. mQueueSize /\ i \in Int
      BY <1>4, QueueLengths DEF u
    <2> DEFINE c == (mBeginIdx + i) % mQueueSize
    <2>2. (c - mEndIdx) % mQueueSize = (i - u) + mQueueSize
      BY <1>4, <2>1, QueuePlace DEF u
    <2>3. c \in 0 .. mQueueSize - 1
      <3>1. mBeginIdx + i \in Int
        BY <1>4, <2>1
      <3> QED BY <1>6, <3>1
    <2> HIDE DEF n
    <2>4. ~((i - u) + mQueueSize < HeadLen + n)
      <3>1. u + HeadLen + n + Reserve <= mQueueSize
        BY <1>4 DEF u
      <3> QED BY <1>4, <2>1, <3>1, QueueLengths
    <2> HIDE DEF c
    <2>5. cells'[c] = cells[c]
      BY <1>5, <2>2, <2>3, <2>4
    <2> QED BY <2>5 DEF c
  <1>11. ASSUME NEW j \in 0 .. HeadLen + n - 1
         PROVE  cells'[(mEndIdx + j) % mQueueSize] = <<Len(pushed) + 1, j>>
    <2> DEFINE c == (mEndIdx + j) % mQueueSize
    <2>1. j \in 0 .. mQueueSize - 1 /\ j \in Int /\ j < HeadLen + n
      BY <1>4, QueueLengths
    <2>2. (c - mEndIdx) % mQueueSize = j
      <3>1. u \in 0 .. mQueueSize
        BY <1>4, QueueLengths
      <3> HIDE DEF u
      <3> QED BY <1>4, <2>1, <3>1, QueuePlace DEF u
    <2>3. c \in 0 .. mQueueSize - 1
      <3>1. mEndIdx + j \in Int
        BY <1>4, <2>1
      <3> QED BY <1>6, <3>1
    <2> HIDE DEF c
    <2>4. cells'[c] = <<Len(pushed) + 1, j>>
      BY <1>5, <2>1, <2>2, <2>3
    <2> QED BY <2>4 DEF c
  <1>12. QueueCarries(off)'
    <2> HIDE DEF u
    <2> QED BY <1>1, <1>3, <1>9, <1>10 DEF QueueCarries, u
  <1>13. PusherHolds(off)'
    <2>1. /\ pusher'.end = mEndIdx' /\ pusher'.len \in PushLens /\ Len(pushed') < MaxPushes
          /\ Waiting(off)' + HeadLen + pusher'.len + Reserve <= mQueueSize
      <3>1. Len(pushed') < MaxPushes
        BY <1>1, <1>3 DEF PusherHolds
      <3> HIDE DEF n
      <3> QED BY <1>1, <1>4, <1>8, <1>9, <3>1
    <2>2. \A j \in 0 .. HeadLen + pusher'.len - 1 :
              cells'[(mEndIdx' + j) % mQueueSize] = <<Len(pushed') + 1, j>>
      <3> HIDE DEF n
      <3> QED BY <1>1, <1>8, <1>11
    <2> QED BY <2>1, <2>2 DEF PusherHolds
  <1>14. PopperHolds(off)'
    BY <1>1, <1>3 DEF PopperHolds
  <1> QED BY <1>1, <1>3, <1>7, <1>12, <1>13, <1>14, QueueStill DEF QueueInv

(* Push lets the other side see its message: the bytes that it copied are  *)
(* those of the stream behind the ones that wait.                          *)
LEMMA PushPublishInv ==
    ASSUME QueueInv, Queue!PushPublish
    PROVE  QueueInv' /\ QueueStep
  <1> DEFINE n == pusher.len
             m == Len(pushed)
             h == Len(popped)
  <1>1. /\ pusher.at = "copied"
        /\ mEndIdx' = Queue!After(pusher.end, n) /\ pushed' = Append(pushed, n)
        /\ pusher' = [at |-> "idle", begin |-> 0, end |-> 0, len |-> 0]
        /\ UNCHANGED <<cells, mBeginIdx, popped, popper>>
    BY DEF Queue!PushPublish, Queue!Idle
  <1>2. QueueTypes
    BY DEF QueueInv
  <1>3. PICK off : /\ Laid(HeadLen, pushed, off)
                   /\ QueueCarries(off) /\ PusherHolds(off) /\ PopperHolds(off)
    BY DEF QueueInv
  <1> DEFINE u == Waiting(off)
             need == HeadLen + n
  <1>4. /\ pusher.end = mEndIdx /\ n \in PushLens /\ m < MaxPushes
        /\ u + HeadLen + n + Reserve <= mQueueSize
        /\ u \in 0 .. mQueueSize - Reserve /\ Between(mBeginIdx, mEndIdx, u)
    BY <1>1, <1>3 DEF PusherHolds, QueueCarries
  <1>4a. /\ \A j \in 0 .. HeadLen + n - 1 : cells[(mEndIdx + j) % mQueueSize] = <<m + 1, j>>
         /\ \A i \in 0 .. u - 1 :
              ByteAt(HeadLen, pushed, off, cells[(mBeginIdx + i) % mQueueSize], off[h + 1] + i)
    BY <1>1, <1>3 DEF PusherHolds, QueueCarries
  <1>5. /\ m \in Nat /\ h \in Nat /\ h <= m /\ pushed \in Seq(Nat) /\ u \in Int
        /\ \A k \in 1 .. m + 1 : off[k] \in Nat
        /\ off[m + 1] \in Nat /\ off[h + 1] \in Nat /\ u = off[m + 1] - off[h + 1]
    BY <1>2, <1>3, QueueLaid DEF Waiting
  <1>6. /\ n \in Nat /\ need \in Nat /\ need > 0 /\ mBeginIdx \in 0 .. mQueueSize /\ mEndIdx \in 0 .. mQueueSize
        /\ Len(pushed') = m + 1 /\ \A k \in 1 .. m : pushed'[k] = pushed[k]
    <2>1. n \in Nat /\ mBeginIdx \in 0 .. mQueueSize /\ mEndIdx \in 0 .. mQueueSize
      BY <1>2, <1>4, QueueLengths DEF QueueTypes
    <2>2. Len(pushed') = m + 1 /\ \A k \in 1 .. m : pushed'[k] = pushed[k]
      BY <1>1, <1>5, <2>1
    <2> HIDE DEF n, m
    <2> QED BY <2>1, <2>2, QueueLengths
  <1>7. PICK on :
            /\ Laid(HeadLen, pushed', on)
            /\ \A k \in 1 .. m + 1 : on[k] = off[k]
            /\ on[m + 2] = off[m + 1] + HeadLen + n
            /\ \A b, p : ByteAt(HeadLen, pushed, off, b, p) => ByteAt(HeadLen, pushed', on, b, p)
            /\ \A j \in 0 .. HeadLen + n - 1 :
                  ByteAt(HeadLen, pushed', on, <<m + 1, j>>, off[m + 1] + j)
    BY <1>1, <1>3, <1>5, <1>6, QueueLengths, Extended
  <1>8. /\ on[h + 1] = off[h + 1] /\ on[Len(pushed') + 1] = off[m + 1] + need
        /\ on[Len(pushed') + 1] - on[Len(popped') + 1] = u + need
    <2>1. h + 1 \in 1 .. m + 1 /\ Len(pushed') + 1 = m + 2
      BY <1>5, <1>6
    <2>2. on[h + 1] = off[h + 1] /\ on[Len(pushed') + 1] = off[m + 1] + HeadLen + n
      BY <1>7, <2>1
    <2>3. popped' = popped /\ Len(popped) = h
      BY <1>1 DEF h
    <2> HIDE DEF n, u, m, h
    <2> QED BY <1>5, <1>6, <2>2, <2>3, QueueLengths
  <1>9. QueueTypes'
    <2>1. mEndIdx' \in 0 .. mQueueSize
      <3>1. HeadLen + n <= mQueueSize
        <4> HIDE DEF u, n
        <4> QED BY <1>4, <1>6, QueueLengths
      <3>2. Queue!After(mEndIdx, n) \in 1 .. mQueueSize
        BY <1>6, <3>1, QueueAfter
      <3>3. mEndIdx' = Queue!After(mEndIdx, n)
        BY <1>1, <1>4
      <3> HIDE DEF n
      <3> QED BY <3>2, <3>3
    <2>2. pushed' \in Seq(PushLens) /\ Len(pushed') <= MaxPushes /\ Len(popped') <= Len(pushed')
      <3>1. pushed' \in Seq(PushLens)
        BY <1>1, <1>2, <1>4 DEF QueueTypes
      <3> HIDE DEF n, m, h, u, need
      <3>2. m + 1 <= MaxPushes /\ h <= m + 1
        BY <1>4, <1>5, QueueLengths
      <3>3. popped' = popped /\ Len(popped) = h
        BY <1>1 DEF h
      <3> QED BY <1>6, <3>1, <3>2, <3>3
    <2>3. pusher' \in [at : Steps, begin : 0 .. mQueueSize, end : 0 .. mQueueSize, len : Nat]
      BY <1>1, QueueLengths DEF Steps
    <2> QED BY <1>1, <1>2, <2>1, <2>2, <2>3 DEF QueueTypes
  <1> HIDE DEF n, m, h, u
  <1>10. /\ u + need \in 0 .. mQueueSize - Reserve
         /\ Between(mBeginIdx, mEndIdx', u + need) /\ mEndIdx' # 0
    <2> HIDE DEF need
    <2>1. mEndIdx' \in 1 .. mQueueSize /\ Between(mEndIdx, mEndIdx', need)
      <3>1. HeadLen + n <= mQueueSize
        BY <1>4, <1>6, QueueLengths
      <3>2. Queue!After(mEndIdx, n) \in 1 .. mQueueSize /\ Between(mEndIdx, Queue!After(mEndIdx, n), HeadLen + n)
        BY <1>6, <3>1, QueueAfter
      <3>3. mEndIdx' = Queue!After(mEndIdx, n)
        BY <1>1, <1>4
      <3> QED BY <3>2, <3>3 DEF need
    <2>2. u + need + Reserve <= mQueueSize
      BY <1>4, <1>5, <1>6, QueueLengths DEF need
    <2>3. u \in Nat /\ mEndIdx' \in 0 .. mQueueSize /\ mEndIdx' # 0
      BY <1>4, <2>1, QueueLengths
    <2>4. u + need \in 0 .. mQueueSize - Reserve /\ Between(mBeginIdx, mEndIdx', u + need)
      BY <1>4, <1>6, <2>1, <2>2, <2>3, QueueMore
    <2> QED BY <2>3, <2>4
  <1>11. ASSUME NEW i \in 0 .. (u + need) - 1
         PROVE  ByteAt(HeadLen, pushed', on, cells[(mBeginIdx + i) % mQueueSize], off[h + 1] + i)
    <2>1. CASE i < u
      <3>1. i \in 0 .. u - 1
        BY <1>4, <1>5, <1>6, <2>1
      <3> QED BY <1>4a, <1>7, <3>1
    <2>2. CASE ~(i < u)
      <3>1. PICK j \in 0 .. HeadLen + n - 1 : i = u + j
        <4>1. i - u \in 0 .. HeadLen + n - 1 /\ i = u + (i - u)
          <5>1. u \in Nat /\ n \in Nat /\ HeadLen \in Nat /\ i \in 0 .. u + (HeadLen + n) - 1
            <6>1. i \in 0 .. (u + (HeadLen + n)) - 1
              BY DEF need
            <6>2. u \in Nat /\ n \in Nat /\ HeadLen \in Nat
              BY <1>4, <1>6, QueueLengths
            <6> QED BY <6>1, <6>2
          <5> QED BY <2>2, <5>1
        <4> QED BY <4>1
      <3>2. (mBeginIdx + i) % mQueueSize = (mEndIdx + j) % mQueueSize
        <4>1. u \in 0 .. mQueueSize /\ j \in Int /\ mBeginIdx \in Int /\ mEndIdx \in Int
          BY <1>4, <1>5, <1>6, QueueLengths
        <4>2. (mBeginIdx + (u + j)) % mQueueSize = (mEndIdx + j) % mQueueSize
          BY <1>4, <4>1, QueuePlace
        <4> QED BY <3>1, <4>2
      <3>3. off[h + 1] + i = off[m + 1] + j
        <4>1. j \in Int /\ off[h + 1] \in Int /\ off[m + 1] \in Int /\ u = off[m + 1] - off[h + 1]
          BY <1>5
        <4>2. \A x, y \in Int : x + ((y - x) + j) = y + j
          OBVIOUS
        <4> QED BY <3>1, <4>1, <4>2
      <3> QED BY <1>4a, <1>7, <3>1, <3>2, <3>3
    <2> QED BY <2>1, <2>2
  <1>12. QueueCarries(on)'
    <2> DEFINE G == on[Len(popped') + 1]
               w == on[Len(pushed') + 1] - on[Len(popped') + 1]
    <2>1. G = off[h + 1] /\ w = u + need
      BY <1>1, <1>8 DEF h
    <2> HIDE DEF G, w, need
    <2> SUFFICES
          /\ w \in 0 .. mQueueSize - Reserve
          /\ Between(mBeginIdx', mEndIdx', w)
          /\ mEndIdx' = 0 => mBeginIdx' = 0 /\ w = 0
          /\ \A i \in 0 .. w - 1 :
                ByteAt(HeadLen, pushed', on, cells'[(mBeginIdx' + i) % mQueueSize], G + i)
      BY Zenon DEF QueueCarries, Waiting, Between, G, w
    <2>2. Between(mBeginIdx', mEndIdx', w)
      BY <1>1, <1>10, <2>1
    <2> QED BY <1>1, <1>10, <1>11, <2>1, <2>2
  <1>13. PusherHolds(on)'
    BY <1>1 DEF PusherHolds
  <1>14. PopperHolds(on)'
    <2>1. popper.at # "idle" => popper.begin = mBeginIdx /\ h < m
      BY <1>3 DEF PopperHolds, h, m
    <2>2. popper.at = "read" =>
             \E l \in h + 1 .. Len(pushed') :
                Between(popper.begin, popper.end, on[l + 1] - on[h + 1])
      <3> SUFFICES ASSUME popper.at = "read"
                   PROVE  \E l \in h + 1 .. Len(pushed') :
                             Between(popper.begin, popper.end, on[l + 1] - on[h + 1])
        OBVIOUS
      <3>1. PICK l \in h + 1 .. m : Between(popper.begin, popper.end, off[l + 1] - off[h + 1])
        BY <1>3 DEF PopperHolds, h, m
      <3>2. on[l + 1] = off[l + 1] /\ l \in h + 1 .. Len(pushed')
        BY <1>5, <1>6, <1>7, <3>1
      <3> QED BY <1>8, <3>1, <3>2
    <2>3. popper.at = "copied" => popper.end = h + 1 /\ popper.len = pushed'[h + 1]
      <3>1. popper.at = "copied" => popper.end = h + 1 /\ popper.len = pushed[h + 1]
        BY <1>3 DEF PopperHolds, h
      <3>2. h < m => pushed'[h + 1] = pushed[h + 1]
        BY <1>5, <1>6
      <3> QED BY <2>1, <3>1, <3>2
    <2>4. /\ popper' = popper /\ Len(popped') = h /\ mBeginIdx' = mBeginIdx /\ (h < m => h < Len(pushed'))
      BY <1>1, <1>5, <1>6 DEF h
    <2>5. /\ popper'.at # "idle" => popper'.begin = mBeginIdx' /\ Len(popped') < Len(pushed')
          /\ popper'.at = "read" => popper'.end \in 0 .. mQueueSize
      BY <1>3, <2>1, <2>4 DEF PopperHolds
    <2>6. popper'.at = "read" =>
             \E l \in Len(popped') + 1 .. Len(pushed') :
                 Between(popper'.begin, popper'.end, on[l + 1] - on[Len(popped') + 1])
      BY <2>2, <2>4
    <2>7. popper'.at = "copied" => popper'.end = Len(popped') + 1 /\ popper'.len = pushed'[Len(popped') + 1]
      BY <2>3, <2>4
    <2> QED BY <2>5, <2>6, <2>7 DEF PopperHolds, Between
  <1>15. QueueStep
    <2>1. [k \in 1 .. Len(pushed') |-> k] = Append([k \in 1 .. Len(pushed) |-> k], m + 1)
      BY <1>5, <1>6 DEF m
    <2>2. m + 1 \in 1 .. MaxPushes
      BY <1>4, <1>5, QueueLengths
    <2>3. UNCHANGED <<popped, FALSE>>
      BY <1>1
    <2> QED BY <2>1, <2>2, <2>3 DEF QueueStep, Queue!Ordered!Next, Queue!Ordered!Accept
  <1> QED BY <1>7, <1>9, <1>12, <1>13, <1>14, <1>15 DEF QueueInv

(* The bytes at mBeginIdx, when a message waits: the next one, whole.      *)
LEMMA PopFront ==
    ASSUME QueueTypes, NEW off, Laid(HeadLen, pushed, off), QueueCarries(off),
           Len(popped) < Len(pushed)
    PROVE  /\ Waiting(off) >= HeadLen + pushed[Len(popped) + 1]
           /\ \A j \in 0 .. HeadLen + pushed[Len(popped) + 1] - 1 :
                 cells[(mBeginIdx + j) % mQueueSize] = <<Len(popped) + 1, j>>
           /\ Queue!HeadAt(mBeginIdx) = pushed[Len(popped) + 1]
  <1> DEFINE h == Len(popped)
             n == pushed[h + 1]
             u == Waiting(off)
  <1>1. /\ Len(pushed) \in Nat /\ h \in Nat /\ h < Len(pushed) /\ pushed \in Seq(Nat)
        /\ n \in Nat /\ n >= 1 /\ h + 1 \in 1 .. Len(pushed) /\ u \in Int /\ u >= HeadLen + n
    <2>1. /\ Len(pushed) \in Nat /\ h \in Nat /\ pushed \in Seq(Nat) /\ u \in Int
          /\ \A k \in 1 .. Len(pushed) : pushed[k] \in Nat /\ pushed[k] >= 1
          /\ \A m \in h + 1 .. Len(pushed) :
                off[m + 1] - off[h + 1] >= HeadLen + n /\ off[m + 1] - off[h + 1] <= u
      BY QueueLaid
    <2>2. off[Len(pushed) + 1] - off[h + 1] = u
      BY DEF Waiting
    <2>3. Len(pushed) \in h + 1 .. Len(pushed) /\ h + 1 \in 1 .. Len(pushed)
      BY <2>1
    <2>4. u >= HeadLen + n
      BY <2>1, <2>2, <2>3
    <2> QED BY <2>1, <2>3, <2>4
  <1> HIDE DEF n, u
  <1>2. ASSUME NEW j \in 0 .. HeadLen + n - 1
        PROVE  cells[(mBeginIdx + j) % mQueueSize] = <<h + 1, j>>
    <2>1. j \in Nat /\ j < HeadLen + n /\ j \in 0 .. u - 1
      BY <1>1, QueueLengths
    <2> DEFINE b == cells[(mBeginIdx + j) % mQueueSize]
    <2>2. ByteAt(HeadLen, pushed, off, b, off[h + 1] + j)
      BY <2>1 DEF QueueCarries, u
    <2>3. h \in 0 .. Len(pushed) /\ HeadLen \in Nat
      BY <1>1, QueueLengths
    <2> HIDE DEF b, h
    <2>4. j < HeadLen + pushed[h + 1] => b = <<h + 1, j>>
      BY <1>1, <2>1, <2>2, <2>3, Placed
    <2> QED BY <2>1, <2>4 DEF b, n
  <1>3. Queue!HeadAt(mBeginIdx) = n
    <2>1. \A j \in 0 .. HeadLen - 1 : cells[Queue!CellAt(mBeginIdx, j)] = <<h + 1, j>>
      <3>1. \A j \in 0 .. HeadLen - 1 : j \in 0 .. HeadLen + n - 1
        BY <1>1, QueueLengths
      <3> QED BY <1>2, <3>1 DEF Queue!CellAt
    <2>2. cells[Queue!CellAt(mBeginIdx, 0)][1] = h + 1
      <3>1. 0 \in 0 .. HeadLen - 1
        BY QueueLengths
      <3> QED BY <2>1, <3>1
    <2>3. h + 1 # 0 /\ h + 1 \in DOMAIN pushed /\ pushed[h + 1] = n
      BY <1>1 DEF n
    <2> HIDE DEF h
    <2> QED BY <2>1, <2>2, <2>3, Zenon DEF Queue!HeadAt
  <1> QED BY <1>1, <1>2, <1>3 DEF n, u

(* A call of Pop that has read the indexes finds the next message between  *)
(* them, whatever has been pushed since.                                   *)
LEMMA PopFinds ==
    ASSUME QueueInv, popper.at = "read"
    PROVE  /\ popper.begin = mBeginIdx /\ Len(popped) < Len(pushed)
           /\ pushed[Len(popped) + 1] \in Nat /\ pushed[Len(popped) + 1] >= 1
           /\ Queue!Used(popper.begin, popper.end) \in Nat
           /\ Queue!Used(popper.begin, popper.end) >= HeadLen + pushed[Len(popped) + 1]
           /\ Queue!HeadAt(popper.begin) = pushed[Len(popped) + 1]
           /\ \A j \in 0 .. HeadLen + pushed[Len(popped) + 1] - 1 :
                 cells[Queue!CellAt(popper.begin, j)] = <<Len(popped) + 1, j>>
           /\ Queue!PopFits
  <1> DEFINE h == Len(popped)
             n == pushed[h + 1]
  <1>1. QueueTypes
    BY DEF QueueInv
  <1>2. PICK off : Laid(HeadLen, pushed, off) /\ QueueCarries(off) /\ PopperHolds(off)
    BY DEF QueueInv
  <1>3. popper.begin = mBeginIdx /\ h < Len(pushed)
    BY <1>2 DEF PopperHolds
  <1>4. PICK m \in h + 1 .. Len(pushed) :
           Between(popper.begin, popper.end, off[m + 1] - off[h + 1])
    BY <1>2 DEF PopperHolds
  <1>5. /\ n \in Nat /\ n >= 1
        /\ off[m + 1] - off[h + 1] >= HeadLen + n /\ off[m + 1] - off[h + 1] <= Waiting(off)
        /\ off[m + 1] - off[h + 1] \in Int
    <2>1. /\ Len(pushed) \in Nat /\ h \in Nat
          /\ \A k \in 1 .. Len(pushed) + 1 : off[k] \in Nat
          /\ \A k \in 1 .. Len(pushed) : pushed[k] \in Nat /\ pushed[k] >= 1
          /\ \A l \in h + 1 .. Len(pushed) :
                off[l + 1] - off[h + 1] >= HeadLen + n /\ off[l + 1] - off[h + 1] <= Waiting(off)
      BY <1>1, <1>2, <1>3, QueueLaid
    <2>2. h + 1 \in 1 .. Len(pushed) /\ h + 1 \in 1 .. Len(pushed) + 1 /\ m + 1 \in 1 .. Len(pushed) + 1
      BY <1>3, <1>4, <2>1
    <2>3. off[m + 1] \in Nat /\ off[h + 1] \in Nat
      BY <2>1, <2>2
    <2>4. off[m + 1] - off[h + 1] \in Int
      BY <2>3
    <2> QED BY <2>1, <2>2, <2>4
  <1> DEFINE l == off[m + 1] - off[h + 1]
  <1>6. l \in 0 .. mQueueSize - Reserve
    <2>1. Waiting(off) \in 0 .. mQueueSize - Reserve
      BY <1>2 DEF QueueCarries
    <2> HIDE DEF l, n
    <2>2. l \in Int /\ n \in Nat /\ l >= HeadLen + n /\ l <= Waiting(off)
      BY <1>5 DEF l, n
    <2> QED BY <2>1, <2>2, QueueLengths
  <1>7. Queue!Used(popper.begin, popper.end) = l
    <2>1. popper.begin \in 0 .. mQueueSize
      BY <1>1, <1>3 DEF QueueTypes
    <2>2. popper.end \in 0 .. mQueueSize
      BY <1>2 DEF PopperHolds
    <2> HIDE DEF l
    <2> QED BY <1>4, <1>6, <2>1, <2>2, QueueRoom DEF l
  <1>8. /\ Queue!HeadAt(popper.begin) = n
        /\ \A j \in 0 .. HeadLen + n - 1 : cells[Queue!CellAt(popper.begin, j)] = <<h + 1, j>>
    BY <1>1, <1>2, <1>3, PopFront DEF Queue!CellAt
  <1> HIDE DEF l, n
  <1>9. l \in Nat /\ l >= HeadLen + n /\ n \in Nat /\ n >= 1
    BY <1>5, <1>6 DEF l, n
  <1>10. Queue!PopFits
    BY <1>7, <1>8, <1>9, QueueLengths DEF Queue!PopFits
  <1> QED BY <1>3, <1>7, <1>8, <1>9, <1>10 DEF n

LEMMA PopStartInv ==
    ASSUME QueueInv, Queue!PopStart
    PROVE  QueueInv' /\ QueueStep
  <1>1. /\ mBeginIdx # mEndIdx
        /\ popper' = [at |-> "read", begin |-> mBeginIdx, end |-> mEndIdx, len |-> 0]
        /\ UNCHANGED <<cells, mBeginIdx, mEndIdx, pushed, popped, pusher>>
    BY DEF Queue!PopStart
  <1>2. QueueTypes
    BY DEF QueueInv
  <1>3. PICK off : /\ Laid(HeadLen, pushed, off)
                   /\ QueueCarries(off) /\ PusherHolds(off) /\ PopperHolds(off)
    BY DEF QueueInv
  <1>4. QueueTypes'
    <2>1. popper' \in [at : Steps, begin : 0 .. mQueueSize, end : Nat, len : Nat]
      BY <1>1, <1>2, QueueLengths DEF QueueTypes, Steps
    <2>2. UNCHANGED <<cells, mBeginIdx, mEndIdx, pushed, popped, pusher>>
      BY <1>1
    <2> QED BY <1>2, <2>1, <2>2 DEF QueueTypes
  <1>5. /\ Len(pushed) \in Nat /\ Len(popped) \in Nat /\ Len(popped) <= Len(pushed)
        /\ Len(popped) = Len(pushed) => Waiting(off) = 0
    BY <1>2, <1>3, QueueLaid
  <1>6. Len(popped) < Len(pushed)
    <2>1. Waiting(off) # 0
      <3> SUFFICES ASSUME Waiting(off) = 0 PROVE FALSE
        OBVIOUS
      <3>1. mEndIdx - mBeginIdx = 0 \/ mEndIdx - mBeginIdx = 0 - mQueueSize
        BY <1>3 DEF QueueCarries, Between
      <3>2. mEndIdx = 0 => mBeginIdx = 0
        BY <1>3 DEF QueueCarries
      <3>3. mBeginIdx \in 0 .. mQueueSize /\ mEndIdx \in 0 .. mQueueSize
        BY <1>2 DEF QueueTypes
      <3> QED BY <1>1, <3>1, <3>2, <3>3, QueueLengths
    <2> QED BY <1>5, <2>1
  <1>7. QueueCarries(off)' /\ PusherHolds(off)'
    BY <1>1, <1>3 DEF QueueCarries, PusherHolds, Waiting, Between
  <1>8. PopperHolds(off)'
    <2>1. mEndIdx \in 0 .. mQueueSize
      BY <1>2 DEF QueueTypes
    <2>2. Between(mBeginIdx, mEndIdx, off[Len(pushed) + 1] - off[Len(popped) + 1])
      BY <1>3 DEF QueueCarries, Waiting
    <2>3. Len(pushed) \in Len(popped) + 1 .. Len(pushed)
      BY <1>5, <1>6
    <2>4. \E m \in Len(popped) + 1 .. Len(pushed) :
              Between(mBeginIdx, mEndIdx, off[m + 1] - off[Len(popped) + 1])
      BY <2>2, <2>3
    <2>5. /\ popper'.at = "read" /\ popper'.begin = mBeginIdx' /\ popper'.end = mEndIdx
          /\ mBeginIdx' = mBeginIdx /\ popped' = popped /\ pushed' = pushed
      BY <1>1
    <2> QED BY <1>6, <2>1, <2>4, <2>5 DEF PopperHolds, Between
  <1> QED BY <1>1, <1>3, <1>4, <1>7, <1>8, QueueStill DEF QueueInv

(* Pop fails only for a message that the caller has no room for, and takes *)
(* nothing then.                                                           *)
LEMMA PopErrorInv ==
    ASSUME QueueInv, Queue!PopError
    PROVE  QueueInv' /\ QueueStep
  <1>1. /\ popper.at = "read"
        /\ mBeginIdx' = IF Queue!Used(popper.begin, popper.end) <= HeadLen THEN popper.end ELSE mBeginIdx
        /\ popper' = [at |-> "idle", begin |-> 0, end |-> 0, len |-> 0]
        /\ UNCHANGED <<cells, mEndIdx, pushed, popped, pusher>>
    BY DEF Queue!PopError, Queue!Idle
  <1>2. QueueTypes
    BY DEF QueueInv
  <1>3. PICK off : /\ Laid(HeadLen, pushed, off)
                   /\ QueueCarries(off) /\ PusherHolds(off) /\ PopperHolds(off)
    BY DEF QueueInv
  <1>4. mBeginIdx' = mBeginIdx
    <2> DEFINE n == pushed[Len(popped) + 1]
               l == Queue!Used(popper.begin, popper.end)
    <2>1. n \in Nat /\ n >= 1 /\ l \in Nat /\ l >= HeadLen + n
      BY <1>1, PopFinds
    <2>2. mBeginIdx' = IF l <= HeadLen THEN popper.end ELSE mBeginIdx
      BY <1>1
    <2> HIDE DEF n, l
    <2> QED BY <2>1, <2>2, QueueLengths
  <1>5. QueueTypes'
    <2>1. popper' \in [at : Steps, begin : 0 .. mQueueSize, end : Nat, len : Nat]
      BY <1>1, QueueLengths DEF Steps
    <2>2. UNCHANGED <<cells, mEndIdx, pushed, popped, pusher>>
      BY <1>1
    <2> QED BY <1>2, <1>4, <2>1, <2>2 DEF QueueTypes
  <1>6. QueueCarries(off)' /\ PusherHolds(off)' /\ PopperHolds(off)'
    BY <1>1, <1>3, <1>4 DEF QueueCarries, PusherHolds, PopperHolds, Waiting, Between
  <1> QED BY <1>1, <1>3, <1>5, <1>6, QueueStill DEF QueueInv

LEMMA PopCopyInv ==
    ASSUME QueueInv, Queue!PopCopy
    PROVE  QueueInv' /\ QueueStep
  <1> DEFINE h == Len(popped)
             n == Queue!HeadAt(popper.begin)
             k == cells[Queue!CellAt(popper.begin, 0)][1]
             whole == \A j \in 0 .. HeadLen + n - 1 : cells[Queue!CellAt(popper.begin, j)] = <<k, j>>
  <1>1. /\ popper.at = "read"
        /\ popper' = [popper EXCEPT !.at = "copied", !.len = n, !.end = IF whole THEN k ELSE 0]
        /\ UNCHANGED <<cells, mBeginIdx, mEndIdx, pushed, popped, pusher>>
    BY Zenon DEF Queue!PopCopy
  <1>2. QueueTypes
    BY DEF QueueInv
  <1>3. PICK off : /\ Laid(HeadLen, pushed, off)
                   /\ QueueCarries(off) /\ PusherHolds(off) /\ PopperHolds(off)
    BY DEF QueueInv
  <1>4. /\ popper.begin = mBeginIdx /\ h < Len(pushed) /\ n = pushed[h + 1] /\ n \in Nat /\ n >= 1
        /\ \A j \in 0 .. HeadLen + n - 1 : cells[Queue!CellAt(popper.begin, j)] = <<h + 1, j>>
    <2> HIDE DEF h
    <2> QED BY <1>1, PopFinds DEF h
  <1>5. k = h + 1 /\ whole
    <2>1. 0 \in 0 .. HeadLen + n - 1
      <3> HIDE DEF n
      <3> QED BY <1>4, QueueLengths
    <2>2. cells[Queue!CellAt(popper.begin, 0)] = <<h + 1, 0>>
      BY <1>4, <2>1
    <2>3. k = h + 1
      BY <2>2
    <2> HIDE DEF k, n
    <2> QED BY <1>4, <2>3
  <1> HIDE DEF whole, k, n
  <1>6. /\ popper' \in [at : Steps, begin : 0 .. mQueueSize, end : Nat, len : Nat]
        /\ popper'.at = "copied" /\ popper'.begin = mBeginIdx
        /\ popper'.end = h + 1 /\ popper'.len = pushed[h + 1]
    <2>1. popper' = [popper EXCEPT !.at = "copied", !.len = n, !.end = h + 1]
      BY <1>1, <1>5
    <2>2. popper \in [at : Steps, begin : 0 .. mQueueSize, end : Nat, len : Nat] /\ h + 1 \in Nat
      BY <1>2 DEF QueueTypes
    <2> HIDE DEF h
    <2> QED BY <1>4, <2>1, <2>2 DEF Steps
  <1>7. QueueTypes'
    BY <1>1, <1>2, <1>6 DEF QueueTypes
  <1>8. QueueCarries(off)' /\ PusherHolds(off)'
    BY <1>1, <1>3 DEF QueueCarries, PusherHolds, Waiting, Between
  <1>9. PopperHolds(off)'
    BY <1>1, <1>4, <1>6 DEF PopperHolds
  <1> QED BY <1>1, <1>3, <1>7, <1>8, <1>9, QueueStill DEF QueueInv

(* Pop returns the next message, and its bytes are free.                   *)
LEMMA PopReturnInv ==
    ASSUME QueueInv, Queue!PopReturn
    PROVE  QueueInv' /\ QueueStep
  <1> DEFINE h == Len(popped)
             n == pushed[h + 1]
  <1>1. /\ popper.at = "copied"
        /\ mBeginIdx' = Queue!After(popper.begin, popper.len)
        /\ popped' = Append(popped, popper.end)
        /\ popper' = [at |-> "idle", begin |-> 0, end |-> 0, len |-> 0]
        /\ UNCHANGED <<cells, mEndIdx, pushed, pusher>>
    BY DEF Queue!PopReturn, Queue!Idle
  <1>2. QueueTypes
    BY DEF QueueInv
  <1>3. PICK off : /\ Laid(HeadLen, pushed, off)
                   /\ QueueCarries(off) /\ PusherHolds(off) /\ PopperHolds(off)
    BY DEF QueueInv
  <1>4. /\ h < Len(pushed) /\ mBeginIdx' = Queue!After(mBeginIdx, n)
        /\ popped' = Append(popped, h + 1)
    BY <1>1, <1>3 DEF PopperHolds
  <1> DEFINE u == Waiting(off)
             d == HeadLen + n
  <1>5. /\ h \in Nat /\ Len(pushed) \in Nat /\ n \in Nat
        /\ off[h + 1] \in Nat /\ off[h + 2] = off[h + 1] + HeadLen + n
        /\ h + 1 \in 1 .. Len(pushed)
    <2>1. /\ h \in Nat /\ Len(pushed) \in Nat /\ off[h + 1] \in Nat
          /\ \A k \in 1 .. Len(pushed) : pushed[k] \in Nat
          /\ off[h + 2] = off[h + 1] + HeadLen + n
      BY <1>2, <1>3, <1>4, QueueLaid
    <2> QED BY <1>4, <2>1
  <1>6. u >= d
    BY <1>2, <1>3, <1>4, PopFront
  <1>7. /\ u \in 0 .. mQueueSize - Reserve /\ Between(mBeginIdx, mEndIdx, u)
        /\ mEndIdx = 0 => mBeginIdx = 0 /\ u = 0
    BY <1>3 DEF QueueCarries
  <1>8. /\ popped \in Seq(0 .. MaxPushes) /\ \A k \in 1 .. h : popped[k] = k
        /\ mBeginIdx \in 0 .. mQueueSize /\ mEndIdx \in 0 .. mQueueSize /\ Len(pushed) <= MaxPushes
    BY <1>2 DEF QueueTypes
  <1>9. u = off[Len(pushed) + 1] - off[h + 1] /\ off[Len(pushed) + 1] \in Nat
    BY <1>2, <1>3, QueueLaid DEF Waiting
  <1> HIDE DEF u, n
  <1>10. popped' \in Seq(0 .. MaxPushes) /\ Len(popped') = h + 1 /\ \A k \in 1 .. h + 1 : popped'[k] = k
    <2>1. h + 1 \in 0 .. MaxPushes
      BY <1>5, <1>8, QueueLengths
    <2> QED BY <1>4, <1>8, <2>1
  <1> HIDE DEF h
  <1>11. d \in Nat /\ d > 0 /\ d <= u /\ d <= mQueueSize
    BY <1>5, <1>6, <1>7, QueueLengths
  <1>12. mBeginIdx' \in 1 .. mQueueSize /\ Between(mBeginIdx, mBeginIdx', d)
    BY <1>4, <1>5, <1>8, <1>11, QueueAfter
  <1> HIDE DEF d
  <1>13. mEndIdx > 0
    BY <1>7, <1>8, <1>11
  <1>14. u - d \in 0 .. mQueueSize - Reserve /\ Between(mBeginIdx', mEndIdx, u - d)
    BY <1>7, <1>8, <1>11, <1>12, <1>13, QueueLess
  <1>15. /\ off[Len(pushed') + 1] - off[Len(popped') + 1] = u - d
         /\ off[Len(popped') + 1] = off[h + 1] + d
    <2>1. Len(popped') + 1 = h + 2
      BY <1>5, <1>10
    <2>2. off[h + 2] = off[h + 1] + d
      BY <1>5, QueueLengths DEF d
    <2>3. pushed' = pushed
      BY <1>1
    <2> QED BY <1>5, <1>9, <1>11, <2>1, <2>2, <2>3
  <1>16. ASSUME NEW i \in 0 .. (u - d) - 1
         PROVE  ByteAt(HeadLen, pushed, off, cells[(mBeginIdx' + i) % mQueueSize], (off[h + 1] + d) + i)
    <2>1. i \in Int /\ d + i \in 0 .. u - 1
      BY <1>7, <1>11, <1>14
    <2>2. (mBeginIdx + (d + i)) % mQueueSize = (mBeginIdx' + i) % mQueueSize
      <3>1. d \in 0 .. mQueueSize /\ mBeginIdx \in Int /\ mBeginIdx' \in Int
        BY <1>8, <1>11, <1>12
      <3> QED BY <1>12, <2>1, <3>1, QueuePlace
    <2>3. ByteAt(HeadLen, pushed, off, cells[(mBeginIdx + (d + i)) % mQueueSize], off[h + 1] + (d + i))
      BY <1>3, <2>1 DEF QueueCarries, u, h
    <2>4. off[h + 1] + (d + i) = (off[h + 1] + d) + i
      BY <1>5, <1>11, <2>1
    <2> QED BY <2>2, <2>3, <2>4
  <1>17. QueueTypes'
    <2>1. mBeginIdx' \in 0 .. mQueueSize
      BY <1>12
    <2>2. Len(popped') <= Len(pushed) /\ \A k \in 1 .. Len(popped') : popped'[k] = k
      BY <1>5, <1>10
    <2>3. popper' \in [at : Steps, begin : 0 .. mQueueSize, end : Nat, len : Nat]
      BY <1>1, QueueLengths DEF Steps
    <2> QED BY <1>1, <1>2, <1>10, <2>1, <2>2, <2>3 DEF QueueTypes
  <1>18. QueueCarries(off)'
    <2> DEFINE G == off[Len(popped') + 1]
               w == off[Len(pushed') + 1] - off[Len(popped') + 1]
    <2>1. G = off[h + 1] + d /\ w = u - d
      BY <1>15
    <2> HIDE DEF G, w
    <2> SUFFICES
          /\ w \in 0 .. mQueueSize - Reserve
          /\ Between(mBeginIdx', mEndIdx', w)
          /\ mEndIdx' = 0 => mBeginIdx' = 0 /\ w = 0
          /\ \A i \in 0 .. w - 1 :
                ByteAt(HeadLen, pushed', off, cells'[(mBeginIdx' + i) % mQueueSize], G + i)
      BY Zenon DEF QueueCarries, Waiting, Between, G, w
    <2>2. Between(mBeginIdx', mEndIdx', w)
      BY <1>1, <1>14, <2>1
    <2>3. mEndIdx' # 0
      BY <1>1, <1>8, <1>13
    <2> QED BY <1>1, <1>14, <1>16, <2>1, <2>2, <2>3
  <1>19. PusherHolds(off)'
    <2> DEFINE w == off[Len(pushed') + 1] - off[Len(popped') + 1]
    <2>1. w = u - d
      BY <1>15
    <2> HIDE DEF w
    <2>2. pusher.at # "idle" => w + HeadLen + pusher.len + Reserve <= mQueueSize
      <3>1. pusher.at # "idle" => u + HeadLen + pusher.len + Reserve <= mQueueSize
        BY <1>3 DEF PusherHolds, u
      <3>2. pusher.len \in Nat
        BY <1>2 DEF QueueTypes
      <3>3. \A x \in Nat : u + HeadLen + x + Reserve <= mQueueSize => u - d + HeadLen + x + Reserve <= mQueueSize
        BY <1>7, <1>11, QueueLengths
      <3>4. u - d + HeadLen + pusher.len + Reserve = (u - d) + HeadLen + pusher.len + Reserve
        BY <1>7, <1>11, <3>2, QueueLengths
      <3> QED BY <2>1, <3>1, <3>2, <3>3, <3>4
    <2>3. /\ pusher.at # "idle" => pusher.end = mEndIdx /\ pusher.len \in PushLens /\ Len(pushed) < MaxPushes
          /\ pusher.at = "copied" =>
                \A j \in 0 .. HeadLen + pusher.len - 1 :
                    cells[(mEndIdx + j) % mQueueSize] = <<Len(pushed) + 1, j>>
      BY <1>3 DEF PusherHolds
    <2>4. pusher'.at # "idle" => w + HeadLen + pusher'.len + Reserve <= mQueueSize
      BY <1>1, <2>2
    <2> QED BY <1>1, <2>3, <2>4 DEF PusherHolds, Waiting, w
  <1>20. PopperHolds(off)'
    BY <1>1 DEF PopperHolds
  <1>21. QueueStep
    <2>1. popped' = SubSeq([k \in 1 .. Len(pushed) |-> k], 1, h + 1)
      <3> DEFINE f == SubSeq([j \in 1 .. Len(pushed) |-> j], 1, h + 1)
      <3>1. f \in Seq(Int) /\ Len(f) = h + 1 /\ \A k \in 1 .. h + 1 : f[k] = k
        BY <1>5
      <3>2. popped' \in Seq(Int)
        BY <1>10, QueueLengths
      <3> HIDE DEF f
      <3>3. popped' = f
        BY <1>5, <1>10, <3>1, <3>2
      <3> QED BY <3>3 DEF f
    <2>2. h + 1 \in Len(popped) + 1 .. Len([k \in 1 .. Len(pushed) |-> k])
      BY <1>5 DEF h
    <2>3. UNCHANGED <<[k \in 1 .. Len(pushed) |-> k], FALSE>>
      BY <1>1
    <2>4. Queue!Ordered!Handle
      BY <2>1, <2>2, <2>3 DEF Queue!Ordered!Handle
    <2> QED BY <2>4 DEF QueueStep, Queue!Ordered!Next
  <1> QED BY <1>1, <1>3, <1>17, <1>18, <1>19, <1>20, <1>21 DEF QueueInv

(* A process that is killed in its call leaves nothing behind that counts. *)
LEMMA KilledInv ==
    ASSUME QueueInv, Queue!Killed
    PROVE  QueueInv' /\ QueueStep
  <1>1. UNCHANGED <<cells, mBeginIdx, mEndIdx, pushed, popped>>
    BY DEF Queue!Killed
  <1>2. QueueTypes
    BY DEF QueueInv
  <1>3. PICK off : /\ Laid(HeadLen, pushed, off)
                   /\ QueueCarries(off) /\ PusherHolds(off) /\ PopperHolds(off)
    BY DEF QueueInv
  <1>4. /\ pusher' = pusher \/ pusher' = [at |-> "idle", begin |-> 0, end |-> 0, len |-> 0]
        /\ popper' = popper \/ popper' = [at |-> "idle", begin |-> 0, end |-> 0, len |-> 0]
    BY DEF Queue!Killed, Queue!Idle
  <1>5. QueueTypes'
    <2>1. /\ pusher' \in [at : Steps, begin : 0 .. mQueueSize, end : 0 .. mQueueSize, len : Nat]
          /\ popper' \in [at : Steps, begin : 0 .. mQueueSize, end : Nat, len : Nat]
      <3> DEFINE resting == [at |-> "idle", begin |-> 0, end |-> 0, len |-> 0]
      <3>1. /\ resting \in [at : Steps, begin : 0 .. mQueueSize, end : 0 .. mQueueSize, len : Nat]
            /\ resting \in [at : Steps, begin : 0 .. mQueueSize, end : Nat, len : Nat]
        BY QueueLengths DEF Steps
      <3>2. /\ pusher \in [at : Steps, begin : 0 .. mQueueSize, end : 0 .. mQueueSize, len : Nat]
            /\ popper \in [at : Steps, begin : 0 .. mQueueSize, end : Nat, len : Nat]
        BY <1>2 DEF QueueTypes
      <3>3. (pusher' = pusher \/ pusher' = resting) /\ (popper' = popper \/ popper' = resting)
        BY <1>4
      <3> HIDE DEF resting
      <3> QED BY <3>1, <3>2, <3>3
    <2> QED BY <1>1, <1>2, <2>1 DEF QueueTypes
  <1>6. QueueCarries(off)'
    BY <1>1, <1>3 DEF QueueCarries, Waiting, Between
  <1>7. PusherHolds(off)'
    BY <1>1, <1>3, <1>4 DEF PusherHolds, Waiting
  <1>8. PopperHolds(off)'
    BY <1>1, <1>3, <1>4 DEF PopperHolds, Between
  <1> QED BY <1>1, <1>3, <1>5, <1>6, <1>7, <1>8, QueueStill DEF QueueInv

LEMMA QueueNextInv ==
    ASSUME QueueInv, [Queue!Next]_queueState
    PROVE  QueueInv' /\ QueueStep
  <1>1. CASE UNCHANGED queueState
    <2>1. UNCHANGED <<cells, mBeginIdx, mEndIdx, pushed, popped, pusher, popper>>
      BY <1>1 DEF queueState
    <2>2. QueueInv'
      BY <2>1 DEF QueueInv, QueueTypes, QueueCarries, PusherHolds, PopperHolds, Waiting, Between
    <2> QED BY <2>1, <2>2, QueueStill
  <1>2. CASE Queue!Push
    BY <1>2, PushStartInv, PushCopyInv, PushPublishInv DEF Queue!Push
  <1>3. CASE Queue!Pop
    BY <1>3, PopStartInv, PopErrorInv, PopCopyInv, PopReturnInv DEF Queue!Pop
  <1>4. CASE Queue!Killed
    BY <1>4, KilledInv
  <1> QED BY <1>1, <1>2, <1>3, <1>4 DEF Queue!Next

LEMMA QueueInvTypes == ASSUME QueueInv PROVE Queue!TypeOK
  BY DEF QueueInv, QueueTypes, Queue!TypeOK, Queue!QueueCell, Steps

LEMMA QueueInvariant == BaseSpec => []QueueInv /\ [][QueueStep]_baseVars
  <1>1. BaseInit => QueueInv
    BY QueueInitInv DEF BaseInit
  <1>2. QueueInv /\ [BaseNext]_baseVars => QueueInv' /\ QueueStep
    BY BaseStep, QueueNextInv
  <1> QED BY <1>1, <1>2, PTL DEF BaseSpec

(* wMsgQueue.cpp: without a lock, and whoever is killed in the middle of a *)
(* call, every message that Push returned 0 for is popped whole, once and  *)
(* in order: the shared memory queue implements Stream.                    *)
THEOREM QueueStreamsCorrect == BaseSpec => Queue!Streams
  <1>1. BaseInit => Queue!Ordered!Init
    BY QueueInitInv DEF BaseInit
  <1>2. [QueueStep]_baseVars => [Queue!Ordered!Next]_<<[k \in 1 .. Len(pushed) |-> k], popped, FALSE>>
    BY DEF QueueStep, baseVars, queueState
  <1> QED BY <1>1, <1>2, QueueInvariant, PTL DEF BaseSpec, Queue!Streams, Queue!Ordered!Spec

(* wTask.cpp, wMsgQueue.cpp: the messages of a connection, and those of    *)
(* the queue between two processes, come whole, once and in their order.   *)
THEOREM WholeAndOnceCorrect == BaseSpec => WholeAndOnce
  BY StreamsCorrect, QueueStreamsCorrect, PTL DEF WholeAndOnce
=============================================================================
