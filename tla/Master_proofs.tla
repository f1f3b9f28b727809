---------------------------- MODULE Master_proofs ----------------------------
(***************************************************************************)
(* The safety of the master and its workers, for any number of workers,    *)
(* crashes and failed forks: who was not waited for is in the table, and   *)
(* while nothing has failed the channels lead where they are said to.      *)
(***************************************************************************)
EXTENDS Master, TLAPS, FiniteSetTheorems, SequenceTheorems, WellFoundedInduction

-----------------------------------------------------------------------------
(* What is kept of the master's table, descriptors, processes and mail, as *)
(* properties of a record t of the four.                                   *)

Worker == [mPid : {-1} \cup Pid, mExited : BOOLEAN, mExiting : BOOLEAN, mRespawn : BOOLEAN,
           mDetached : BOOLEAN, mCh : {FD_UNKNOWN} \cup Fd]
Tables == [pool : [Slot -> Worker], fds : [Fd -> {None} \cup Pid], proc : [Pid -> Proc],
           mail : [Pid -> Seq(Message)]]

(* The processes there ever were; those that ended by themselves and may be*)
(* replaced; those that an order to restart has started; and the others.   *)
Born(t) == {p \in Pid : t.proc[p].state # "unborn"}
Gone(t) == {p \in Pid : t.proc[p].state \in {"zombie", "reaped"} /\ t.proc[p].code = 1}
Apart(t) == {p \in Pid : t.proc[p].detached}
Placed(t) == Born(t) \ (Gone(t) \cup Apart(t))

(* Who has not been waited for is in the table, at its slot.               *)
Waited(t) ==
    \A p \in Pid : t.proc[p].state \in {"running", "zombie"} =>
        t.pool[t.proc[p].slot].mPid = p /\ ~t.pool[t.proc[p].slot].mExited

(* Who is in the table was started for that slot, and is marked exited     *)
(* only after it was waited for.                                           *)
Entry(t, i) ==
    /\ t.pool[i].mCh # FD_UNKNOWN
    /\ t.pool[i].mPid \in Born(t) /\ t.proc[t.pool[i].mPid].slot = i
    /\ t.pool[i].mExited => t.proc[t.pool[i].mPid].state = "reaped"
    /\ t.pool[i].mExited /\ t.pool[i].mRespawn => t.proc[t.pool[i].mPid].code # 2
    /\ t.pool[i].mRespawn => ~t.pool[i].mDetached
    /\ t.pool[i].mDetached <=> t.pool[i].mPid \in Apart(t)
Entries(t) == \A i \in Slot : t.pool[i].mPid # -1 => Entry(t, i)

(* Of the processes of one slot that nobody ordered apart all are gone but *)
(* for one, which is in the table unless the slot was given up: so there is*)
(* a number for a new one.                                                 *)
Latest(t) ==
    \A p \in Placed(t) :
        /\ t.pool[t.proc[p].slot].mPid \in {p, -1} \cup Apart(t)
        /\ \A q \in Placed(t) : t.proc[p].slot = t.proc[q].slot => p = q

(* Nothing is known of a process before it is there, and its socket pair   *)
(* has one descriptor: so there is a free one.                             *)
Fresh(t) ==
    /\ \A k \in Fd : t.fds[k] # None => t.fds[k] \in Born(t)
    /\ \A p \in Pid \ Born(t) : t.mail[p] = << >> /\ t.proc[p] = Unborn
FdsApart(t) == \A k, j \in Fd : t.fds[k] # None /\ t.fds[k] = t.fds[j] => k = j

(* Who was told to stop is marked in its slot, or is detached and was told *)
(* over a number that had been another's.                                  *)
Told(t, p) ==
    \/ t.proc[p].g_terminate \/ t.proc[p].g_quit \/ t.proc[p].mExiting
    \/ t.proc[p].state \in {"zombie", "reaped"} /\ t.proc[p].code = 0
    \/ \E n \in DOMAIN t.mail[p] : t.mail[p][n].type \in {"quit", "terminate"}
Marked(t) ==
    \A p \in Born(t) : Told(t, p) /\ t.pool[t.proc[p].slot].mPid = p =>
        t.pool[t.proc[p].slot].mExiting \/ t.pool[t.proc[p].slot].mDetached

Settled(t) == t \in Tables /\ Waited(t) /\ Entries(t) /\ Latest(t) /\ Fresh(t) /\ FdsApart(t)
Sound(t) == Settled(t) /\ Marked(t)

(* There is a number left for a worker that crashed.                       *)
Counted(t) == Cardinality(Gone(t)) <= MaxCrashes /\ Cardinality(Apart(t)) <= MaxDetached

(* Nobody failed: each slot has the descriptor of its own number, and who  *)
(* is there has its channel.                                               *)
Clean(t) == \A p \in Pid : t.proc[p].state \in {"zombie", "reaped"} => t.proc[p].code # 2
Own(t) ==
    /\ \A i \in Slot : t.pool[i].mCh = i
    /\ \A i \in Slot : t.pool[i].mPid # -1 /\ ~t.pool[i].mExited => t.fds[i] = t.pool[i].mPid
    /\ \A p \in Pid : ~t.proc[p].deaf

(* Nobody was told to stop either: with the first k slots looked through,  *)
(* every slot has a process, and who of the others ended is to be replaced.*)
Manned(t, k) ==
    \A i \in Slot :
        /\ t.pool[i].mPid # -1 /\ t.pool[i].mRespawn /\ ~t.pool[i].mExiting
        /\ t.pool[i].mExited => k <= i
        /\ t.fds[i] = t.pool[i].mPid

(* What a worker has for the slot i is x, or will be when it has read the  *)
(* mail a: the last message about the slot says so.                        *)
About(m, i) == m.type \in {"open", "close"} /\ m.slot = i
Opens(m, i, x) == m.type = "open" /\ m.slot = i /\ m.pid = x
Knows(v, a, i, x) ==
    \/ v \in {x, Wrong} /\ \A n \in DOMAIN a : ~About(a[n], i)
    \/ \E n \in DOMAIN a : Opens(a[n], i, x) /\ \A j \in DOMAIN a : j > n => ~About(a[j], i)
KnownTo(t, p, i) == Knows(t.proc[p].view[i], t.mail[p], i, t.pool[i].mPid)
Known(t) == \A p \in Pid : t.proc[p].state = "running" => \A i \in Slot : KnownTo(t, p, i)

Orderly(t, k) == Own(t) /\ (~Stopping => Manned(t, k) /\ Known(t))

-----------------------------------------------------------------------------
LEMMA LeastOfNat ==
    ASSUME NEW S, S \subseteq Nat, S # {}
    PROVE  \E x \in S : \A y \in S : x <= y
  <1>1. PICK x \in S : \A y \in S : ~(<<y, x>> \in OpToRel(<, Nat))
    BY NatLessThanWellFounded, WFMin
  <1>2. \A y \in S : ~(y < x)
    <2>1. \A y \in S : y < x => <<y, x>> \in OpToRel(<, Nat)
      BY DEF OpToRel
    <2> QED BY <1>1, <2>1
  <1> QED BY <1>2

(* A set with 0 and with every successor up to n has the numbers up to n.  *)
LEMMA Inductively ==
    ASSUME NEW n \in Nat, NEW S, 0 \in S, \A k \in 0 .. n - 1 : k \in S => k + 1 \in S
    PROVE  \A k \in 0 .. n : k \in S
  <1> DEFINE L == {k \in 0 .. n : k \notin S}
  <1> SUFFICES ASSUME L # {} PROVE FALSE
    OBVIOUS
  <1>1. PICK m \in L : \A y \in L : m <= y
    <2>1. L \subseteq Nat
      OBVIOUS
    <2> HIDE DEF L
    <2> QED BY <2>1, LeastOfNat
  <1>2. m \in 1 .. n /\ m - 1 \in 0 .. n - 1 /\ (m - 1) + 1 = m
    BY <1>1
  <1>3. m - 1 \in S
    BY <1>1, <1>2
  <1> QED BY <1>1, <1>2, <1>3

(* The least of a set of numbers is one of them.                           *)
LEMMA MinOf == ASSUME NEW S, S \subseteq Nat, S # {} PROVE Min(S) \in S /\ \A y \in S : Min(S) <= y
  <1>1. \E x \in S : \A y \in S : x <= y
    BY LeastOfNat
  <1> QED BY <1>1 DEF Min

(* The three loops are what their bodies do, one after the other.          *)
StartsFrom(t, n, fails, type, f) ==
    f = [k \in 0 .. n |-> IF k = 0 THEN t ELSE StartTurn(f[k - 1], k, fails, type)]

LEMMA StartsExist ==
    ASSUME NEW t, NEW n \in Nat, NEW fails, NEW type
    PROVE  \E f : StartsFrom(t, n, fails, type, f)
  <1> DEFINE S == {m \in 0 .. n : \E f : StartsFrom(t, m, fails, type, f)}
  <1>1. 0 \in S
    <2>1. StartsFrom(t, 0, fails, type, [k \in 0 .. 0 |-> t])
      BY DEF StartsFrom
    <2> QED BY <2>1
  <1>2. ASSUME NEW m \in 0 .. n - 1, m \in S PROVE m + 1 \in S
    <2>1. PICK f : StartsFrom(t, m, fails, type, f)
      BY <1>2
    <2> DEFINE g == [k \in 0 .. m + 1 |-> IF k = m + 1 THEN StartTurn(f[m], m + 1, fails, type) ELSE f[k]]
    <2>2. \A k \in 0 .. m : f[k] = IF k = 0 THEN t ELSE StartTurn(f[k - 1], k, fails, type)
      BY <2>1 DEF StartsFrom
    <2>3. ASSUME NEW k \in 0 .. m + 1 PROVE g[k] = IF k = 0 THEN t ELSE StartTurn(g[k - 1], k, fails, type)
      <3>1. CASE k = m + 1
        BY <3>1
      <3>2. CASE k # m + 1
        BY <2>2, <3>2
      <3> QED BY <3>1, <3>2
    <2>4. StartsFrom(t, m + 1, fails, type, g)
      BY <2>3 DEF StartsFrom
    <2> HIDE DEF g
    <2> QED BY <2>4
  <1> HIDE DEF S
  <1>3. n \in S
    BY <1>1, <1>2, Inductively
  <1> QED BY <1>3 DEF S

LEMMA StartsAre ==
    ASSUME NEW t, NEW n \in Nat, NEW fails, NEW type
    PROVE  \E up : /\ up[0] = t
                   /\ \A k \in 0 .. n - 1 : up[k + 1] = StartTurn(up[k], k + 1, fails, type)
                   /\ Started(t, n, fails, type) = up[n]
  <1> DEFINE up == CHOOSE f : StartsFrom(t, n, fails, type, f)
  <1>1. Started(t, n, fails, type) = up[n]
    BY Zenon DEF Started, StartsFrom
  <1>2. StartsFrom(t, n, fails, type, up)
    BY StartsExist, Zenon
  <1> HIDE DEF up
  <1>3. \A k \in 0 .. n : up[k] = IF k = 0 THEN t ELSE StartTurn(up[k - 1], k, fails, type)
    BY <1>2 DEF StartsFrom
  <1>4. up[0] = t /\ \A k \in 0 .. n - 1 : up[k + 1] = StartTurn(up[k], k + 1, fails, type)
    BY <1>3
  <1> QED BY <1>1, <1>4

ReapsFrom(t, fails, n, f) == f = [k \in 0 .. n |-> IF k = 0 THEN t ELSE ReapTurn(f[k - 1], k - 1, fails)]

LEMMA ReapsExist ==
    ASSUME NEW t, NEW fails, NEW n \in Nat
    PROVE  \E f : ReapsFrom(t, fails, n, f)
  <1> DEFINE S == {m \in 0 .. n : \E f : ReapsFrom(t, fails, m, f)}
  <1>1. 0 \in S
    <2>1. ReapsFrom(t, fails, 0, [k \in 0 .. 0 |-> t])
      BY DEF ReapsFrom
    <2> QED BY <2>1
  <1>2. ASSUME NEW m \in 0 .. n - 1, m \in S PROVE m + 1 \in S
    <2>1. PICK f : ReapsFrom(t, fails, m, f)
      BY <1>2
    <2> DEFINE g == [k \in 0 .. m + 1 |-> IF k = m + 1 THEN ReapTurn(f[m], m, fails) ELSE f[k]]
    <2>2. \A k \in 0 .. m : f[k] = IF k = 0 THEN t ELSE ReapTurn(f[k - 1], k - 1, fails)
      BY <2>1 DEF ReapsFrom
    <2>3. ASSUME NEW k \in 0 .. m + 1
          PROVE  g[k] = IF k = 0 THEN t ELSE ReapTurn(g[k - 1], k - 1, fails)
      <3>1. CASE k = m + 1
        BY <3>1
      <3>2. CASE k # m + 1
        BY <2>2, <3>2
      <3> QED BY <3>1, <3>2
    <2>4. ReapsFrom(t, fails, m + 1, g)
      BY <2>3 DEF ReapsFrom
    <2> HIDE DEF g
    <2> QED BY <2>4
  <1> HIDE DEF S
  <1>3. n \in S
    BY <1>1, <1>2, Inductively
  <1> QED BY <1>3 DEF S

LEMMA ReapsAre ==
    ASSUME NEW t, NEW fails
    PROVE  \E after : /\ after[0] = t
                      /\ \A k \in 0 .. mWorkerNum - 1 : after[k + 1] = ReapTurn(after[k], k, fails)
                      /\ ReapChildren(t, fails) = after[mWorkerNum]
  <1> DEFINE after == CHOOSE f : ReapsFrom(t, fails, mWorkerNum, f)
  <1>1. ReapChildren(t, fails) = after[mWorkerNum]
    BY Zenon DEF ReapChildren, ReapsFrom
  <1>2. mWorkerNum \in Nat
    BY MasterAssumption
  <1>3. ReapsFrom(t, fails, mWorkerNum, after)
    BY <1>2, ReapsExist, Zenon
  <1> HIDE DEF after
  <1>4. \A k \in 0 .. mWorkerNum : after[k] = IF k = 0 THEN t ELSE ReapTurn(after[k - 1], k - 1, fails)
    BY <1>3 DEF ReapsFrom
  <1>5. after[0] = t /\ \A k \in 0 .. mWorkerNum - 1 : after[k + 1] = ReapTurn(after[k], k, fails)
    BY <1>2, <1>4
  <1> QED BY <1>1, <1>5

HandlesFrom(q, ms, alone, n, f) == f = [k \in 0 .. n |-> IF k = 0 THEN q ELSE Handled(f[k - 1], ms[k], alone)]

LEMMA HandlesExist ==
    ASSUME NEW q, NEW ms, NEW alone, NEW n \in Nat
    PROVE  \E f : HandlesFrom(q, ms, alone, n, f)
  <1> DEFINE S == {m \in 0 .. n : \E f : HandlesFrom(q, ms, alone, m, f)}
  <1>1. 0 \in S
    <2>1. HandlesFrom(q, ms, alone, 0, [k \in 0 .. 0 |-> q])
      BY DEF HandlesFrom
    <2> QED BY <2>1
  <1>2. ASSUME NEW m \in 0 .. n - 1, m \in S PROVE m + 1 \in S
    <2>1. PICK f : HandlesFrom(q, ms, alone, m, f)
      BY <1>2
    <2> DEFINE g == [k \in 0 .. m + 1 |-> IF k = m + 1 THEN Handled(f[m], ms[m + 1], alone) ELSE f[k]]
    <2>2. \A k \in 0 .. m : f[k] = IF k = 0 THEN q ELSE Handled(f[k - 1], ms[k], alone)
      BY <2>1 DEF HandlesFrom
    <2>3. ASSUME NEW k \in 0 .. m + 1 PROVE g[k] = IF k = 0 THEN q ELSE Handled(g[k - 1], ms[k], alone)
      <3>1. CASE k = m + 1
        BY <3>1
      <3>2. CASE k # m + 1
        BY <2>2, <3>2
      <3> QED BY <3>1, <3>2
    <2>4. HandlesFrom(q, ms, alone, m + 1, g)
      BY <2>3 DEF HandlesFrom
    <2> HIDE DEF g
    <2> QED BY <2>4
  <1> HIDE DEF S
  <1>3. n \in S
    BY <1>1, <1>2, Inductively
  <1> QED BY <1>3 DEF S

LEMMA HandlesAre ==
    ASSUME NEW q, NEW ms, Len(ms) \in Nat
    PROVE  \E after : /\ after[0] = q
                      /\ \A k \in 0 .. Len(ms) - 1 :
                            after[k + 1] = Handled(after[k], ms[k + 1], Len(ms) = 1)
                      /\ HandledAll(q, ms) = after[Len(ms)]
  <1> DEFINE alone == Len(ms) = 1
             after == CHOOSE f : HandlesFrom(q, ms, alone, Len(ms), f)
  <1>1. HandledAll(q, ms) = after[Len(ms)]
    BY Zenon DEF HandledAll, HandlesFrom
  <1>2. HandlesFrom(q, ms, alone, Len(ms), after)
    <2> HIDE DEF alone
    <2> QED BY HandlesExist, Zenon
  <1> HIDE DEF after
  <1>3. \A k \in 0 .. Len(ms) : after[k] = IF k = 0 THEN q ELSE Handled(after[k - 1], ms[k], Len(ms) = 1)
    BY <1>2 DEF HandlesFrom
  <1>4. /\ after[0] = q
        /\ \A k \in 0 .. Len(ms) - 1 : after[k + 1] = Handled(after[k], ms[k + 1], Len(ms) = 1)
    BY <1>3
  <1> QED BY <1>1, <1>4

-----------------------------------------------------------------------------
(* What the master's operations make of a table.                           *)

LEMMA Numbers ==
    /\ mWorkerNum \in Nat /\ mWorkerNum > 0 /\ MaxCrashes \in Nat /\ MaxForkFails \in Nat
    /\ MaxDetached \in Nat
    /\ Slot \subseteq Nat /\ 0 \in Slot /\ IsFiniteSet(Slot) /\ Cardinality(Slot) = mWorkerNum
    /\ Pid \subseteq Nat /\ IsFiniteSet(Pid)
    /\ Cardinality(Pid) = mWorkerNum + MaxCrashes + MaxDetached
    /\ Fd \subseteq Nat /\ Slot \subseteq Fd /\ IsFiniteSet(Fd)
    /\ Cardinality(Fd) = mWorkerNum + MaxCrashes + MaxDetached + 1
    /\ None \notin Pid /\ -1 \notin Pid /\ FD_UNKNOWN \notin Fd
  <1>1. /\ mWorkerNum \in Nat /\ mWorkerNum > 0 /\ MaxCrashes \in Nat /\ MaxForkFails \in Nat
        /\ MaxDetached \in Nat
    BY MasterAssumption
  <1>2. IsFiniteSet(Slot) /\ Cardinality(Slot) = mWorkerNum
    BY <1>1, FS_Interval DEF Slot
  <1>3. IsFiniteSet(Pid) /\ Cardinality(Pid) = mWorkerNum + MaxCrashes + MaxDetached
    BY <1>1, FS_Interval DEF Pid
  <1>4. IsFiniteSet(Fd) /\ Cardinality(Fd) = mWorkerNum + MaxCrashes + MaxDetached + 1
    BY <1>1, FS_Interval DEF Fd
  <1>5. /\ Slot \subseteq Nat /\ 0 \in Slot /\ Pid \subseteq Nat /\ Fd \subseteq Nat /\ Slot \subseteq Fd
        /\ None \notin Pid /\ -1 \notin Pid /\ FD_UNKNOWN \notin Fd
    BY <1>1 DEF Slot, Pid, Fd, None, FD_UNKNOWN
  <1> QED BY <1>1, <1>2, <1>3, <1>4, <1>5

LEMMA WithIs ==
    ASSUME NEW S, NEW T, NEW f \in [S -> T], NEW i \in S, NEW x \in T
    PROVE  /\ With(f, i, x) \in [S -> T]
           /\ With(f, i, x)[i] = x
           /\ \A j \in S \ {i} : With(f, i, x)[j] = f[j]
  BY DEF With

(* The table u is t with copies of the message m behind the mail of those *)
(* processes whose channels the slots S have.                              *)
Appended(t, u, S, m) ==
    /\ u \in Tables /\ u.pool = t.pool /\ u.fds = t.fds /\ u.proc = t.proc
    /\ \A p \in Pid :
          /\ Len(u.mail[p]) \in Nat /\ Len(t.mail[p]) \in Nat
          /\ Len(u.mail[p]) >= Len(t.mail[p])
          /\ Len(u.mail[p]) > Len(t.mail[p]) <=> \E i \in S : Pair(t, i) = p
          /\ DOMAIN u.mail[p] = 1 .. Len(u.mail[p])
          /\ DOMAIN t.mail[p] = 1 .. Len(t.mail[p])
          /\ \A n \in 1 .. Len(u.mail[p]) :
                u.mail[p][n] = IF n <= Len(t.mail[p]) THEN t.mail[p][n] ELSE m

LEMMA SendIs ==
    ASSUME NEW t \in Tables, NEW S \in SUBSET Slot, NEW m \in Message
    PROVE  Appended(t, Send(t, S, m), S, m)
  <1> DEFINE X(p) == {i \in S : Pair(t, i) = p}
             c(p) == [j \in 1 .. Cardinality(X(p)) |-> m]
             mails == [p \in Pid |-> t.mail[p] \o c(p)]
             u == Send(t, S, m)
  <1>1. /\ u.pool = t.pool /\ u.fds = t.fds /\ u.proc = t.proc /\ u.mail = mails
        /\ mails \in [Pid -> Seq(Message)] => u \in Tables
    BY DEF Send, Tables
  <1> HIDE DEF u
  <1>2. ASSUME NEW p \in Pid
        PROVE  /\ Cardinality(X(p)) \in Nat /\ (Cardinality(X(p)) > 0 <=> X(p) # {})
               /\ c(p) \in Seq(Message) /\ Len(c(p)) = Cardinality(X(p))
               /\ t.mail[p] \in Seq(Message)
    <2>1. IsFiniteSet(X(p))
      BY Numbers, FS_Subset
    <2>2. Cardinality(X(p)) \in Nat /\ (Cardinality(X(p)) = 0 <=> X(p) = {})
      BY <2>1, FS_CardinalityType, FS_EmptySet
    <2>3. c(p) \in Seq(Message) /\ Len(c(p)) = Cardinality(X(p))
      <3> HIDE DEF X
      <3> QED BY <2>2
    <2>4. t.mail[p] \in Seq(Message)
      BY DEF Tables
    <2> HIDE DEF X, c
    <2> QED BY <2>2, <2>3, <2>4
  <1>3. mails \in [Pid -> Seq(Message)]
    <2> HIDE DEF c, X
    <2>1. ASSUME NEW p \in Pid PROVE t.mail[p] \o c(p) \in Seq(Message)
      BY <1>2, ConcatProperties
    <2> QED BY <2>1
  <1>4. ASSUME NEW p \in Pid
        PROVE  /\ Len(mails[p]) \in Nat /\ Len(t.mail[p]) \in Nat
               /\ Len(mails[p]) = Len(t.mail[p]) + Cardinality(X(p))
               /\ DOMAIN mails[p] = 1 .. Len(mails[p])
               /\ DOMAIN t.mail[p] = 1 .. Len(t.mail[p])
               /\ \A n \in 1 .. Len(mails[p]) :
                     mails[p][n] = IF n <= Len(t.mail[p]) THEN t.mail[p][n] ELSE m
    <2> DEFINE a == t.mail[p]
               b == c(p)
    <2>1. a \in Seq(Message) /\ b \in Seq(Message) /\ Len(b) = Cardinality(X(p))
          /\ Cardinality(X(p)) \in Nat /\ mails[p] = a \o b
      BY <1>2
    <2>2. \A n \in 1 .. Len(b) : b[n] = m
      BY <2>1
    <2> HIDE DEF a, b, mails, X
    <2>3. /\ Len(a \o b) = Len(a) + Len(b) /\ Len(a) \in Nat /\ Len(b) \in Nat
          /\ DOMAIN (a \o b) = 1 .. Len(a \o b) /\ DOMAIN a = 1 .. Len(a)
          /\ \A n \in 1 .. Len(a) + Len(b) : (a \o b)[n] = IF n <= Len(a) THEN a[n] ELSE b[n - Len(a)]
      BY <2>1, ConcatProperties, LenProperties
    <2>4. \A n \in 1 .. Len(a) + Len(b) : ~(n <= Len(a)) => n - Len(a) \in 1 .. Len(b)
      BY <2>3
    <2>5. \A n \in 1 .. Len(a) + Len(b) : (a \o b)[n] = IF n <= Len(a) THEN a[n] ELSE m
      BY <2>2, <2>3, <2>4
    <2>6. /\ Len(mails[p]) = Len(a) + Cardinality(X(p)) /\ Len(mails[p]) \in Nat
          /\ DOMAIN mails[p] = 1 .. Len(mails[p])
          /\ \A n \in 1 .. Len(mails[p]) : mails[p][n] = IF n <= Len(a) THEN a[n] ELSE m
      BY <2>1, <2>3, <2>5
    <2> QED BY <2>3, <2>6 DEF a
  <1> HIDE DEF mails
  <1>5. ASSUME NEW p \in Pid
        PROVE  /\ Len(mails[p]) >= Len(t.mail[p])
               /\ Len(mails[p]) > Len(t.mail[p]) <=> \E i \in S : Pair(t, i) = p
    <2>1. X(p) # {} <=> \E i \in S : Pair(t, i) = p
      OBVIOUS
    <2> HIDE DEF X, c
    <2>2. /\ Len(mails[p]) \in Nat /\ Len(t.mail[p]) \in Nat /\ Cardinality(X(p)) \in Nat
          /\ Len(mails[p]) = Len(t.mail[p]) + Cardinality(X(p))
          /\ Cardinality(X(p)) > 0 <=> X(p) # {}
      BY <1>2, <1>4
    <2>3. /\ Len(mails[p]) >= Len(t.mail[p])
          /\ Len(mails[p]) > Len(t.mail[p]) <=> Cardinality(X(p)) > 0
      BY <2>2
    <2> QED BY <2>1, <2>2, <2>3
  <1> QED BY <1>1, <1>3, <1>4, <1>5 DEF u, Appended

(* Mail that grows by a message, and mail that is read.                    *)
Grown(a, b, m) ==
    /\ Len(a) \in Nat /\ Len(b) \in Nat /\ Len(b) >= Len(a)
    /\ DOMAIN a = 1 .. Len(a) /\ DOMAIN b = 1 .. Len(b)
    /\ \A n \in 1 .. Len(b) : b[n] = IF n <= Len(a) THEN a[n] ELSE m

LEMMA GrownOther ==
    ASSUME NEW a, NEW b, NEW m, Grown(a, b, m), NEW i, ~About(m, i), NEW v, NEW x, Knows(v, a, i, x)
    PROVE  Knows(v, b, i, x)
  <1>1. \A n \in DOMAIN a : n \in DOMAIN b /\ b[n] = a[n]
    BY DEF Grown
  <1>2. \A n \in DOMAIN b : n \notin DOMAIN a => b[n] = m
    BY DEF Grown
  <1>3. CASE v \in {x, Wrong} /\ \A n \in DOMAIN a : ~About(a[n], i)
    <2>1. \A n \in DOMAIN b : ~About(b[n], i)
      BY <1>1, <1>2, <1>3
    <2> QED BY <1>3, <2>1 DEF Knows
  <1>4. ASSUME NEW n \in DOMAIN a, Opens(a[n], i, x), \A j \in DOMAIN a : j > n => ~About(a[j], i)
        PROVE  Knows(v, b, i, x)
    <2>1. ASSUME NEW j \in DOMAIN b, j > n PROVE ~About(b[j], i)
      BY <1>1, <1>2, <1>4, <2>1
    <2> QED BY <1>1, <1>4, <2>1 DEF Knows
  <1> QED BY <1>3, <1>4 DEF Knows

LEMMA GrownOpen ==
    ASSUME NEW a, NEW b, NEW m, Grown(a, b, m), Len(b) > Len(a), NEW i, NEW x, Opens(m, i, x), NEW v
    PROVE  Knows(v, b, i, x)
  <1>1. Len(b) \in DOMAIN b /\ b[Len(b)] = m /\ \A j \in DOMAIN b : ~(j > Len(b))
    BY DEF Grown
  <1> QED BY <1>1 DEF Knows

(* The first n messages of a are read, of which only the last may be "open",*)
(* and b is left; the worker had v for the slot i and now has w.           *)
Left(a, n, b) ==
    /\ Len(a) \in Nat /\ DOMAIN a = 1 .. Len(a) /\ n \in 1 .. Len(a)
    /\ \A k \in 1 .. n - 1 : a[k].type # "open"
    /\ DOMAIN b = 1 .. Len(a) - n /\ \A k \in 1 .. Len(a) - n : b[k] = a[n + k]
Learns(a, n, i, x, v, w) ==
    /\ (\A k \in 1 .. n : ~About(a[k], i)) => w = v
    /\ Opens(a[n], i, x) => w \in {x, Wrong}

LEMMA ReadKnows ==
    ASSUME NEW a, NEW n, NEW b, Left(a, n, b), NEW i, NEW x, NEW v, Knows(v, a, i, x),
           NEW w, Learns(a, n, i, x, v, w)
    PROVE  Knows(w, b, i, x)
  <1>0. PICK l \in Nat : l = Len(a)
    BY DEF Left
  <1>1. /\ DOMAIN a = 1 .. l /\ n \in 1 .. l
        /\ \A k \in 1 .. n - 1 : a[k].type # "open"
        /\ DOMAIN b = 1 .. l - n /\ \A k \in 1 .. l - n : b[k] = a[n + k]
    BY <1>0 DEF Left
  <1>2. /\ (\A k \in 1 .. n : ~About(a[k], i)) => w = v
        /\ Opens(a[n], i, x) => w \in {x, Wrong}
    BY DEF Learns
  <1>3. CASE v \in {x, Wrong} /\ \A k \in DOMAIN a : ~About(a[k], i)
    <2>1. \A k \in 1 .. n : ~About(a[k], i)
      BY <1>1, <1>3
    <2>2. \A k \in DOMAIN b : n + k \in DOMAIN a /\ b[k] = a[n + k]
      BY <1>1
    <2>3. \A k \in DOMAIN b : ~About(b[k], i)
      BY <1>3, <2>2
    <2> QED BY <1>2, <1>3, <2>1, <2>3 DEF Knows
  <1>4. ASSUME NEW m \in DOMAIN a, Opens(a[m], i, x), \A j \in DOMAIN a : j > m => ~About(a[j], i)
        PROVE  Knows(w, b, i, x)
    <2>1. m >= n
      BY <1>1, <1>4 DEF Opens
    <2>2. CASE m = n
      <3>1. \A k \in DOMAIN b : n + k \in DOMAIN a /\ n + k > m /\ b[k] = a[n + k]
        BY <1>1, <2>2
      <3>2. \A k \in DOMAIN b : ~About(b[k], i)
        BY <1>4, <3>1
      <3>3. w \in {x, Wrong}
        BY <1>2, <1>4, <2>2
      <3> QED BY <3>2, <3>3 DEF Knows
    <2>3. CASE m > n
      <3>1. m - n \in DOMAIN b /\ b[m - n] = a[m]
        <4>1. m - n \in 1 .. l - n /\ n + (m - n) = m
          BY <1>1, <2>3
        <4> QED BY <1>1, <4>1
      <3>2. ASSUME NEW k \in DOMAIN b, k > m - n PROVE ~About(b[k], i)
        <4>1. n + k \in DOMAIN a /\ n + k > m /\ b[k] = a[n + k]
          BY <1>1, <3>2
        <4> QED BY <1>4, <4>1
      <3> QED BY <1>4, <3>1, <3>2 DEF Knows
    <2> QED BY <1>1, <2>1, <2>2, <2>3
  <1> QED BY <1>3, <1>4 DEF Knows

(* The operations keep a table sound.                                      *)
EndsKept(t, u) ==
    \A p \in Pid : t.proc[p].state \in {"zombie", "reaped"} =>
        u.proc[p].state \in {"zombie", "reaped"} /\ u.proc[p].code = t.proc[p].code
LastKept(t, u) == t.pool[mWorkerNum - 1].mPid # -1 => u.pool[mWorkerNum - 1].mPid # -1
Same(t, u) == Gone(u) = Gone(t) /\ Apart(u) = Apart(t) /\ EndsKept(t, u) /\ LastKept(t, u)
Kept(t, u) == Born(u) = Born(t) /\ Same(t, u)

LEMMA SameTwice ==
    ASSUME NEW t, NEW u, NEW v, Same(t, u), Same(u, v)
    PROVE  Same(t, v)
  BY DEF Same, EndsKept, LastKept

LEMMA SendSound ==
    ASSUME NEW t, Sound(t), NEW S \in SUBSET Slot, NEW m \in Message
    PROVE  /\ Settled(Send(t, S, m)) /\ Kept(t, Send(t, S, m))
           /\ Appended(t, Send(t, S, m), S, m)
           /\ m.type \notin {"quit", "terminate"} => Sound(Send(t, S, m))
  <1> DEFINE u == Send(t, S, m)
  <1>1. t \in Tables
    BY DEF Sound, Settled
  <1>2. Appended(t, u, S, m)
    BY <1>1, SendIs
  <1> HIDE DEF u
  <1>3. Kept(t, u)
    BY <1>2 DEF Appended, Kept, Same, EndsKept, LastKept, Born, Gone, Apart
  <1>4. Waited(u) /\ Entries(u) /\ Latest(u)
    BY <1>2, <1>3 DEF Appended, Sound, Settled, Kept, Same, Waited, Entries, Entry, Latest, Placed
  <1>5. ASSUME NEW p \in Pid \ Born(t) PROVE u.mail[p] = << >>
    <2>1. ASSUME NEW i \in S PROVE Pair(t, i) # p
      <3>1. t.pool[i].mCh \in {FD_UNKNOWN} \cup Fd
        BY <1>1 DEF Tables, Worker
      <3>2. Pair(t, i) = None \/ Pair(t, i) \in Born(t)
        BY <3>1 DEF Sound, Settled, Fresh, Pair
      <3> QED BY <3>2, Numbers
    <2>2. t.mail[p] = << >>
      BY DEF Sound, Settled, Fresh
    <2>3. Len(t.mail[p]) = 0
      BY <2>2
    <2>4. Len(u.mail[p]) = 0
      BY <1>2, <2>1, <2>3 DEF Appended
    <2>5. u.mail[p] \in Seq(Message)
      BY <1>2 DEF Appended, Tables
    <2> QED BY <2>4, <2>5, EmptySeq
  <1>6. Fresh(u) /\ FdsApart(u)
    BY <1>2, <1>3, <1>5 DEF Appended, Sound, Settled, Fresh, FdsApart, Kept
  <1>7. ASSUME m.type \notin {"quit", "terminate"} PROVE Marked(u)
    <2>1. ASSUME NEW p \in Pid, NEW n \in DOMAIN u.mail[p], u.mail[p][n].type \in {"quit", "terminate"}
          PROVE  \E k \in DOMAIN t.mail[p] : t.mail[p][k].type \in {"quit", "terminate"}
      BY <1>2, <1>7, <2>1 DEF Appended
    <2>2. \A p \in Born(t) : Told(u, p) => Told(t, p)
      BY <1>2, <2>1 DEF Appended, Told, Born
    <2> QED BY <1>2, <1>3, <2>2 DEF Appended, Sound, Marked, Kept
  <1> QED BY <1>2, <1>3, <1>4, <1>6, <1>7 DEF Appended, Sound, Settled, u

LEMMA OpenSound ==
    ASSUME NEW t, Sound(t), NEW i \in Slot, t.pool[i].mPid # -1
    PROVE  LET u == PassOpenChannel(t, i) IN
           /\ Sound(u) /\ Kept(t, u)
           /\ u.pool = t.pool /\ u.fds = t.fds /\ u.proc = t.proc
  <1> DEFINE m == [type |-> "open", slot |-> i, pid |-> t.pool[i].mPid]
             S == {j \in Slot \ {i} : t.pool[j].mPid # -1}
  <1>1. m \in Message /\ m.type \notin {"quit", "terminate"} /\ S \in SUBSET Slot
    BY DEF Sound, Settled, Tables, Worker, Message
  <1>2. PassOpenChannel(t, i) = Send(t, S, m)
    BY DEF PassOpenChannel
  <1> HIDE DEF m, S
  <1> DEFINE u == Send(t, S, m)
  <1>3. Sound(u) /\ Kept(t, u) /\ Appended(t, u, S, m)
    BY <1>1, SendSound
  <1> HIDE DEF u
  <1>4. u.pool = t.pool /\ u.fds = t.fds /\ u.proc = t.proc
    BY <1>3 DEF Appended
  <1> QED BY <1>2, <1>3, <1>4 DEF u

LEMMA CloseSound ==
    ASSUME NEW t, Sound(t), NEW i \in Slot, t.pool[i].mPid # -1
    PROVE  LET u == PassCloseChannel(t, i) IN
           /\ Sound(u) /\ Kept(t, u)
           /\ u.pool = t.pool /\ u.fds = t.fds /\ u.proc = t.proc
  <1> DEFINE m == [type |-> "close", slot |-> i, pid |-> t.pool[i].mPid]
             S == {j \in Slot : ~t.pool[j].mExited /\ t.pool[j].mPid # -1}
  <1>1. m \in Message /\ m.type \notin {"quit", "terminate"} /\ S \in SUBSET Slot
    BY DEF Sound, Settled, Tables, Worker, Message
  <1>2. PassCloseChannel(t, i) = Send(t, S, m)
    BY DEF PassCloseChannel
  <1> HIDE DEF m, S
  <1> DEFINE u == Send(t, S, m)
  <1>3. Sound(u) /\ Kept(t, u) /\ Appended(t, u, S, m)
    BY <1>1, SendSound
  <1> HIDE DEF u
  <1>4. u.pool = t.pool /\ u.fds = t.fds /\ u.proc = t.proc
    BY <1>3 DEF Appended
  <1> QED BY <1>2, <1>3, <1>4 DEF u

LEMMA OpenMail ==
    ASSUME NEW t, Sound(t), NEW i \in Slot, t.pool[i].mPid # -1
    PROVE  \E m : /\ Opens(m, i, t.pool[i].mPid)
                  /\ \A p \in Pid :
                        /\ Grown(t.mail[p], PassOpenChannel(t, i).mail[p], m)
                        /\ Len(PassOpenChannel(t, i).mail[p]) > Len(t.mail[p])
                              <=> \E j \in Slot \ {i} : t.pool[j].mPid # -1 /\ Pair(t, j) = p
  <1> DEFINE m == [type |-> "open", slot |-> i, pid |-> t.pool[i].mPid]
             S == {j \in Slot \ {i} : t.pool[j].mPid # -1}
             u == PassOpenChannel(t, i)
  <1>1. m \in Message /\ Opens(m, i, t.pool[i].mPid) /\ S \in SUBSET Slot
    BY DEF Sound, Settled, Tables, Worker, Message, Opens
  <1>2. u = Send(t, S, m)
    BY DEF PassOpenChannel
  <1>3. \A p : (\E j \in S : Pair(t, j) = p)
                 <=> \E j \in Slot \ {i} : t.pool[j].mPid # -1 /\ Pair(t, j) = p
    OBVIOUS
  <1> HIDE DEF m, S, u
  <1>4. Appended(t, u, S, m)
    BY <1>1, <1>2, SendSound
  <1>5. ASSUME NEW p \in Pid
        PROVE  /\ Grown(t.mail[p], u.mail[p], m)
               /\ Len(u.mail[p]) > Len(t.mail[p])
                     <=> \E j \in Slot \ {i} : t.pool[j].mPid # -1 /\ Pair(t, j) = p
    <2>1. Grown(t.mail[p], u.mail[p], m)
      BY <1>4 DEF Appended, Grown
    <2>2. Len(u.mail[p]) > Len(t.mail[p]) <=> \E j \in S : Pair(t, j) = p
      BY <1>4 DEF Appended
    <2> QED BY <1>3, <2>1, <2>2
  <1> QED BY <1>1, <1>5 DEF u

LEMMA CloseMail ==
    ASSUME NEW t, Sound(t), NEW i \in Slot, t.pool[i].mPid # -1
    PROVE  \E m : /\ \A j : About(m, j) => j = i
                  /\ \A p \in Pid : Grown(t.mail[p], PassCloseChannel(t, i).mail[p], m)
  <1> DEFINE m == [type |-> "close", slot |-> i, pid |-> t.pool[i].mPid]
             S == {j \in Slot : ~t.pool[j].mExited /\ t.pool[j].mPid # -1}
             u == PassCloseChannel(t, i)
  <1>1. m \in Message /\ (\A j : About(m, j) => j = i) /\ S \in SUBSET Slot
    BY DEF Sound, Settled, Tables, Worker, Message, About
  <1>2. u = Send(t, S, m)
    BY DEF PassCloseChannel
  <1> HIDE DEF m, S, u
  <1>3. Appended(t, u, S, m)
    BY <1>1, <1>2, SendSound
  <1>4. \A p \in Pid : Grown(t.mail[p], u.mail[p], m)
    BY <1>3 DEF Appended, Grown
  <1> QED BY <1>1, <1>4 DEF u

LEMMA ChannelClosed ==
    ASSUME NEW t, Sound(t), NEW i \in Slot, t.pool[i].mPid # -1
    PROVE  LET u == CloseChannel(t, i) IN
           /\ Sound(u) /\ Kept(t, u)
           /\ u.pool = t.pool /\ u.proc = t.proc /\ u.mail = t.mail
           /\ t.pool[i].mCh \in Fd
           /\ u.fds = With(t.fds, t.pool[i].mCh, None) /\ u.fds[t.pool[i].mCh] = None
  <1> DEFINE u == CloseChannel(t, i)
             k == t.pool[i].mCh
  <1>1. t \in Tables /\ k # FD_UNKNOWN /\ k \in Fd
    BY DEF Sound, Settled, Entries, Entry, Tables, Worker
  <1>2. u = [t EXCEPT !.fds = With(t.fds, k, None)]
    BY <1>1 DEF CloseChannel
  <1>3. /\ With(t.fds, k, None) \in [Fd -> {None} \cup Pid]
        /\ With(t.fds, k, None)[k] = None
        /\ \A j \in Fd \ {k} : With(t.fds, k, None)[j] = t.fds[j]
    <2>1. t.fds \in [Fd -> {None} \cup Pid] /\ None \in {None} \cup Pid
      BY <1>1 DEF Tables
    <2> HIDE DEF k
    <2> QED BY <1>1, <2>1 DEF With
  <1>4. /\ u \in Tables /\ u.pool = t.pool /\ u.proc = t.proc /\ u.mail = t.mail
        /\ u.fds = With(t.fds, k, None)
    BY <1>1, <1>2, <1>3 DEF Tables
  <1> HIDE DEF u, k
  <1>5. Kept(t, u)
    BY <1>4 DEF Kept, Same, EndsKept, LastKept, Born, Gone, Apart
  <1>6. Waited(u) /\ Entries(u) /\ Latest(u)
    BY <1>4, <1>5 DEF Sound, Settled, Kept, Same, Waited, Entries, Entry, Latest, Placed
  <1>7. Fresh(u) /\ FdsApart(u)
    BY <1>1, <1>3, <1>4, <1>5 DEF Sound, Settled, Fresh, FdsApart, Kept
  <1>8. Marked(u)
    BY <1>4, <1>5 DEF Sound, Marked, Told, Kept
  <1> QED BY <1>1, <1>3, <1>4, <1>5, <1>6, <1>7, <1>8 DEF Sound, Settled, u, k

LEMMA BothAtMost ==
    ASSUME NEW S, NEW T, IsFiniteSet(S), IsFiniteSet(T)
    PROVE  /\ IsFiniteSet(S \cup T) /\ Cardinality(S \cup T) \in Nat
           /\ Cardinality(S \cup T) <= Cardinality(S) + Cardinality(T)
  <1>1. /\ IsFiniteSet(S \cup T)
        /\ Cardinality(S \cup T) = Cardinality(S) + Cardinality(T) - Cardinality(S \cap T)
    BY FS_Union
  <1>2. IsFiniteSet(S \cap T)
    BY FS_Subset
  <1>3. /\ Cardinality(S \cap T) \in Nat /\ Cardinality(S) \in Nat /\ Cardinality(T) \in Nat
        /\ Cardinality(S \cup T) \in Nat
    BY <1>1, <1>2, FS_CardinalityType
  <1> QED BY <1>1, <1>3

(* A descriptor is free: each number has a socket pair of its own.         *)
LEMMA RoomForFd ==
    ASSUME NEW t, Sound(t)
    PROVE  \E k \in Fd : t.fds[k] = None
  <1> SUFFICES ASSUME \A k \in Fd : t.fds[k] # None PROVE FALSE
    OBVIOUS
  <1>1. t.fds \in [Fd -> {None} \cup Pid]
    BY DEF Sound, Settled, Tables
  <1>2. t.fds \in [Fd -> Pid]
    BY <1>1
  <1>3. \A k, j \in Fd : t.fds[k] = t.fds[j] => k = j
    BY DEF Sound, Settled, FdsApart
  <1>4. t.fds \in Injection(Fd, Pid)
    BY <1>2, <1>3 DEF Injection, IsInjective
  <1>5. Cardinality(Fd) <= Cardinality(Pid)
    BY <1>4, Numbers, FS_Injection
  <1> QED BY <1>5, Numbers

(* Nobody is, or waits to be waited for, in the slot i, and if a worker of *)
(* this type is to be replaced then nobody is placed there.                *)
Vacant(t, i, type) ==
    /\ t.pool[i].mPid = -1 \/ t.pool[i].mExited
    /\ type # "just_spawn" => \A p \in Placed(t) : t.proc[p].slot # i
    /\ type = "slot" => ~t.pool[i].mDetached

(* A new worker: the lowest free descriptor, the lowest free process.      *)
Spawned(t, u, i, type, k, p) ==
    /\ k \in Fd /\ t.fds[k] = None /\ (\A j \in Fd : j < k => t.fds[j] # None)
    /\ p \in Pid \ Born(t)
    /\ u \in Tables /\ u.mail = t.mail
    /\ u.fds[k] = p /\ \A j \in Fd \ {k} : u.fds[j] = t.fds[j]
    /\ u.pool[i].mPid = p /\ ~u.pool[i].mExited /\ ~u.pool[i].mExiting
    /\ u.pool[i].mRespawn = (IF type = "slot" THEN t.pool[i].mRespawn ELSE type = "respawn")
    /\ u.pool[i].mDetached = (IF type = "slot" THEN t.pool[i].mDetached ELSE type = "just_spawn")
    /\ u.pool[i].mCh = k
    /\ \A j \in Slot \ {i} : u.pool[j] = t.pool[j]
    /\ \A q \in Pid \ {p} : u.proc[q] = t.proc[q]
    /\ u.proc[p].state = "running" /\ u.proc[p].code = 0 /\ u.proc[p].slot = i
    /\ u.proc[p].deaf = ClosesOwn(t, i, k) /\ u.proc[p].detached = (type = "just_spawn")
    /\ ~u.proc[p].g_terminate /\ ~u.proc[p].g_quit /\ ~u.proc[p].mExiting
    /\ \A j \in Slot : u.proc[p].view[j] =
          IF j = i THEN p ELSE IF t.pool[j].mCh = FD_UNKNOWN THEN None ELSE u.fds[t.pool[j].mCh]

LEMMA SpawnIs ==
    ASSUME NEW t \in Tables, NEW i \in Slot, NEW type \in Type,
           \E k \in Fd : t.fds[k] = None, Born(t) # Pid
    PROVE  \E k \in Fd, p \in Pid : Spawned(t, SpawnWorker(t, i, type), i, type, k, p)
  <1> DEFINE K == {n \in Fd : t.fds[n] = None}
             Q == {q \in Pid : t.proc[q].state = "unborn"}
             k == Min(K)
             p == Min(Q)
             f == With(t.fds, k, p)
             o == Updated(t.pool[i], k, p)
             w == Kind(o, type)
             d == (type = "just_spawn")
             view == [j \in Slot |-> IF j = i THEN p
                                     ELSE IF t.pool[j].mCh = FD_UNKNOWN THEN None ELSE f[t.pool[j].mCh]]
             q == [Unborn EXCEPT !.state = "running", !.slot = i, !.deaf = ClosesOwn(t, i, k),
                                 !.detached = d, !.view = view]
             u == SpawnWorker(t, i, type)
  <1>1. k \in K /\ \A j \in K : k <= j
    <2>1. K \subseteq Nat /\ K # {}
      BY Numbers
    <2> HIDE DEF K
    <2> QED BY <2>1, MinOf
  <1>2. p \in Q
    <2>1. Q \subseteq Nat /\ Q # {}
      BY Numbers DEF Born
    <2> HIDE DEF Q
    <2> QED BY <2>1, MinOf
  <1>3. u = [t EXCEPT !.fds = f, !.pool = With(t.pool, i, w), !.proc = With(t.proc, p, q)]
    BY DEF SpawnWorker, LowestFree
  <1> HIDE DEF u
  <1>4. k \in Fd /\ t.fds[k] = None /\ p \in Pid \ Born(t)
    BY <1>1, <1>2 DEF Born
  <1>5. ASSUME NEW j \in Fd, j < k PROVE t.fds[j] # None
    <2> SUFFICES ASSUME t.fds[j] = None PROVE FALSE
      OBVIOUS
    <2>1. j \in K
      OBVIOUS
    <2>2. k <= j
      BY <1>1, <2>1
    <2>3. k \in Nat /\ j \in Nat
      BY <1>4, Numbers
    <2> HIDE DEF k
    <2> QED BY <1>5, <2>2, <2>3
  <1> HIDE DEF k, p
  <1>6. /\ f \in [Fd -> {None} \cup Pid] /\ f[k] = p
        /\ \A j \in Fd \ {k} : f[j] = t.fds[j]
    BY <1>4 DEF Tables, With
  <1> HIDE DEF f
  <1>7. /\ o \in Worker
        /\ o.mPid = p /\ ~o.mExited /\ ~o.mExiting
        /\ o.mRespawn = t.pool[i].mRespawn /\ o.mDetached = t.pool[i].mDetached /\ o.mCh = k
    <2>1. t.pool[i] \in Worker
      BY DEF Tables
    <2> QED BY <1>4, <2>1 DEF Updated, Worker
  <1> HIDE DEF o
  <1>8. /\ w \in Worker
        /\ w.mPid = p /\ ~w.mExited /\ ~w.mExiting
        /\ w.mRespawn = (IF type = "slot" THEN t.pool[i].mRespawn ELSE type = "respawn")
        /\ w.mDetached = (IF type = "slot" THEN t.pool[i].mDetached ELSE type = "just_spawn")
        /\ w.mCh = k
    <2>1. CASE type = "slot"
      BY <1>7, <2>1 DEF Kind
    <2>2. CASE type # "slot"
      <3> DEFINE r == (type = "respawn")
      <3>1. r \in BOOLEAN /\ d \in BOOLEAN
        OBVIOUS
      <3>2. w = [o EXCEPT !.mRespawn = r, !.mDetached = d]
        BY <2>2 DEF Kind
      <3> HIDE DEF r, d, w
      <3>3. /\ w \in Worker /\ w.mPid = o.mPid /\ w.mExited = o.mExited /\ w.mExiting = o.mExiting
            /\ w.mRespawn = r /\ w.mDetached = d /\ w.mCh = o.mCh
        BY <1>7, <3>1, <3>2 DEF Worker
      <3> QED BY <1>7, <2>2, <3>3 DEF r, d
    <2> QED BY <2>1, <2>2
  <1> HIDE DEF w
  <1>9. view \in [Slot -> {None, Wrong} \cup Pid]
    <2>1. \A j \in Slot : t.pool[j].mCh \in {FD_UNKNOWN} \cup Fd
      BY DEF Tables, Worker
    <2> QED BY <1>4, <1>6, <2>1
  <1>10. ClosesOwn(t, i, k) \in BOOLEAN /\ d \in BOOLEAN
    BY DEF ClosesOwn
  <1>11. /\ q \in Proc
         /\ q.state = "running" /\ q.code = 0 /\ q.slot = i /\ q.deaf = ClosesOwn(t, i, k)
         /\ q.detached = d
         /\ ~q.g_terminate /\ ~q.g_quit /\ ~q.mExiting /\ q.view = view
    <2> HIDE DEF view, d
    <2> QED BY <1>9, <1>10 DEF Unborn, Proc
  <1> HIDE DEF q, view
  <1>12. /\ With(t.pool, i, w) \in [Slot -> Worker] /\ With(t.pool, i, w)[i] = w
         /\ \A j \in Slot \ {i} : With(t.pool, i, w)[j] = t.pool[j]
    BY <1>8 DEF Tables, With
  <1>13. /\ With(t.proc, p, q) \in [Pid -> Proc] /\ With(t.proc, p, q)[p] = q
         /\ \A r \in Pid \ {p} : With(t.proc, p, q)[r] = t.proc[r]
    BY <1>4, <1>11 DEF Tables, With
  <1>14. /\ u \in Tables /\ u.mail = t.mail /\ u.fds = f
         /\ u.pool = With(t.pool, i, w) /\ u.proc = With(t.proc, p, q)
    BY <1>3, <1>6, <1>12, <1>13 DEF Tables
  <1>15. \A j \in Slot : view[j] = IF j = i THEN p
                                    ELSE IF t.pool[j].mCh = FD_UNKNOWN THEN None ELSE u.fds[t.pool[j].mCh]
    BY <1>14 DEF view
  <1>16. Spawned(t, u, i, type, k, p)
    BY <1>4, <1>5, <1>6, <1>8, <1>11, <1>12, <1>13, <1>14, <1>15 DEF Spawned
  <1> QED BY <1>4, <1>16 DEF u

LEMMA SpawnSound ==
    ASSUME NEW t, Sound(t), NEW i \in Slot, NEW type \in Type, Vacant(t, i, type),
           NEW u, NEW k, NEW p, Spawned(t, u, i, type, k, p)
    PROVE  /\ Sound(u) /\ Born(u) = Born(t) \cup {p} /\ Gone(u) = Gone(t)
           /\ Apart(u) = IF type = "just_spawn" THEN Apart(t) \cup {p} ELSE Apart(t)
           /\ EndsKept(t, u) /\ u.pool[i].mPid # -1
           /\ \A j \in Slot : t.pool[j].mPid # -1 => u.pool[j].mPid # -1
  <1>1. t \in Tables /\ u \in Tables /\ k \in Fd /\ p \in Pid /\ p \notin Born(t) /\ p # -1
    BY Numbers DEF Sound, Settled, Spawned
  <1>2. /\ u.proc[p].state = "running" /\ u.proc[p].slot = i
        /\ t.proc[p] = Unborn /\ t.proc[p].state = "unborn" /\ ~t.proc[p].detached
        /\ t.mail[p] = << >>
        /\ ~u.proc[p].g_terminate /\ ~u.proc[p].g_quit /\ ~u.proc[p].mExiting
        /\ u.proc[p].detached = (type = "just_spawn")
    <2>1. t.proc[p] = Unborn /\ t.mail[p] = << >>
      BY <1>1 DEF Sound, Settled, Fresh
    <2>2. t.proc[p].state = "unborn" /\ ~t.proc[p].detached
      BY <2>1 DEF Unborn
    <2>3. /\ u.proc[p].state = "running" /\ u.proc[p].slot = i
          /\ ~u.proc[p].g_terminate /\ ~u.proc[p].g_quit /\ ~u.proc[p].mExiting
          /\ u.proc[p].detached = (type = "just_spawn")
      BY DEF Spawned
    <2> QED BY <2>1, <2>2, <2>3
  <1>3. /\ u.pool[i].mPid = p /\ ~u.pool[i].mExited /\ ~u.pool[i].mExiting /\ u.pool[i].mCh = k
        /\ \A j \in Slot \ {i} : u.pool[j] = t.pool[j]
        /\ \A q \in Pid \ {p} : u.proc[q] = t.proc[q]
        /\ u.mail = t.mail
        /\ u.fds[k] = p /\ \A j \in Fd \ {k} : u.fds[j] = t.fds[j]
    BY DEF Spawned
  <1>4. /\ Born(u) = Born(t) \cup {p} /\ Gone(u) = Gone(t)
        /\ Apart(u) = IF type = "just_spawn" THEN Apart(t) \cup {p} ELSE Apart(t)
    <2>1. Born(u) = Born(t) \cup {p} /\ Gone(u) = Gone(t)
      BY <1>1, <1>2, <1>3 DEF Born, Gone
    <2>2. u.proc[p].detached <=> type = "just_spawn"
      BY <1>2
    <2>3. \A q \in Pid : q # p => (u.proc[q].detached <=> t.proc[q].detached)
      BY <1>3
    <2>4. CASE type = "just_spawn"
      <3>1. u.proc[p].detached
        BY <2>2, <2>4
      <3>2. Apart(u) = Apart(t) \cup {p}
        BY <1>1, <2>3, <3>1, Zenon DEF Apart
      <3> QED BY <2>1, <2>4, <3>2
    <2>5. CASE type # "just_spawn"
      <3>1. ~u.proc[p].detached /\ ~t.proc[p].detached
        BY <1>2, <2>2, <2>5
      <3>2. Apart(u) = Apart(t)
        BY <2>3, <3>1, Zenon DEF Apart
      <3> QED BY <2>1, <2>5, <3>2
    <2> QED BY <2>4, <2>5
  <1>5. \A q \in Pid : t.proc[q] \in Proc /\ t.proc[q].slot \in Slot
    BY <1>1 DEF Tables, Proc
  <1>6. ASSUME NEW q \in Pid, q # p, u.proc[q].state \in {"running", "zombie"}
        PROVE  u.pool[u.proc[q].slot].mPid = q /\ ~u.pool[u.proc[q].slot].mExited
    <2>1. /\ t.pool[t.proc[q].slot].mPid = q /\ ~t.pool[t.proc[q].slot].mExited
          /\ u.proc[q] = t.proc[q]
      BY <1>3, <1>6 DEF Sound, Settled, Waited
    <2>2. t.proc[q].slot # i
      BY <2>1, Numbers DEF Vacant
    <2> QED BY <1>3, <1>5, <2>1, <2>2
  <1>7. Waited(u)
    BY <1>2, <1>3, <1>6 DEF Waited
  <1>8. Entries(u)
    <2>1. ASSUME NEW j \in Slot, j # i, u.pool[j].mPid # -1 PROVE Entry(u, j)
      <3>1. u.pool[j] = t.pool[j] /\ Entry(t, j) /\ t.pool[j].mPid \in Born(t) /\ t.pool[j].mPid \in Pid
        BY <1>3, <2>1 DEF Sound, Settled, Entries, Entry, Born
      <3>2. u.proc[t.pool[j].mPid] = t.proc[t.pool[j].mPid]
        BY <1>1, <1>3, <3>1
      <3>3. t.pool[j].mPid # p /\ t.pool[j].mPid \in Born(u)
        BY <1>1, <1>4, <3>1
      <3>4. t.pool[j].mPid \in Apart(u) <=> t.pool[j].mPid \in Apart(t)
        BY <1>4, <3>3
      <3> QED BY <3>1, <3>2, <3>3, <3>4 DEF Entry
    <2>2. u.pool[i].mRespawn => ~u.pool[i].mDetached
      BY DEF Spawned, Vacant, Type
    <2>3. u.pool[i].mDetached <=> p \in Apart(u)
      <3>1. p \notin Apart(t)
        BY <1>2 DEF Apart
      <3> QED BY <1>4, <3>1 DEF Spawned, Vacant, Type
    <2>4. Entry(u, i)
      BY <1>1, <1>2, <1>3, <1>4, <2>2, <2>3, Numbers DEF Entry
    <2> QED BY <2>1, <2>4 DEF Entries
  <1>9. Latest(u)
    <2>1. \A q \in Placed(t) : q # p /\ q \in Pid /\ u.proc[q] = t.proc[q]
      BY <1>1, <1>3 DEF Placed, Born
    <2>2. CASE type = "just_spawn"
      <3>1. Placed(u) = Placed(t) /\ p \in Apart(u) /\ Apart(t) \subseteq Apart(u)
        BY <1>1, <1>4, <2>2 DEF Placed
      <3> QED BY <1>3, <1>5, <2>1, <3>1 DEF Sound, Settled, Latest
    <2>3. CASE type # "just_spawn"
      <3>1. Placed(u) = Placed(t) \cup {p} /\ Apart(u) = Apart(t)
        <4>1. p \notin Gone(t) /\ p \notin Apart(t)
          BY <1>2 DEF Gone, Apart
        <4> QED BY <1>4, <2>3, <4>1 DEF Placed
      <3>2. \A q \in Placed(t) : t.proc[q].slot # i
        BY <2>3 DEF Vacant
      <3>3. ASSUME NEW q \in Placed(t)
            PROVE  /\ u.pool[u.proc[q].slot].mPid \in {q, -1} \cup Apart(u)
                   /\ \A r \in Placed(u) : u.proc[q].slot = u.proc[r].slot => q = r
        BY <1>2, <1>3, <1>5, <2>1, <3>1, <3>2 DEF Sound, Settled, Latest
      <3>4. \A r \in Placed(u) : u.proc[p].slot = u.proc[r].slot => p = r
        BY <1>2, <2>1, <3>1, <3>2
      <3> QED BY <1>2, <1>3, <3>1, <3>3, <3>4 DEF Latest
    <2> QED BY <2>2, <2>3
  <1>10. Fresh(u)
    BY <1>1, <1>3, <1>4 DEF Sound, Settled, Fresh
  <1>11. FdsApart(u)
    <2>1. \A j \in Fd : t.fds[j] # p
      BY <1>1, Numbers DEF Sound, Settled, Fresh
    <2> QED BY <1>3, <2>1 DEF Sound, Settled, FdsApart
  <1>12. Marked(u)
    <2>1. ~Told(u, p)
      <3>1. DOMAIN u.mail[p] = {}
        BY <1>2, <1>3
      <3> QED BY <1>2, <3>1 DEF Told
    <2>2. ASSUME NEW q \in Born(t), Told(u, q), u.pool[u.proc[q].slot].mPid = q
          PROVE  u.pool[u.proc[q].slot].mExiting \/ u.pool[u.proc[q].slot].mDetached
      <3>1. q \in Pid /\ q # p /\ u.proc[q] = t.proc[q] /\ u.mail[q] = t.mail[q]
        BY <1>1, <1>3 DEF Born
      <3>2. t.proc[q].slot \in Slot \ {i}
        BY <1>3, <1>5, <2>2, <3>1
      <3> QED BY <1>3, <2>2, <3>1, <3>2 DEF Sound, Marked, Told
    <2> QED BY <1>4, <2>1, <2>2 DEF Marked
  <1>13. EndsKept(t, u)
    BY <1>2, <1>3 DEF EndsKept
  <1>14. u.pool[i].mPid # -1 /\ \A j \in Slot : t.pool[j].mPid # -1 => u.pool[j].mPid # -1
    BY <1>1, <1>3
  <1> QED BY <1>1, <1>4, <1>7, <1>8, <1>9, <1>10, <1>11, <1>12, <1>13, <1>14 DEF Sound, Settled

(* The placed processes have slots of their own, at most MaxCrashes are    *)
(* gone and MaxDetached apart: so there is a number left for one in a      *)
(* vacant slot, and for one that is ordered apart if there were fewer.     *)
LEMMA RoomForOne ==
    ASSUME NEW t, Sound(t), NEW i \in Slot, Counted(t),
           (\A p \in Placed(t) : t.proc[p].slot # i) \/ Cardinality(Apart(t)) < MaxDetached
    PROVE  Born(t) # Pid
  <1> DEFINE P == Placed(t)
             T == {t.proc[p].slot : p \in P}
             f == [p \in P |-> t.proc[p].slot]
             G == Gone(t)
             A == Apart(t)
  <1>1. T \subseteq Slot /\ IsFiniteSet(T) /\ Cardinality(T) <= mWorkerNum /\ Cardinality(T) \in Nat
    <2>1. \A p \in P : p \in Pid /\ t.proc[p].slot \in Slot
      BY DEF Sound, Settled, Tables, Proc, Placed, Born
    <2>2. T \subseteq Slot
      BY <2>1
    <2> HIDE DEF T
    <2> QED BY <2>2, Numbers, FS_Subset, FS_CardinalityType
  <1>2. (\A p \in P : t.proc[p].slot # i) => Cardinality(T) <= mWorkerNum - 1
    <2> SUFFICES ASSUME \A p \in P : t.proc[p].slot # i PROVE Cardinality(T) <= mWorkerNum - 1
      OBVIOUS
    <2>1. T \subseteq Slot \ {i}
      BY <1>1
    <2>2. IsFiniteSet(Slot \ {i}) /\ Cardinality(Slot \ {i}) = mWorkerNum - 1
      BY Numbers, FS_RemoveElement
    <2> HIDE DEF T
    <2> QED BY <2>1, <2>2, FS_Subset
  <1>3. f \in Injection(P, T)
    <2>1. f \in [P -> T]
      OBVIOUS
    <2>2. \A p, q \in P : f[p] = f[q] => p = q
      BY DEF Sound, Settled, Latest
    <2> HIDE DEF f, P, T
    <2> QED BY <2>1, <2>2 DEF Injection, IsInjective
  <1>4. IsFiniteSet(P) /\ Cardinality(P) <= Cardinality(T) /\ Cardinality(P) \in Nat
    <2> HIDE DEF f, P, T
    <2> QED BY <1>1, <1>3, FS_Injection, FS_CardinalityType
  <1>5. /\ IsFiniteSet(G) /\ Cardinality(G) \in Nat
        /\ IsFiniteSet(A) /\ Cardinality(A) \in Nat
    BY Numbers, FS_Subset, FS_CardinalityType DEF Gone, Apart
  <1>6. Born(t) \subseteq P \cup (G \cup A)
    BY DEF Placed
  <1>7. Cardinality(G) <= MaxCrashes /\ Cardinality(A) <= MaxDetached
    BY DEF Counted
  <1>8. (\A p \in P : t.proc[p].slot # i) \/ Cardinality(A) < MaxDetached
    OBVIOUS
  <1> HIDE DEF P, T, G, A
  <1>9. IsFiniteSet(G \cup A) /\ Cardinality(G \cup A) <= Cardinality(G) + Cardinality(A)
        /\ Cardinality(G \cup A) \in Nat
    BY <1>5, BothAtMost
  <1>10. /\ IsFiniteSet(P \cup (G \cup A))
         /\ Cardinality(P \cup (G \cup A)) <= Cardinality(P) + Cardinality(G \cup A)
         /\ Cardinality(P \cup (G \cup A)) \in Nat
    BY <1>4, <1>9, BothAtMost
  <1>11. IsFiniteSet(Born(t)) /\ Cardinality(Born(t)) <= Cardinality(P \cup (G \cup A))
         /\ Cardinality(Born(t)) \in Nat
    BY <1>6, <1>10, FS_Subset, FS_CardinalityType
  <1>12. Cardinality(Born(t)) < mWorkerNum + MaxCrashes + MaxDetached
    BY <1>1, <1>2, <1>4, <1>5, <1>7, <1>8, <1>9, <1>10, <1>11, Numbers
  <1> QED BY <1>12, Numbers

(* An entry of the table gets another descriptor, or loses its process.    *)
LEMMA EntrySound ==
    ASSUME NEW t, Sound(t), NEW i \in Slot, NEW w \in Worker,
           w.mPid = t.pool[i].mPid \/ (w.mPid = -1 /\ Exited(t.pool[i]) /\ i # mWorkerNum - 1),
           w.mExited = t.pool[i].mExited, w.mExiting = t.pool[i].mExiting,
           w.mRespawn = t.pool[i].mRespawn, w.mDetached = t.pool[i].mDetached,
           w.mCh = t.pool[i].mCh \/ w.mCh # FD_UNKNOWN
    PROVE  LET u == [t EXCEPT !.pool = With(t.pool, i, w)] IN
           /\ Sound(u) /\ Kept(t, u)
           /\ u.fds = t.fds /\ u.proc = t.proc /\ u.mail = t.mail
           /\ u.pool[i] = w /\ \A j \in Slot \ {i} : u.pool[j] = t.pool[j]
  <1> DEFINE u == [t EXCEPT !.pool = With(t.pool, i, w)]
  <1>1. t \in Tables
    BY DEF Sound, Settled
  <1>2. /\ With(t.pool, i, w) \in [Slot -> Worker] /\ With(t.pool, i, w)[i] = w
        /\ \A j \in Slot \ {i} : With(t.pool, i, w)[j] = t.pool[j]
    BY <1>1 DEF Tables, With
  <1>3. /\ u \in Tables /\ u.fds = t.fds /\ u.proc = t.proc /\ u.mail = t.mail
        /\ u.pool[i] = w /\ \A j \in Slot \ {i} : u.pool[j] = t.pool[j]
    BY <1>1, <1>2 DEF Tables
  <1> HIDE DEF u
  <1>4. Kept(t, u)
    <2>1. Born(u) = Born(t) /\ Gone(u) = Gone(t) /\ Apart(u) = Apart(t) /\ EndsKept(t, u)
      BY <1>3 DEF EndsKept, Born, Gone, Apart
    <2>2. mWorkerNum - 1 \in Slot
      BY Numbers DEF Slot
    <2>3. LastKept(t, u)
      BY <1>3, <2>2 DEF LastKept
    <2> QED BY <2>1, <2>3 DEF Kept, Same
  <1>5. \A p \in Pid : p # -1 /\ t.proc[p].slot \in Slot
    BY <1>1, Numbers DEF Tables, Proc
  <1>6. Waited(u)
    <2> SUFFICES ASSUME NEW p \in Pid, t.proc[p].state \in {"running", "zombie"}
                 PROVE  u.pool[t.proc[p].slot].mPid = p /\ ~u.pool[t.proc[p].slot].mExited
      BY <1>3 DEF Waited
    <2>1. t.pool[t.proc[p].slot].mPid = p /\ ~t.pool[t.proc[p].slot].mExited
      BY DEF Sound, Settled, Waited
    <2> QED BY <1>3, <1>5, <2>1 DEF Exited
  <1>7. Entries(u)
    <2>1. \A j \in Slot \ {i} : u.pool[j].mPid # -1 => Entry(u, j)
      BY <1>3, <1>4 DEF Sound, Settled, Entries, Entry, Kept, Same
    <2>2. w.mPid # -1 => Entry(u, i)
      BY <1>3, <1>4 DEF Sound, Settled, Entries, Entry, Kept, Same
    <2> QED BY <1>3, <2>1, <2>2 DEF Entries
  <1>8. Latest(u)
    <2>1. Placed(u) = Placed(t) /\ Apart(u) = Apart(t) /\ \A p \in Placed(t) : t.proc[p].slot \in Slot
      BY <1>4, <1>5 DEF Kept, Same, Placed, Born
    <2>2. \A j \in Slot : u.pool[j].mPid = t.pool[j].mPid \/ u.pool[j].mPid = -1
      BY <1>3
    <2> QED BY <1>3, <2>1, <2>2 DEF Sound, Settled, Latest
  <1>9. Fresh(u) /\ FdsApart(u)
    BY <1>3, <1>4 DEF Sound, Settled, Fresh, FdsApart, Kept
  <1>10. Marked(u)
    <2> SUFFICES ASSUME NEW p \in Born(t), Told(t, p), u.pool[t.proc[p].slot].mPid = p
                 PROVE  u.pool[t.proc[p].slot].mExiting \/ u.pool[t.proc[p].slot].mDetached
      BY <1>3, <1>4 DEF Marked, Told, Kept
    <2>1. t.proc[p].slot \in Slot /\ p # -1
      BY <1>5 DEF Born
    <2>2. t.pool[t.proc[p].slot].mPid = p
      BY <1>3, <2>1
    <2>3. t.pool[t.proc[p].slot].mExiting \/ t.pool[t.proc[p].slot].mDetached
      BY <2>2 DEF Sound, Marked
    <2> QED BY <1>3, <2>1, <2>3
  <1> QED BY <1>3, <1>4, <1>6, <1>7, <1>8, <1>9, <1>10 DEF Sound, Settled, u

(* SpawnFailed: the slot keeps the number of a descriptor.                 *)
LEMMA FailedSound ==
    ASSUME NEW t, Sound(t), NEW i \in Slot
    PROVE  LET u == SpawnFailed(t, i) IN
           /\ Sound(u) /\ Kept(t, u) /\ u.fds = t.fds /\ u.proc = t.proc
           /\ \A j \in Slot : u.pool[j].mPid = t.pool[j].mPid
  <1> DEFINE k == LowestFree(t)
             w == [t.pool[i] EXCEPT !.mCh = k]
  <1>1. k \in Fd
    <2> DEFINE K == {n \in Fd : t.fds[n] = None}
    <2>1. K # {}
      BY RoomForFd
    <2>2. K \subseteq Nat /\ K \subseteq Fd
      BY Numbers
    <2>3. k = Min(K)
      BY DEF LowestFree
    <2> HIDE DEF K, k
    <2> QED BY <2>1, <2>2, <2>3, MinOf
  <1>2. SpawnFailed(t, i) = [t EXCEPT !.pool = With(t.pool, i, w)]
    BY DEF SpawnFailed
  <1> HIDE DEF k
  <1>3. /\ w \in Worker /\ w.mPid = t.pool[i].mPid /\ w.mExited = t.pool[i].mExited
        /\ w.mExiting = t.pool[i].mExiting /\ w.mRespawn = t.pool[i].mRespawn
        /\ w.mDetached = t.pool[i].mDetached /\ w.mCh = k
    <2>1. t.pool[i] \in Worker
      BY DEF Sound, Settled, Tables
    <2> QED BY <1>1, <2>1 DEF Worker
  <1> HIDE DEF w
  <1>4. w.mCh # FD_UNKNOWN
    BY <1>1, <1>3, Numbers
  <1> DEFINE u == [t EXCEPT !.pool = With(t.pool, i, w)]
  <1>5. /\ Sound(u) /\ Kept(t, u) /\ u.fds = t.fds /\ u.proc = t.proc
        /\ u.pool[i] = w /\ \A j \in Slot \ {i} : u.pool[j] = t.pool[j]
    BY <1>3, <1>4, EntrySound
  <1>6. \A j \in Slot : u.pool[j].mPid = t.pool[j].mPid
    <2> HIDE DEF u
    <2> QED BY <1>3, <1>5
  <1> QED BY <1>2, <1>5, <1>6

(* ProcessGetStatus: who was waited for is reaped and marked.              *)
LEMMA StatusSound ==
    ASSUME NEW t, Sound(t)
    PROVE  LET u == ProcessGetStatus(t) IN
           /\ Sound(u) /\ Kept(t, u)
           /\ Clean(t) /\ Orderly(t, mWorkerNum) => Orderly(u, 0)
  <1> DEFINE dead == {p \in Pid : t.proc[p].state = "zombie"}
             u == ProcessGetStatus(t)
             proc1 == [p \in Pid |-> IF p \in dead THEN [t.proc[p] EXCEPT !.state = "reaped"] ELSE t.proc[p]]
             pool1 == [i \in Slot |->
                         IF t.pool[i].mPid \in dead
                         THEN [t.pool[i] EXCEPT !.mExited = TRUE,
                                 !.mRespawn = @ /\ Respawnable(t.proc[t.pool[i].mPid].code)]
                         ELSE t.pool[i]]
  <1>1. t \in Tables /\ u = [t EXCEPT !.proc = proc1, !.pool = pool1]
    BY DEF ProcessGetStatus, Sound, Settled
  <1> HIDE DEF u
  <1>2. \A p \in Pid : t.proc[p] \in Proc
    BY <1>1 DEF Tables
  <1>3. \A i \in Slot : t.pool[i] \in Worker
    BY <1>1 DEF Tables
  <1>4. ASSUME NEW p \in Pid
        PROVE  /\ proc1[p] \in Proc
               /\ proc1[p].state = IF p \in dead THEN "reaped" ELSE t.proc[p].state
               /\ proc1[p].code = t.proc[p].code /\ proc1[p].slot = t.proc[p].slot
               /\ proc1[p].deaf = t.proc[p].deaf /\ proc1[p].g_terminate = t.proc[p].g_terminate
               /\ proc1[p].g_quit = t.proc[p].g_quit /\ proc1[p].mExiting = t.proc[p].mExiting
               /\ proc1[p].view = t.proc[p].view /\ proc1[p].detached = t.proc[p].detached
               /\ p \notin dead => proc1[p] = t.proc[p]
    <2> HIDE DEF dead
    <2> QED BY <1>2 DEF Proc
  <1>5. ASSUME NEW i \in Slot
        PROVE  /\ pool1[i] \in Worker
               /\ pool1[i].mPid = t.pool[i].mPid /\ pool1[i].mCh = t.pool[i].mCh
               /\ pool1[i].mExiting = t.pool[i].mExiting /\ pool1[i].mDetached = t.pool[i].mDetached
               /\ t.pool[i].mPid \in dead =>
                     /\ pool1[i].mExited
                     /\ pool1[i].mRespawn <=> t.pool[i].mRespawn /\ t.proc[t.pool[i].mPid].code # 2
               /\ t.pool[i].mPid \notin dead => pool1[i] = t.pool[i]
    <2> DEFINE w == t.pool[i]
               r == w.mRespawn /\ Respawnable(t.proc[w.mPid].code)
               x == [w EXCEPT !.mExited = TRUE, !.mRespawn = r]
    <2>1. w \in Worker /\ r \in BOOLEAN
      BY <1>3
    <2>2. r <=> w.mRespawn /\ t.proc[w.mPid].code # 2
      BY DEF Respawnable
    <2>3. pool1[i] = IF w.mPid \in dead THEN x ELSE w
      OBVIOUS
    <2> HIDE DEF dead, pool1, r, w
    <2>4. /\ x \in Worker /\ x.mPid = w.mPid /\ x.mCh = w.mCh /\ x.mExiting = w.mExiting
          /\ x.mDetached = w.mDetached /\ x.mExited = TRUE /\ x.mRespawn = r
      BY <2>1 DEF Worker
    <2> HIDE DEF x
    <2>5. /\ pool1[i] \in Worker
          /\ pool1[i].mPid = w.mPid /\ pool1[i].mCh = w.mCh /\ pool1[i].mExiting = w.mExiting
          /\ pool1[i].mDetached = w.mDetached
          /\ w.mPid \in dead =>
                /\ pool1[i].mExited
                /\ pool1[i].mRespawn <=> w.mRespawn /\ t.proc[w.mPid].code # 2
          /\ w.mPid \notin dead => pool1[i] = w
      BY <2>1, <2>2, <2>3, <2>4
    <2> QED BY <2>5 DEF w
  <1> HIDE DEF proc1, pool1
  <1>6. proc1 \in [Pid -> Proc] /\ pool1 \in [Slot -> Worker]
    <2>1. proc1 = [p \in Pid |-> proc1[p]] /\ pool1 = [i \in Slot |-> pool1[i]]
      BY DEF proc1, pool1
    <2> QED BY <1>4, <1>5, <2>1
  <1>7. /\ u \in Tables /\ u.fds = t.fds /\ u.mail = t.mail /\ u.proc = proc1 /\ u.pool = pool1
    BY <1>1, <1>6 DEF Tables
  <1>8. Kept(t, u)
    <2>1. Born(u) = Born(t)
      BY <1>4, <1>7 DEF Born
    <2>2. Gone(u) = Gone(t)
      BY <1>4, <1>7 DEF Gone
    <2>3. Apart(u) = Apart(t)
      BY <1>4, <1>7 DEF Apart
    <2>4. EndsKept(t, u)
      BY <1>4, <1>7 DEF EndsKept
    <2>5. mWorkerNum - 1 \in Slot
      BY Numbers DEF Slot
    <2>6. LastKept(t, u)
      BY <1>5, <1>7, <2>5 DEF LastKept
    <2> QED BY <2>1, <2>2, <2>3, <2>4, <2>6 DEF Kept, Same
  <1>9. Waited(u)
    <2> SUFFICES ASSUME NEW p \in Pid, proc1[p].state \in {"running", "zombie"}
                 PROVE  pool1[proc1[p].slot].mPid = p /\ ~pool1[proc1[p].slot].mExited
      BY <1>7 DEF Waited
    <2>1. p \notin dead /\ proc1[p] = t.proc[p] /\ t.proc[p].slot \in Slot
      BY <1>2, <1>4 DEF Proc
    <2>2. t.pool[t.proc[p].slot].mPid = p /\ ~t.pool[t.proc[p].slot].mExited
      BY <2>1 DEF Sound, Settled, Waited
    <2> QED BY <1>5, <2>1, <2>2
  <1>10. Entries(u)
    <2> SUFFICES ASSUME NEW i \in Slot, pool1[i].mPid # -1
                 PROVE  Entry(u, i)
      BY <1>7 DEF Entries
    <2>1. t.pool[i].mPid = pool1[i].mPid /\ Entry(t, i)
      BY <1>5 DEF Sound, Settled, Entries
    <2>2. t.pool[i].mPid \in Pid
      BY <2>1 DEF Born, Entry
    <2>3. /\ pool1[i].mCh # FD_UNKNOWN /\ pool1[i].mPid \in Born(u) /\ proc1[pool1[i].mPid].slot = i
          /\ pool1[i].mRespawn => ~pool1[i].mDetached
          /\ pool1[i].mDetached <=> pool1[i].mPid \in Apart(u)
      <3> HIDE DEF dead
      <3> QED BY <1>4, <1>5, <1>8, <2>1, <2>2 DEF Entry, Kept, Same
    <2>4. CASE t.pool[i].mPid \in dead
      <3>1. /\ proc1[pool1[i].mPid].state = "reaped"
            /\ pool1[i].mRespawn => proc1[pool1[i].mPid].code # 2
        <4> HIDE DEF dead
        <4> QED BY <1>4, <1>5, <2>1, <2>2, <2>4
      <3> QED BY <1>7, <2>3, <3>1 DEF Entry
    <2>5. CASE t.pool[i].mPid \notin dead
      <3>1. pool1[i] = t.pool[i] /\ proc1[pool1[i].mPid] = t.proc[pool1[i].mPid]
        <4> HIDE DEF dead
        <4> QED BY <1>4, <1>5, <2>1, <2>2, <2>5
      <3> QED BY <1>7, <2>1, <2>3, <3>1 DEF Entry
    <2> QED BY <2>4, <2>5
  <1>11. Latest(u)
    <2>1. Placed(u) = Placed(t) /\ Apart(u) = Apart(t)
      BY <1>8 DEF Kept, Same, Placed
    <2>2. \A p \in Placed(t) : p \in Pid /\ t.proc[p].slot \in Slot /\ proc1[p].slot = t.proc[p].slot
      BY <1>2, <1>4 DEF Placed, Born, Proc
    <2>3. \A i \in Slot : pool1[i].mPid = t.pool[i].mPid
      BY <1>5
    <2> QED BY <1>7, <2>1, <2>2, <2>3 DEF Sound, Settled, Latest
  <1>12. Fresh(u) /\ FdsApart(u)
    <2>1. \A p \in Pid \ Born(t) : proc1[p] = t.proc[p]
      BY <1>4 DEF Born
    <2> QED BY <1>7, <1>8, <2>1 DEF Sound, Settled, Fresh, FdsApart, Kept
  <1>13. Marked(u)
    <2>1. ASSUME NEW p \in Born(t) PROVE Told(u, p) => Told(t, p)
      <3>1. /\ p \in Pid /\ u.mail = t.mail /\ u.proc[p] = proc1[p]
            /\ proc1[p].state \in {"zombie", "reaped"} => t.proc[p].state \in {"zombie", "reaped"}
        BY <1>4, <1>7 DEF Born
      <3>2. /\ proc1[p].code = t.proc[p].code /\ proc1[p].g_terminate = t.proc[p].g_terminate
            /\ proc1[p].g_quit = t.proc[p].g_quit /\ proc1[p].mExiting = t.proc[p].mExiting
        BY <1>4, <3>1
      <3> QED BY <3>1, <3>2 DEF Told
    <2>2. ASSUME NEW p \in Born(t)
          PROVE  LET i == t.proc[p].slot IN
                 /\ i \in Slot /\ u.proc[p].slot = i /\ u.pool[i].mPid = t.pool[i].mPid
                 /\ u.pool[i].mExiting = t.pool[i].mExiting /\ u.pool[i].mDetached = t.pool[i].mDetached
      <3>1. p \in Pid /\ t.proc[p].slot \in Slot
        BY <1>2 DEF Born, Proc
      <3> QED BY <1>4, <1>5, <1>7, <3>1
    <2> QED BY <1>8, <2>1, <2>2 DEF Sound, Marked, Kept
  <1>14. ASSUME Clean(t), Orderly(t, mWorkerNum) PROVE Orderly(u, 0)
    <2>1. \A i \in Slot : t.pool[i].mPid \in dead => ~t.pool[i].mExited
      <3>1. ASSUME NEW i \in Slot, t.pool[i].mPid \in dead PROVE ~t.pool[i].mExited
        <4>1. t.pool[i].mPid \in Pid /\ t.pool[i].mPid # -1 /\ t.proc[t.pool[i].mPid].state = "zombie"
          BY <3>1, Numbers
        <4> QED BY <4>1 DEF Sound, Settled, Entries, Entry
      <3> QED BY <3>1
    <2>2. Own(u)
      <3>1. \A i \in Slot : pool1[i].mCh = i
        BY <1>5, <1>14 DEF Orderly, Own
      <3>2. ASSUME NEW i \in Slot, pool1[i].mPid # -1, ~pool1[i].mExited PROVE t.fds[i] = pool1[i].mPid
        BY <1>5, <1>14, <3>2 DEF Orderly, Own
      <3>3. \A p \in Pid : ~proc1[p].deaf
        BY <1>4, <1>14 DEF Orderly, Own
      <3> QED BY <1>7, <3>1, <3>2, <3>3 DEF Own
    <2>3. ASSUME ~Stopping, NEW i \in Slot
          PROVE  /\ pool1[i].mPid # -1 /\ pool1[i].mRespawn /\ ~pool1[i].mExiting
                 /\ t.fds[i] = pool1[i].mPid
      <3>1. /\ t.pool[i].mPid # -1 /\ t.pool[i].mRespawn /\ ~t.pool[i].mExiting
            /\ t.fds[i] = t.pool[i].mPid
        BY <1>14, <2>3 DEF Orderly, Manned
      <3>2. t.pool[i].mPid \in dead => t.proc[t.pool[i].mPid].code # 2
        BY <1>14 DEF Clean
      <3> HIDE DEF dead
      <3> QED BY <1>5, <3>1, <3>2
    <2>4. ~Stopping => Manned(u, 0)
      BY <1>7, <2>3, Numbers DEF Manned
    <2>5. ASSUME ~Stopping, NEW p \in Pid, proc1[p].state = "running", NEW i \in Slot PROVE KnownTo(u, p, i)
      <3>1. t.proc[p].state = "running" /\ KnownTo(t, p, i)
        <4>1. t.proc[p].state = "running"
          BY <1>4, <2>5
        <4> QED BY <1>14, <2>5, <4>1 DEF Orderly, Known
      <3>2. /\ u.proc[p].view[i] = t.proc[p].view[i] /\ u.mail[p] = t.mail[p]
            /\ u.pool[i].mPid = t.pool[i].mPid
        BY <1>4, <1>5, <1>7
      <3> QED BY <3>1, <3>2 DEF KnownTo
    <2>6. ~Stopping => Known(u)
      BY <1>7, <2>5 DEF Known
    <2> QED BY <2>2, <2>4, <2>6 DEF Orderly
  <1> QED BY <1>7, <1>8, <1>9, <1>10, <1>11, <1>12, <1>13, <1>14 DEF Sound, Settled, u

-----------------------------------------------------------------------------
(* ReapChildren.                                                           *)

(* A worker is started where it may be: it is the one that is new.         *)
LEMMA StartSound ==
    ASSUME NEW t, Sound(t), NEW i \in Slot, NEW type \in Type, Vacant(t, i, type), Counted(t),
           type = "just_spawn" => Cardinality(Apart(t)) < MaxDetached
    PROVE  LET u == StartSlot(t, i, type) IN
           /\ Sound(u) /\ Gone(u) = Gone(t) /\ EndsKept(t, u) /\ u.pool[i].mPid # -1
           /\ \A j \in Slot : t.pool[j].mPid # -1 => u.pool[j].mPid # -1
           /\ \E p \in Pid : /\ Born(u) = Born(t) \cup {p} /\ u.proc[p].state = "running"
                             /\ \A q \in Pid \ {p} : u.proc[q] = t.proc[q]
                             /\ Apart(u) = IF type = "just_spawn" THEN Apart(t) \cup {p} ELSE Apart(t)
  <1> DEFINE v == SpawnWorker(t, i, type)
             u == StartSlot(t, i, type)
  <1>1. Born(t) # Pid
    <2>1. (\A p \in Placed(t) : t.proc[p].slot # i) \/ Cardinality(Apart(t)) < MaxDetached
      BY DEF Vacant
    <2> QED BY <2>1, RoomForOne
  <1>2. t \in Tables /\ \E k \in Fd : t.fds[k] = None
    BY RoomForFd DEF Sound, Settled
  <1>3. PICK k \in Fd, p \in Pid : Spawned(t, v, i, type, k, p)
    BY <1>1, <1>2, SpawnIs
  <1>4. u = PassOpenChannel(v, i)
    BY DEF StartSlot
  <1> HIDE DEF u, v
  <1>5. /\ Sound(v) /\ Born(v) = Born(t) \cup {p} /\ Gone(v) = Gone(t)
        /\ Apart(v) = IF type = "just_spawn" THEN Apart(t) \cup {p} ELSE Apart(t)
        /\ EndsKept(t, v) /\ v.pool[i].mPid # -1
        /\ \A j \in Slot : t.pool[j].mPid # -1 => v.pool[j].mPid # -1
    BY <1>3, SpawnSound
  <1>6. v.proc[p].state = "running" /\ \A q \in Pid \ {p} : v.proc[q] = t.proc[q]
    BY <1>3 DEF Spawned
  <1>7. /\ Sound(u) /\ Kept(v, u) /\ u.pool = v.pool /\ u.fds = v.fds /\ u.proc = v.proc
    BY <1>4, <1>5, OpenSound
  <1>8. Born(u) = Born(v) /\ Gone(u) = Gone(v) /\ Apart(u) = Apart(v)
    BY <1>7 DEF Kept, Same
  <1>9. EndsKept(t, u)
    BY <1>5, <1>7 DEF EndsKept
  <1> QED BY <1>5, <1>6, <1>7, <1>8, <1>9 DEF u

(* The channel of a worker that has exited is closed, or left open.        *)
LEMMA ClosedSound ==
    ASSUME NEW t, Sound(t), NEW i \in Slot, t.pool[i].mPid # -1
    PROVE  LET c == Closed(t, i) IN
           Sound(c) /\ Kept(t, c) /\ c.pool = t.pool /\ c.proc = t.proc
  <1> DEFINE b == CloseChannel(t, i)
             c == PassCloseChannel(b, i)
  <1>1. Sound(b) /\ Kept(t, b) /\ b.pool = t.pool /\ b.proc = t.proc
    BY ChannelClosed
  <1> HIDE DEF b
  <1>2. Sound(c) /\ Kept(b, c) /\ c.pool = b.pool /\ c.proc = b.proc
    BY <1>1, CloseSound
  <1> HIDE DEF c
  <1>3. Kept(t, c)
    BY <1>1, <1>2, SameTwice DEF Kept
  <1>4. Kept(t, t)
    BY DEF Kept, Same, EndsKept, LastKept
  <1>5. CASE t.pool[i].mDetached
    BY <1>4, <1>5 DEF Closed
  <1>6. CASE ~t.pool[i].mDetached
    <2>1. Closed(t, i) = c
      BY <1>6 DEF Closed, b, c
    <2> QED BY <1>1, <1>2, <1>3, <2>1
  <1> QED BY <1>5, <1>6

(* Who is to be replaced ended by itself: it was not told to, or it would  *)
(* have been marked, and its code was not 2.  So nobody is placed there.   *)
LEMMA LeftVacant ==
    ASSUME NEW t, Sound(t), NEW i \in Slot, Exited(t.pool[i]), Respawns(t.pool[i])
    PROVE  Vacant(t, i, "slot")
  <1> DEFINE p == t.pool[i].mPid
  <1>1. /\ p # -1 /\ t.pool[i].mExited /\ t.pool[i].mRespawn /\ ~t.pool[i].mExiting
    BY DEF Exited, Respawns
  <1>2. Entry(t, i) /\ p \in Born(t) /\ p \in Pid
    BY <1>1 DEF Sound, Settled, Entries, Entry, Born
  <1>3. /\ t.proc[p].slot = i /\ t.proc[p].state = "reaped" /\ t.proc[p].code # 2
        /\ ~t.pool[i].mDetached /\ p \notin Apart(t)
    BY <1>1, <1>2 DEF Entry
  <1>4. ~Told(t, p)
    BY <1>1, <1>2, <1>3 DEF Sound, Marked
  <1>5. t.proc[p].code # 0 /\ t.proc[p].code \in {0, 1, 2}
    <2>1. t.proc[p].code # 0
      BY <1>3, <1>4 DEF Told
    <2>2. t.proc[p] \in Proc
      BY <1>2 DEF Sound, Settled, Tables
    <2> QED BY <2>1, <2>2 DEF Proc
  <1>6. p \in Gone(t)
    BY <1>2, <1>3, <1>5 DEF Gone
  <1>7. \A q \in Placed(t) : t.proc[q].slot # i
    BY <1>1, <1>3, <1>6 DEF Sound, Settled, Latest, Placed
  <1> QED BY <1>1, <1>3, <1>7 DEF Vacant

(* A slot whose process has exited.                                        *)
LEMMA ReapSound ==
    ASSUME NEW t, Sound(t), NEW i \in Slot, Exited(t.pool[i]), NEW fails, Counted(t)
    PROVE  LET u == ReapSlot(t, i, fails) IN Sound(u) /\ Same(t, u)
  <1> DEFINE c == Closed(t, i)
             u == ReapSlot(t, i, fails)
  <1>1. t.pool[i].mPid # -1 /\ t.pool[i].mExited
    BY DEF Exited
  <1>2. Sound(c) /\ Kept(t, c) /\ c.pool = t.pool /\ c.proc = t.proc
    BY <1>1, ClosedSound
  <1>3. Same(t, c)
    BY <1>2 DEF Kept
  <1>4. CASE Respawns(t.pool[i]) /\ i \in fails
    <2>1. u = SpawnFailed(c, i)
      BY <1>4 DEF ReapSlot
    <2> HIDE DEF u, c
    <2>2. Sound(u) /\ Kept(c, u)
      BY <1>2, <2>1, FailedSound
    <2> QED BY <1>3, <2>2, SameTwice DEF Kept, u
  <1>5. CASE Respawns(t.pool[i]) /\ i \notin fails
    <2>1. u = StartSlot(c, i, "slot")
      BY <1>5 DEF ReapSlot
    <2> HIDE DEF u, c
    <2>2. Vacant(c, i, "slot") /\ Counted(c)
      <3>1. Exited(c.pool[i]) /\ Respawns(c.pool[i])
        BY <1>2, <1>5
      <3>2. Counted(c)
        BY <1>3 DEF Same, Counted
      <3> QED BY <1>2, <3>1, <3>2, LeftVacant
    <2>3. /\ Sound(u) /\ Gone(u) = Gone(c) /\ EndsKept(c, u) /\ Apart(u) = Apart(c)
          /\ \A j \in Slot : c.pool[j].mPid # -1 => u.pool[j].mPid # -1
      BY <1>2, <2>1, <2>2, StartSound DEF Type
    <2>4. mWorkerNum - 1 \in Slot
      BY Numbers DEF Slot
    <2>5. Same(c, u)
      BY <2>3, <2>4 DEF Same, LastKept
    <2> QED BY <1>3, <2>3, <2>5, SameTwice DEF u
  <1>6. CASE ~Respawns(t.pool[i]) /\ i # mWorkerNum - 1
    <2> DEFINE w == [c.pool[i] EXCEPT !.mPid = -1]
    <2>1. u = [c EXCEPT !.pool = With(c.pool, i, w)]
      BY <1>6 DEF ReapSlot
    <2> HIDE DEF u, c
    <2>2. c.pool[i] \in Worker
      BY <1>2 DEF Sound, Settled, Tables
    <2>3. /\ w \in Worker /\ w.mPid = -1 /\ w.mExited = c.pool[i].mExited
          /\ w.mExiting = c.pool[i].mExiting /\ w.mRespawn = c.pool[i].mRespawn
          /\ w.mDetached = c.pool[i].mDetached /\ w.mCh = c.pool[i].mCh
      BY <2>2 DEF Worker
    <2>4. Exited(c.pool[i])
      BY <1>2
    <2> HIDE DEF w
    <2> DEFINE x == [c EXCEPT !.pool = With(c.pool, i, w)]
    <2>5. Sound(x) /\ Kept(c, x)
      BY <1>2, <1>6, <2>3, <2>4, EntrySound
    <2> HIDE DEF x
    <2> QED BY <1>3, <2>1, <2>5, SameTwice DEF Kept, u, x
  <1>7. CASE ~Respawns(t.pool[i]) /\ i = mWorkerNum - 1
    <2>1. u = c
      BY <1>7 DEF ReapSlot
    <2> HIDE DEF u, c
    <2> QED BY <1>2, <1>3, <2>1 DEF u
  <1> QED BY <1>4, <1>5, <1>6, <1>7

LEMMA TurnsSound ==
    ASSUME NEW t, Sound(t), NEW i \in Slot, NEW fails, Counted(t)
    PROVE  LET u == ReapTurn(t, i, fails) IN Sound(u) /\ Same(t, u) /\ Counted(u)
  <1> DEFINE u == ReapTurn(t, i, fails)
  <1>1. Sound(u) /\ Same(t, u)
    <2>1. CASE Exited(t.pool[i])
      BY <2>1, ReapSound DEF ReapTurn
    <2>2. CASE ~Exited(t.pool[i])
      BY <2>2 DEF ReapTurn, Same, EndsKept, LastKept
    <2> QED BY <2>1, <2>2
  <1> HIDE DEF u
  <1> QED BY <1>1 DEF Same, Counted, u

LEMMA ReapedSound ==
    ASSUME NEW t, Sound(t), NEW fails, Counted(t)
    PROVE  LET u == ReapChildren(t, fails) IN Sound(u) /\ Same(t, u)
  <1>1. PICK after : /\ after[0] = t
                     /\ \A k \in 0 .. mWorkerNum - 1 : after[k + 1] = ReapTurn(after[k], k, fails)
                     /\ ReapChildren(t, fails) = after[mWorkerNum]
    BY ReapsAre
  <1> DEFINE S == {k \in 0 .. mWorkerNum : Sound(after[k]) /\ Same(t, after[k]) /\ Counted(after[k])}
  <1>2. 0 \in S
    BY <1>1, Numbers DEF Same, EndsKept, LastKept
  <1>3. ASSUME NEW k \in 0 .. mWorkerNum - 1, k \in S PROVE k + 1 \in S
    <2>1. k \in Slot /\ k + 1 \in 0 .. mWorkerNum
      BY Numbers DEF Slot
    <2> DEFINE a == after[k]
               b == ReapTurn(a, k, fails)
    <2>2. Sound(a) /\ Same(t, a) /\ Counted(a)
      BY <1>3
    <2>3. after[k + 1] = b
      BY <1>1
    <2> HIDE DEF a
    <2>4. Sound(b) /\ Same(a, b) /\ Counted(b)
      BY <2>1, <2>2, TurnsSound
    <2> HIDE DEF b
    <2>5. Same(t, b)
      BY <2>2, <2>4, SameTwice
    <2> QED BY <2>1, <2>3, <2>4, <2>5
  <1> HIDE DEF S
  <1>4. mWorkerNum \in S
    BY <1>2, <1>3, Inductively, Numbers
  <1> QED BY <1>1, <1>4 DEF S

(* Nobody failed: the new worker gets the number of the descriptor that was *)
(* closed, which is its slot's, and who runs is told of it.                *)
LEMMA NewKnown ==
    ASSUME NEW t, Sound(t), NEW i \in Slot, Own(t), Manned(t, i), Known(t), t.pool[i].mExited,
           NEW c, Sound(c), c.pool = t.pool, c.proc = t.proc,
           c.fds[i] = None, \A j \in Fd \ {i} : c.fds[j] = t.fds[j],
           NEW m, \A j : About(m, j) => j = i, \A q \in Pid : Grown(t.mail[q], c.mail[q], m),
           NEW v, NEW k, NEW p, Spawned(c, v, i, "slot", k, p), Sound(v)
    PROVE  LET u == PassOpenChannel(v, i) IN Own(u) /\ Manned(u, i + 1) /\ Known(u)
  <1> DEFINE u == PassOpenChannel(v, i)
  <1>1. \A j \in Slot : /\ t.pool[j].mPid \in Pid /\ t.pool[j].mPid \in Born(c) /\ t.pool[j].mCh = j
                       /\ t.fds[j] = t.pool[j].mPid
    <2>1. ASSUME NEW j \in Slot PROVE t.pool[j].mPid \in Pid /\ t.pool[j].mPid \in Born(c)
      <3>1. c.pool[j].mPid # -1
        BY DEF Manned
      <3> QED BY <3>1 DEF Sound, Settled, Entries, Entry, Born
    <2> QED BY <2>1 DEF Own, Manned
  <1>2. k = i
    <2>1. k \in Fd /\ c.fds[k] = None /\ \A j \in Fd : j < k => c.fds[j] # None
      BY DEF Spawned
    <2>2. k <= i /\ k \in Nat
      BY <2>1, Numbers
    <2>3. k \in Slot
      BY <2>2, Numbers DEF Slot
    <2> QED BY <1>1, <2>1, <2>3, Numbers
  <1>3. /\ p \in Pid /\ p \notin Born(c) /\ p # -1
        /\ v.mail = c.mail
        /\ v.fds[i] = p /\ \A j \in Slot \ {i} : v.fds[j] = t.fds[j]
        /\ v.pool[i].mPid = p /\ ~v.pool[i].mExited /\ ~v.pool[i].mExiting
        /\ v.pool[i].mRespawn = t.pool[i].mRespawn /\ v.pool[i].mCh = i
        /\ \A j \in Slot \ {i} : v.pool[j] = t.pool[j]
        /\ \A q \in Pid \ {p} : v.proc[q] = t.proc[q]
        /\ v.proc[p].deaf = ClosesOwn(c, i, i)
        /\ \A j \in Slot : v.proc[p].view[j] =
              IF j = i THEN p ELSE IF t.pool[j].mCh = FD_UNKNOWN THEN None ELSE v.fds[t.pool[j].mCh]
    BY <1>2, Numbers DEF Spawned
  <1>4. u.pool = v.pool /\ u.fds = v.fds /\ u.proc = v.proc
    BY <1>3, OpenSound
  <1>5. PICK n : /\ Opens(n, i, p)
                 /\ \A q \in Pid :
                       /\ Grown(c.mail[q], u.mail[q], n)
                       /\ Len(u.mail[q]) > Len(c.mail[q])
                             <=> \E j \in Slot \ {i} : v.pool[j].mPid # -1 /\ Pair(v, j) = q
    BY <1>3, OpenMail
  <1> HIDE DEF u
  <1>6. \A j \in Slot \ {i} : v.pool[j].mPid # -1 /\ Pair(v, j) = t.pool[j].mPid
    BY <1>1, <1>3, Numbers DEF Pair
  <1>7. Own(u)
    <2>1. ~v.proc[p].deaf
      <3>1. ~ClosesOwn(c, i, i)
        BY <1>1 DEF ClosesOwn
      <3> QED BY <1>3, <3>1
    <2>2. \A q \in Pid : ~v.proc[q].deaf
      BY <1>3, <2>1 DEF Own
    <2> QED BY <1>1, <1>3, <1>4, <2>2 DEF Own
  <1>8. Manned(u, i + 1)
    <2>1. ASSUME NEW j \in Slot, j # i, t.pool[j].mExited PROVE i + 1 <= j
      <3>1. i <= j
        BY <2>1 DEF Manned
      <3> QED BY <2>1, <3>1, Numbers
    <2> QED BY <1>3, <1>4, <2>1 DEF Manned
  <1>9. ASSUME NEW q \in Pid, q # p, u.proc[q].state = "running", NEW j \in Slot PROVE KnownTo(u, q, j)
    <2>1. u.proc[q] = t.proc[q] /\ t.proc[q].state = "running"
      BY <1>3, <1>4, <1>9
    <2>2. CASE j = i
      <3>1. PICK x \in Slot \ {i} : v.pool[x].mPid # -1 /\ Pair(v, x) = q
        <4>1. t.proc[q].slot \in Slot
          BY DEF Sound, Settled, Tables, Proc
        <4>2. t.pool[t.proc[q].slot].mPid = q /\ ~t.pool[t.proc[q].slot].mExited
          BY <2>1 DEF Sound, Settled, Waited
        <4>3. t.proc[q].slot # i
          BY <4>2
        <4>4. /\ v.pool[t.proc[q].slot].mPid # -1 /\ Pair(v, t.proc[q].slot) = q
          BY <1>6, <4>1, <4>2, <4>3
        <4> QED BY <4>1, <4>3, <4>4
      <3>2. Grown(c.mail[q], u.mail[q], n) /\ Len(u.mail[q]) > Len(c.mail[q])
        BY <1>5, <3>1
      <3>3. Knows(u.proc[q].view[i], u.mail[q], i, p)
        BY <1>5, <3>2, GrownOpen
      <3> QED BY <1>3, <1>4, <2>2, <3>3 DEF KnownTo
    <2>3. CASE j # i
      <3> DEFINE y == t.proc[q].view[j]
                 x == t.pool[j].mPid
      <3>1. Knows(y, t.mail[q], j, x)
        BY <2>1 DEF Known, KnownTo
      <3>2. ~About(m, j) /\ ~About(n, j)
        BY <1>5, <2>3 DEF About, Opens
      <3> HIDE DEF x, y
      <3>3. Knows(y, c.mail[q], j, x)
        BY <3>1, <3>2, GrownOther
      <3>4. Grown(c.mail[q], u.mail[q], n)
        BY <1>5, Zenon
      <3>5. Knows(y, u.mail[q], j, x)
        BY <3>2, <3>3, <3>4, GrownOther
      <3>6. u.pool[j].mPid = x /\ u.proc[q].view[j] = y
        BY <1>3, <1>4, <2>1, <2>3 DEF x, y
      <3> QED BY <3>5, <3>6 DEF KnownTo
    <2> QED BY <2>2, <2>3
  <1>10. ASSUME NEW j \in Slot PROVE KnownTo(u, p, j)
    <2>1. DOMAIN u.mail[p] = {}
      <3>1. c.mail[p] = << >>
        BY <1>3 DEF Sound, Settled, Fresh
      <3>2. ~(\E x \in Slot \ {i} : v.pool[x].mPid # -1 /\ Pair(v, x) = p)
        BY <1>1, <1>3, <1>6
      <3>3. Grown(c.mail[p], u.mail[p], n) /\ ~(Len(u.mail[p]) > Len(c.mail[p]))
        BY <1>3, <1>5, <3>2, Zenon
      <3>4. Len(c.mail[p]) = 0
        BY <3>1
      <3> QED BY <3>3, <3>4 DEF Grown
    <2>2. u.proc[p].view[j] = u.pool[j].mPid
      <3>1. CASE j = i
        BY <1>3, <1>4, <3>1
      <3>2. CASE j # i
        BY <1>1, <1>3, <1>4, <3>2, Numbers
      <3> QED BY <3>1, <3>2
    <2> QED BY <2>1, <2>2 DEF KnownTo, Knows
  <1>11. Known(u)
    BY <1>9, <1>10 DEF Known
  <1> QED BY <1>7, <1>8, <1>11 DEF u

LEMMA ReapOrderly ==
    ASSUME NEW t, Sound(t), NEW i \in Slot, Orderly(t, i), NEW fails, i \notin fails, Counted(t)
    PROVE  Orderly(ReapTurn(t, i, fails), i + 1)
  <1>1. CASE ~Exited(t.pool[i])
    <2>1. ReapTurn(t, i, fails) = t
      BY <1>1 DEF ReapTurn
    <2>2. ASSUME ~Stopping PROVE Manned(t, i + 1)
      <3>1. Manned(t, i)
        BY <2>2 DEF Orderly
      <3>2. ~t.pool[i].mExited
        BY <1>1, <3>1 DEF Exited, Manned
      <3>3. \A j \in Slot : i <= j /\ j # i => i + 1 <= j
        BY Numbers
      <3> QED BY <3>1, <3>2, <3>3 DEF Manned
    <2> QED BY <2>1, <2>2 DEF Orderly
  <1>2. CASE Exited(t.pool[i])
    <2> DEFINE b == CloseChannel(t, i)
               c == Closed(t, i)
               u == ReapSlot(t, i, fails)
    <2>1. t.pool[i].mPid # -1 /\ t.pool[i].mExited /\ t.pool[i].mCh = i /\ Own(t)
      BY <1>2 DEF Exited, Orderly, Own
    <2>2. ReapTurn(t, i, fails) = u
      BY <1>2 DEF ReapTurn
    <2>3. Sound(c) /\ Kept(t, c) /\ c.pool = t.pool /\ c.proc = t.proc
      BY <2>1, ClosedSound
    <2>4. ASSUME ~t.pool[i].mDetached
          PROVE  /\ c.fds[i] = None /\ \A j \in Fd \ {i} : c.fds[j] = t.fds[j]
                 /\ \E m : /\ \A j : About(m, j) => j = i
                           /\ \A q \in Pid : Grown(t.mail[q], c.mail[q], m)
      <3>1. c = PassCloseChannel(b, i)
        BY <2>4 DEF Closed, b, c
      <3> HIDE DEF b, c
      <3>2. /\ Sound(b) /\ b.pool = t.pool /\ b.proc = t.proc /\ b.mail = t.mail
            /\ b.fds = With(t.fds, i, None)
        BY <2>1, ChannelClosed DEF b
      <3>3. c.fds = b.fds
        BY <2>1, <3>1, <3>2, CloseSound
      <3>4. \E m : /\ \A j : About(m, j) => j = i
                   /\ \A q \in Pid : Grown(b.mail[q], c.mail[q], m)
        BY <2>1, <3>1, <3>2, CloseMail
      <3>5. t.fds \in [Fd -> {None} \cup Pid] /\ i \in Fd
        BY Numbers DEF Sound, Settled, Tables
      <3>6. With(t.fds, i, None)[i] = None /\ \A j \in Fd \ {i} : With(t.fds, i, None)[j] = t.fds[j]
        BY <3>5 DEF With
      <3> QED BY <3>2, <3>3, <3>4, <3>6
    <2>5. c = t \/ ~t.pool[i].mDetached
      BY DEF Closed
    <2> HIDE DEF b, c
    <2>6. CASE ~Stopping
      <3> DEFINE v == SpawnWorker(c, i, "slot")
      <3>1. Manned(t, i) /\ Known(t)
        BY <2>6 DEF Orderly
      <3>2. Respawns(t.pool[i]) /\ t.pool[i].mRespawn
        BY <2>6, <3>1 DEF Respawns, Manned
      <3>3. u = PassOpenChannel(v, i)
        BY <3>2 DEF ReapSlot, StartSlot, c
      <3>4. Vacant(c, i, "slot")
        <4>1. Exited(c.pool[i]) /\ Respawns(c.pool[i])
          BY <1>2, <2>3, <3>2
        <4> QED BY <2>3, <4>1, LeftVacant
      <3>5. Born(c) # Pid
        <4>1. Counted(c)
          BY <2>3 DEF Kept, Same, Counted
        <4>2. \A p \in Placed(c) : c.proc[p].slot # i
          BY <3>4 DEF Vacant
        <4> QED BY <2>3, <4>1, <4>2, RoomForOne
      <3>6. PICK k \in Fd, p \in Pid : Spawned(c, v, i, "slot", k, p)
        <4>1. c \in Tables /\ (\E n \in Fd : c.fds[n] = None) /\ "slot" \in Type
          BY <2>3, RoomForFd DEF Sound, Settled, Type
        <4> QED BY <3>5, <4>1, SpawnIs
      <3> HIDE DEF v
      <3>7. Sound(v)
        BY <2>3, <3>4, <3>6, SpawnSound DEF Type
      <3>8. ~t.pool[i].mDetached
        BY <2>1, <3>2 DEF Sound, Settled, Entries, Entry
      <3>9. PICK m : /\ \A j : About(m, j) => j = i
                     /\ \A q \in Pid : Grown(t.mail[q], c.mail[q], m)
        BY <2>4, <3>8
      <3>10. c.fds[i] = None /\ \A j \in Fd \ {i} : c.fds[j] = t.fds[j]
        BY <2>4, <3>8
      <3>11. LET z == PassOpenChannel(v, i) IN Own(z) /\ Manned(z, i + 1) /\ Known(z)
        BY <2>1, <2>3, <3>1, <3>6, <3>7, <3>9, <3>10, NewKnown
      <3> QED BY <2>2, <2>6, <3>3, <3>11 DEF Orderly
    <2>7. CASE Stopping
      <3>1. ~Respawns(t.pool[i])
        BY <2>7 DEF Respawns
      <3>2. Own(c)
        <4>1. \A j \in Slot \ {i} : c.fds[j] = t.fds[j]
          BY <2>4, <2>5, Numbers
        <4> QED BY <2>1, <2>3, <4>1 DEF Own
      <3>3. CASE i = mWorkerNum - 1
        <4>1. u = c
          BY <3>1, <3>3 DEF ReapSlot, c
        <4> QED BY <2>2, <2>7, <3>2, <4>1 DEF Orderly
      <3>4. CASE i # mWorkerNum - 1
        <4> DEFINE w == [c.pool[i] EXCEPT !.mPid = -1]
        <4>1. u = [c EXCEPT !.pool = With(c.pool, i, w)]
          BY <3>1, <3>4 DEF ReapSlot, c
        <4>2. w \in Worker /\ w.mPid = -1 /\ w.mCh = c.pool[i].mCh
          <5>1. c.pool[i] \in Worker
            BY <2>3 DEF Sound, Settled, Tables
          <5> QED BY <5>1 DEF Worker
        <4> HIDE DEF w, u
        <4>3. /\ With(c.pool, i, w)[i] = w
              /\ \A j \in Slot \ {i} : With(c.pool, i, w)[j] = c.pool[j]
          <5>1. c.pool \in [Slot -> Worker]
            BY <2>3 DEF Sound, Settled, Tables
          <5> QED BY <4>2, <5>1 DEF With
        <4>4. u.pool = With(c.pool, i, w) /\ u.fds = c.fds /\ u.proc = c.proc
          BY <2>3, <4>1 DEF Sound, Settled, Tables
        <4>5. Own(u)
          BY <3>2, <4>2, <4>3, <4>4 DEF Own
        <4> QED BY <2>2, <2>7, <4>5 DEF Orderly
      <3> QED BY <3>3, <3>4
    <2> QED BY <2>6, <2>7
  <1> QED BY <1>1, <1>2

LEMMA ReapedOrderly ==
    ASSUME NEW t, Sound(t), Orderly(t, 0), NEW fails, fails = {}, Counted(t)
    PROVE  Orderly(ReapChildren(t, fails), mWorkerNum)
  <1>1. PICK after : /\ after[0] = t
                     /\ \A k \in 0 .. mWorkerNum - 1 : after[k + 1] = ReapTurn(after[k], k, fails)
                     /\ ReapChildren(t, fails) = after[mWorkerNum]
    BY ReapsAre
  <1> DEFINE S == {k \in 0 .. mWorkerNum : Sound(after[k]) /\ Counted(after[k]) /\ Orderly(after[k], k)}
  <1>2. 0 \in S
    BY <1>1, Numbers
  <1>3. ASSUME NEW k \in 0 .. mWorkerNum - 1, k \in S PROVE k + 1 \in S
    <2>1. k \in Slot /\ k + 1 \in 0 .. mWorkerNum /\ k \notin fails
      BY Numbers DEF Slot
    <2> DEFINE a == after[k]
               b == ReapTurn(a, k, fails)
    <2>2. Sound(a) /\ Counted(a) /\ Orderly(a, k)
      BY <1>3
    <2>3. after[k + 1] = b
      BY <1>1
    <2> HIDE DEF a
    <2>4. Orderly(b, k + 1)
      BY <2>1, <2>2, ReapOrderly
    <2>5. Sound(b) /\ Counted(b)
      BY <2>1, <2>2, TurnsSound
    <2> HIDE DEF b
    <2> QED BY <2>1, <2>3, <2>4, <2>5
  <1> HIDE DEF S
  <1>4. mWorkerNum \in Nat
    BY Numbers
  <1>5. \A k \in 0 .. mWorkerNum : k \in S
    BY <1>2, <1>3, <1>4, Inductively, Zenon
  <1>6. mWorkerNum \in S
    BY <1>4, <1>5
  <1> QED BY <1>1, <1>6 DEF S

(* SignalWorker: the order goes out, and whoever is there is marked or is  *)
(* detached.                                                               *)
LEMMA SignalSound ==
    ASSUME NEW t, Sound(t), NEW type \in {"quit", "terminate"}
    PROVE  /\ Sound(SignalWorker(t, type)) /\ Kept(t, SignalWorker(t, type))
           /\ Own(t) => Own(SignalWorker(t, type))
  <1> DEFINE to == {i \in Slot : /\ t.pool[i].mPid # -1 /\ ~t.pool[i].mDetached
                                 /\ ~(type = "quit" /\ t.pool[i].mExiting)}
             m == [type |-> type, slot |-> 0, pid |-> None]
             s == Send(t, to, m)
             pool1 == [i \in Slot |-> IF i \in to THEN [t.pool[i] EXCEPT !.mExiting = TRUE] ELSE t.pool[i]]
             u == SignalWorker(t, type)
  <1>1. m \in Message
    BY Numbers DEF Message, Slot
  <1>2. u = [s EXCEPT !.pool = pool1]
    BY DEF SignalWorker
  <1> HIDE DEF u
  <1>3. Settled(s) /\ Kept(t, s) /\ s.pool = t.pool /\ s.fds = t.fds /\ s.proc = t.proc
    <2>1. to \in SUBSET Slot
      OBVIOUS
    <2> HIDE DEF to, m
    <2>2. Settled(s) /\ Kept(t, s) /\ Appended(t, s, to, m)
      BY <1>1, <2>1, SendSound
    <2> HIDE DEF s
    <2> QED BY <2>2 DEF Appended
  <1> HIDE DEF s
  <1>4. ASSUME NEW i \in Slot
        PROVE  /\ pool1[i] \in Worker /\ pool1[i].mPid = t.pool[i].mPid /\ pool1[i].mCh = t.pool[i].mCh
               /\ pool1[i].mExited = t.pool[i].mExited /\ pool1[i].mRespawn = t.pool[i].mRespawn
               /\ pool1[i].mDetached = t.pool[i].mDetached
               /\ i \in to => pool1[i].mExiting
               /\ i \notin to => pool1[i] = t.pool[i]
    <2>1. t.pool[i] \in Worker
      BY DEF Sound, Settled, Tables
    <2> HIDE DEF to
    <2> QED BY <2>1 DEF Worker
  <1>5. pool1 \in [Slot -> Worker]
    <2>1. pool1 = [i \in Slot |-> pool1[i]]
      OBVIOUS
    <2> HIDE DEF pool1
    <2> QED BY <1>4, <2>1
  <1> HIDE DEF pool1
  <1>6. u \in Tables /\ u.pool = pool1 /\ u.fds = t.fds /\ u.proc = t.proc /\ u.mail = s.mail
    BY <1>2, <1>3, <1>5 DEF Settled, Tables
  <1>7. Kept(t, u)
    <2>1. Born(u) = Born(t) /\ Gone(u) = Gone(t) /\ Apart(u) = Apart(t) /\ EndsKept(t, u)
      BY <1>6 DEF EndsKept, Born, Gone, Apart
    <2>2. mWorkerNum - 1 \in Slot
      BY Numbers DEF Slot
    <2>3. LastKept(t, u)
      BY <1>4, <1>6, <2>2 DEF LastKept
    <2> QED BY <2>1, <2>3 DEF Kept, Same
  <1>8. \A p \in Pid : p # -1 /\ t.proc[p].slot \in Slot
    BY Numbers DEF Sound, Settled, Tables, Proc
  <1>9. Waited(u)
    BY <1>4, <1>6, <1>8 DEF Sound, Settled, Waited
  <1>10. Entries(u)
    BY <1>4, <1>6, <1>7 DEF Sound, Settled, Entries, Entry, Kept, Same
  <1>11. Latest(u)
    <2>1. Placed(u) = Placed(t) /\ Apart(u) = Apart(t) /\ \A p \in Placed(t) : t.proc[p].slot \in Slot
      BY <1>7, <1>8 DEF Kept, Same, Placed, Born
    <2> QED BY <1>4, <1>6, <2>1 DEF Sound, Settled, Latest
  <1>12. Fresh(u) /\ FdsApart(u)
    BY <1>3, <1>6, <1>7 DEF Sound, Settled, Fresh, FdsApart, Kept
  <1>13. Marked(u)
    <2> SUFFICES ASSUME NEW p \in Pid, pool1[t.proc[p].slot].mPid = p
                 PROVE  pool1[t.proc[p].slot].mExiting \/ pool1[t.proc[p].slot].mDetached
      BY <1>6 DEF Marked, Born
    <2>1. t.proc[p].slot \in Slot /\ t.pool[t.proc[p].slot].mPid # -1
      BY <1>4, <1>8
    <2>2. CASE t.proc[p].slot \in to
      BY <1>4, <2>1, <2>2
    <2>3. CASE t.proc[p].slot \notin to
      <3>1. t.pool[t.proc[p].slot].mExiting \/ t.pool[t.proc[p].slot].mDetached
        BY <2>1, <2>3
      <3> HIDE DEF to
      <3> QED BY <1>4, <2>1, <2>3, <3>1
    <2> QED BY <2>2, <2>3
  <1>14. Own(t) => Own(u)
    BY <1>4, <1>6 DEF Own
  <1> QED BY <1>6, <1>7, <1>9, <1>10, <1>11, <1>12, <1>13, <1>14 DEF Sound, Settled, u

-----------------------------------------------------------------------------
(* WorkerStart.                                                            *)

AllRun(t) == \A p \in Born(t) : t.proc[p].state = "running"

(* A turn whose fork() succeeds takes the first slot without a worker.     *)
Takes(u, v) ==
    /\ \A j \in Slot : u.pool[j].mPid # -1 => v.pool[j].mPid # -1
    /\ Free(u) # {} => v.pool[Min(Free(u))].mPid # -1

(* After k turns: nobody is given up, and at most k more are apart.        *)
Going(t, u, type, k) ==
    /\ Sound(u) /\ Gone(u) = Gone(t) /\ EndsKept(t, u)
    /\ \A j \in Slot : t.pool[j].mPid # -1 => u.pool[j].mPid # -1
    /\ Cardinality(Apart(u)) \in Nat /\ Cardinality(Apart(u)) <= Cardinality(Apart(t)) + k
    /\ type = "respawn" => Apart(u) = Apart(t) /\ AllRun(u)

LEMMA FreeIs ==
    ASSUME NEW t, Free(t) # {}
    PROVE  LET i == Min(Free(t)) IN
           i \in Slot /\ t.pool[i].mPid = -1 /\ \A j \in Slot : j < i => t.pool[j].mPid # -1
  <1> DEFINE F == Free(t)
             i == Min(F)
  <1>1. F \subseteq Slot /\ F \subseteq Nat /\ F # {}
    BY Numbers DEF Free
  <1> HIDE DEF F
  <1>2. i \in F /\ \A y \in F : i <= y
    BY <1>1, MinOf
  <1> HIDE DEF i
  <1>3. ASSUME NEW j \in Slot, j < i PROVE t.pool[j].mPid # -1
    <2> SUFFICES ASSUME t.pool[j].mPid = -1 PROVE FALSE
      OBVIOUS
    <2>1. j \in F
      BY DEF F, Free
    <2>2. i <= j /\ i \in Nat /\ j \in Nat
      BY <1>1, <1>2, <2>1
    <2> QED BY <1>3, <2>2
  <1> QED BY <1>1, <1>2, <1>3 DEF i, F, Free

(* A turn that starts a worker, or not.                                   *)
LEMMA StartTurnSound ==
    ASSUME NEW t, Counted(t), NEW type \in {"respawn", "just_spawn"}, NEW n \in Nat, NEW k \in 0 .. n - 1,
           Cardinality(Apart(t)) \in Nat,
           type = "just_spawn" => Cardinality(Apart(t)) + n <= MaxDetached,
           NEW u, Going(t, u, type, k), NEW fails
    PROVE  LET v == StartTurn(u, k + 1, fails, type) IN
           /\ Going(t, v, type, k + 1)
           /\ k + 1 \notin fails => Takes(u, v)
  <1> DEFINE i == Min(Free(u))
             v == StartTurn(u, k + 1, fails, type)
  <1>1. Sound(u) /\ Gone(u) = Gone(t) /\ EndsKept(t, u)
        /\ (\A j \in Slot : t.pool[j].mPid # -1 => u.pool[j].mPid # -1)
        /\ Cardinality(Apart(u)) \in Nat /\ Cardinality(Apart(u)) <= Cardinality(Apart(t)) + k
        /\ (type = "respawn" => Apart(u) = Apart(t) /\ AllRun(u))
    BY DEF Going
  <1>2. Cardinality(Apart(t)) + k <= Cardinality(Apart(t)) + (k + 1)
    OBVIOUS
  <1>3. CASE Free(u) = {}
    <2>1. v = u
      BY <1>3 DEF StartTurn
    <2> HIDE DEF v
    <2> QED BY <1>1, <1>2, <1>3, <2>1 DEF Going, Takes, v
  <1>4. CASE Free(u) # {} /\ k + 1 \in fails
    <2>1. v = SpawnFailed(u, i) /\ i \in Slot
      BY <1>4, FreeIs DEF StartTurn
    <2> HIDE DEF v, i
    <2>2. /\ Sound(v) /\ Kept(u, v) /\ v.proc = u.proc
          /\ \A j \in Slot : v.pool[j].mPid = u.pool[j].mPid
      BY <1>1, <2>1, FailedSound
    <2>3. EndsKept(t, v)
      BY <1>1, <2>2 DEF EndsKept
    <2>4. AllRun(u) => AllRun(v)
      BY <2>2 DEF AllRun, Born
    <2>5. Gone(v) = Gone(u) /\ Apart(v) = Apart(u)
      BY <2>2 DEF Kept, Same
    <2> QED BY <1>1, <1>2, <1>4, <2>2, <2>3, <2>4, <2>5 DEF Going, v
  <1>5. CASE Free(u) # {} /\ k + 1 \notin fails
    <2>1. v = StartSlot(u, i, type) /\ i \in Slot /\ u.pool[i].mPid = -1
      BY <1>5, FreeIs DEF StartTurn
    <2> HIDE DEF v, i
    <2>2. Vacant(u, i, type)
      <3>1. ASSUME type # "just_spawn", NEW p \in Placed(u) PROVE u.proc[p].slot # i
        <4>1. p \in Pid /\ p # -1 /\ u.proc[p].state = "running"
          BY <1>1, <3>1, Numbers DEF AllRun, Placed, Born
        <4>2. u.pool[u.proc[p].slot].mPid = p
          BY <1>1, <4>1 DEF Sound, Settled, Waited
        <4> QED BY <2>1, <4>1, <4>2
      <3> QED BY <2>1, <3>1 DEF Vacant
    <2>3. /\ Cardinality(Apart(u)) <= MaxDetached
          /\ type = "just_spawn" => Cardinality(Apart(u)) < MaxDetached
      <3>1. CASE type = "respawn"
        BY <1>1, <3>1 DEF Counted
      <3>2. CASE type = "just_spawn"
        <4>1. Cardinality(Apart(u)) < MaxDetached
          BY <1>1, <3>2, Numbers
        <4> QED BY <1>1, <4>1, Numbers
      <3> QED BY <3>1, <3>2
    <2>4. Counted(u)
      BY <1>1, <2>3 DEF Counted
    <2>5. /\ Sound(v) /\ Gone(v) = Gone(u) /\ EndsKept(u, v) /\ v.pool[i].mPid # -1
          /\ \A j \in Slot : u.pool[j].mPid # -1 => v.pool[j].mPid # -1
          /\ \E p \in Pid : /\ Born(v) = Born(u) \cup {p} /\ v.proc[p].state = "running"
                            /\ \A q \in Pid \ {p} : v.proc[q] = u.proc[q]
                            /\ Apart(v) = IF type = "just_spawn" THEN Apart(u) \cup {p} ELSE Apart(u)
      <3>1. type \in Type
        BY DEF Type
      <3> QED BY <1>1, <2>1, <2>2, <2>3, <2>4, <3>1, StartSound
    <2>6. PICK p \in Pid : /\ Born(v) = Born(u) \cup {p} /\ v.proc[p].state = "running"
                           /\ \A q \in Pid \ {p} : v.proc[q] = u.proc[q]
                           /\ Apart(v) = IF type = "just_spawn" THEN Apart(u) \cup {p} ELSE Apart(u)
      BY <2>5
    <2>7. EndsKept(t, v)
      BY <1>1, <2>5 DEF EndsKept
    <2>8. AllRun(u) => AllRun(v)
      BY <2>6 DEF AllRun, Born
    <2>9. Cardinality(Apart(v)) \in Nat /\ Cardinality(Apart(v)) <= Cardinality(Apart(u)) + 1
      <3>1. IsFiniteSet(Apart(u))
        BY Numbers, FS_Subset DEF Apart
      <3>2. CASE Apart(v) = Apart(u)
        BY <1>1, <3>2
      <3>3. CASE Apart(v) = Apart(u) \cup {p}
        <4>1. Cardinality(Apart(u) \cup {p}) =
                 IF p \in Apart(u) THEN Cardinality(Apart(u)) ELSE Cardinality(Apart(u)) + 1
          BY <3>1, FS_AddElement
        <4> QED BY <1>1, <3>3, <4>1
      <3> QED BY <2>6, <3>2, <3>3
    <2>10. Cardinality(Apart(v)) <= Cardinality(Apart(t)) + (k + 1)
      BY <1>1, <2>9
    <2>11. type = "respawn" => Apart(v) = Apart(u)
      BY <2>6
    <2>12. Takes(u, v)
      BY <2>5 DEF Takes, i
    <2> QED BY <1>1, <2>5, <2>7, <2>8, <2>9, <2>10, <2>11, <2>12 DEF Going, v
  <1> QED BY <1>3, <1>4, <1>5

LEMMA StartedSound ==
    ASSUME NEW t, Sound(t), Counted(t), NEW fails, NEW type \in {"respawn", "just_spawn"}, NEW n \in Nat,
           type = "just_spawn" => Cardinality(Apart(t)) + n <= MaxDetached,
           type = "respawn" => AllRun(t)
    PROVE  Going(t, Started(t, n, fails, type), type, n)
  <1>1. PICK up : /\ up[0] = t
                  /\ \A k \in 0 .. n - 1 : up[k + 1] = StartTurn(up[k], k + 1, fails, type)
                  /\ Started(t, n, fails, type) = up[n]
    BY StartsAre
  <1> DEFINE S == {k \in 0 .. n : Going(t, up[k], type, k)}
  <1>2. Cardinality(Apart(t)) \in Nat
    BY Numbers, FS_Subset, FS_CardinalityType DEF Apart
  <1>3. 0 \in S
    <2>1. Going(t, t, type, 0)
      BY <1>2 DEF Going, EndsKept
    <2> QED BY <1>1, <2>1
  <1>4. ASSUME NEW k \in 0 .. n - 1, k \in S PROVE k + 1 \in S
    <2>1. Going(t, up[k], type, k) /\ k + 1 \in 0 .. n
      BY <1>4
    <2> DEFINE a == up[k]
               b == StartTurn(a, k + 1, fails, type)
    <2>2. up[k + 1] = b
      BY <1>1
    <2> HIDE DEF a
    <2>3. Going(t, b, type, k + 1)
      BY <1>2, <2>1, StartTurnSound DEF a
    <2> HIDE DEF b
    <2> QED BY <2>1, <2>2, <2>3
  <1> HIDE DEF S
  <1>5. \A k \in 0 .. n : k \in S
    BY <1>3, <1>4, Inductively, Zenon
  <1>6. n \in S
    BY <1>5
  <1> QED BY <1>1, <1>6 DEF S

(* Without a free slot nothing happens, and the table is overrun at last.  *)
LEMMA FullStarted ==
    ASSUME NEW t, Free(t) = {}, NEW n \in Nat, NEW fails, NEW type
    PROVE  Started(t, n, fails, type) = t
  <1>1. PICK up : /\ up[0] = t
                  /\ \A k \in 0 .. n - 1 : up[k + 1] = StartTurn(up[k], k + 1, fails, type)
                  /\ Started(t, n, fails, type) = up[n]
    BY StartsAre, SMTT(60)
  <1> DEFINE S == {k \in 0 .. n : up[k] = t}
  <1>2. 0 \in S
    BY <1>1
  <1>3. ASSUME NEW k \in 0 .. n - 1, k \in S PROVE k + 1 \in S
    BY <1>1, <1>3 DEF StartTurn
  <1> HIDE DEF S
  <1>4. \A k \in 0 .. n : k \in S
    BY <1>2, <1>3, Inductively, Zenon
  <1>5. n \in S
    BY <1>4
  <1> QED BY <1>1, <1>5 DEF S

(* With the last slot taken and no failed fork() a restart overruns too.   *)
LEMMA NoRoom ==
    ASSUME NEW t, Sound(t), Counted(t), NEW fails, fails = {},
           Cardinality(Apart(t)) + mWorkerNum <= MaxDetached, t.pool[mWorkerNum - 1].mPid # -1
    PROVE  Overrun(t, fails, "just_spawn")
  <1> DEFINE n == mWorkerNum - 1
             type == "just_spawn"
  <1>1. n \in Nat /\ n + 1 = mWorkerNum /\ n \in Slot
    BY Numbers DEF Slot
  <1>2. Cardinality(Apart(t)) \in Nat
    BY Numbers, FS_Subset, FS_CardinalityType DEF Apart
  <1>3. Cardinality(Apart(t)) + n <= MaxDetached
    BY <1>1, <1>2, Numbers
  <1> HIDE DEF n
  <1>4. PICK up : /\ up[0] = t
                  /\ \A k \in 0 .. n - 1 : up[k + 1] = StartTurn(up[k], k + 1, fails, type)
                  /\ Started(t, n, fails, type) = up[n]
    BY <1>1, StartsAre
  <1> DEFINE S == {k \in 0 .. n : /\ Going(t, up[k], type, k)
                                  /\ \A j \in Slot : j < k => up[k].pool[j].mPid # -1}
  <1>5. 0 \in S
    <2>1. Going(t, t, type, 0)
      BY <1>2 DEF Going, EndsKept
    <2> QED BY <1>1, <1>4, <2>1, Numbers
  <1>6. ASSUME NEW k \in 0 .. n - 1, k \in S PROVE k + 1 \in S
    <2> DEFINE a == up[k]
               b == StartTurn(a, k + 1, fails, type)
    <2>1. Going(t, a, type, k) /\ k + 1 \in 0 .. n /\ \A j \in Slot : j < k => a.pool[j].mPid # -1
      BY <1>1, <1>6
    <2>2. up[k + 1] = b
      BY <1>4
    <2> HIDE DEF a
    <2>3. Going(t, b, type, k + 1) /\ Takes(a, b)
      BY <1>1, <1>2, <1>3, <2>1, StartTurnSound
    <2>4. ASSUME NEW j \in Slot, j < k + 1 PROVE b.pool[j].mPid # -1
      <3> DEFINE i == Min(Free(a))
      <3>1. j < k \/ j = k
        BY <2>4, Numbers
      <3>2. CASE a.pool[j].mPid # -1
        BY <2>3, <3>2 DEF Takes
      <3>3. CASE a.pool[j].mPid = -1
        <4>1. Free(a) # {} /\ j = k
          BY <2>1, <3>1, <3>3 DEF Free
        <4>2. i \in Slot /\ a.pool[i].mPid = -1 /\ \A x \in Slot : x < i => a.pool[x].mPid # -1
          BY <4>1, FreeIs
        <4>3. b.pool[i].mPid # -1
          BY <2>3, <4>1 DEF Takes
        <4> HIDE DEF i
        <4>4. ~(j < i) /\ ~(i < j)
          BY <2>1, <3>3, <4>1, <4>2
        <4>5. i = j
          BY <4>2, <4>4, Numbers
        <4> QED BY <4>3, <4>5
      <3> QED BY <3>2, <3>3
    <2> HIDE DEF b
    <2> QED BY <2>1, <2>2, <2>3, <2>4
  <1> HIDE DEF S
  <1>7. \A k \in 0 .. n : k \in S
    BY <1>1, <1>5, <1>6, Inductively, Zenon
  <1>8. n \in S
    BY <1>1, <1>7
  <1>9. \A j \in Slot : up[n].pool[j].mPid # -1
    <2>1. \A j \in Slot : j < n \/ j = n
      BY <1>1, Numbers DEF Slot
    <2>2. up[n].pool[n].mPid # -1
      BY <1>1, <1>8 DEF S, Going, n
    <2> QED BY <1>8, <2>1, <2>2 DEF S
  <1>10. Free(up[n]) = {}
    BY <1>9 DEF Free
  <1> QED BY <1>4, <1>10 DEF Overrun, n

(* While the master starts, and no fork() fails, the first k slots have    *)
(* one worker each.                                                        *)
Startup(t, k) ==
    /\ Sound(t) /\ Gone(t) = {} /\ Apart(t) = {} /\ AllRun(t)
    /\ \A i \in Slot : i < k =>
          /\ t.pool[i].mPid # -1 /\ t.pool[i].mCh = i /\ t.fds[i] = t.pool[i].mPid
          /\ t.pool[i].mRespawn /\ ~t.pool[i].mExited /\ ~t.pool[i].mExiting
    /\ \A i \in Slot : i >= k => t.pool[i].mPid = -1
    /\ \A i \in Fd : i >= k => t.fds[i] = None
    /\ \A p \in Pid : ~t.proc[p].deaf
    /\ \A p \in Born(t) : \A i \in Slot : i < k => KnownTo(t, p, i)

LEMMA StartSlotIs ==
    ASSUME NEW t, NEW k \in Slot, Startup(t, k)
    PROVE  Startup(StartSlot(t, k, "respawn"), k + 1)
  <1> DEFINE v == SpawnWorker(t, k, "respawn")
             s == StartSlot(t, k, "respawn")
  <1>1. s = PassOpenChannel(v, k)
    BY DEF StartSlot
  <1>2. Sound(t) /\ t \in Tables /\ k \in Nat /\ k \in Fd /\ t.fds[k] = None /\ t.pool[k].mPid = -1
    BY Numbers DEF Startup, Sound, Settled
  <1>3. Vacant(t, k, "respawn")
    <2>1. ASSUME NEW p \in Placed(t) PROVE t.proc[p].slot # k
      <3>1. p \in Pid /\ p # -1 /\ t.proc[p].state = "running"
        BY Numbers DEF Startup, AllRun, Placed, Born
      <3>2. t.pool[t.proc[p].slot].mPid = p
        BY <1>2, <3>1 DEF Sound, Settled, Waited
      <3> QED BY <1>2, <3>1, <3>2
    <2> QED BY <1>2, <2>1 DEF Vacant
  <1>4. Born(t) # Pid
    <2>1. Counted(t)
      BY Numbers, FS_EmptySet DEF Startup, Counted
    <2>2. \A p \in Placed(t) : t.proc[p].slot # k
      BY <1>3 DEF Vacant
    <2> QED BY <1>2, <2>1, <2>2, RoomForOne
  <1>5. PICK n \in Fd, p \in Pid : Spawned(t, v, k, "respawn", n, p)
    BY <1>2, <1>4, SpawnIs DEF Type
  <1> HIDE DEF v, s
  <1>6. n = k
    <2>1. \A j \in Slot : j < k => t.fds[j] # None
      <3>1. \A j \in Slot : t.pool[j].mPid # -1 => t.pool[j].mPid \in Pid
        BY <1>2 DEF Tables, Worker
      <3> QED BY <3>1, Numbers DEF Startup
    <2>2. n \in Nat /\ ~(k < n) /\ t.fds[n] = None
      BY <1>2, <1>5, Numbers DEF Spawned
    <2>3. n \in Slot
      BY <1>2, <2>2, Numbers DEF Slot
    <2> QED BY <1>2, <2>1, <2>2, <2>3
  <1>7. /\ Sound(v) /\ Born(v) = Born(t) \cup {p} /\ Gone(v) = Gone(t) /\ Apart(v) = Apart(t)
    BY <1>2, <1>3, <1>5, SpawnSound DEF Type
  <1>8. /\ p \in Pid /\ p \notin Born(t) /\ p # -1
        /\ v.pool[k].mPid = p /\ ~v.pool[k].mExited /\ ~v.pool[k].mExiting /\ v.pool[k].mCh = k
        /\ v.pool[k].mRespawn
        /\ v.proc[p].state = "running" /\ v.fds[k] = p /\ v.mail = t.mail
        /\ \A j \in Slot \ {k} : v.pool[j] = t.pool[j]
        /\ \A j \in Fd \ {k} : v.fds[j] = t.fds[j]
        /\ \A q \in Pid \ {p} : v.proc[q] = t.proc[q]
    BY <1>5, <1>6, Numbers DEF Spawned
  <1>9. /\ Sound(s) /\ Kept(v, s) /\ s.pool = v.pool /\ s.fds = v.fds /\ s.proc = v.proc
    BY <1>1, <1>7, <1>8, OpenSound
  <1>10. Gone(s) = {} /\ Apart(s) = {} /\ Born(s) = Born(t) \cup {p}
    BY <1>7, <1>9 DEF Startup, Kept, Same
  <1>11. AllRun(s)
    <2>1. \A q \in Born(t) : q \in Pid /\ t.proc[q].state = "running"
      BY DEF Startup, AllRun, Born
    <2> QED BY <1>8, <1>9, <1>10, <2>1 DEF AllRun
  <1>12. \A i \in Slot : i < k + 1 => i = k \/ i < k
    BY <1>2, Numbers
  <1>13. \A i \in Fd : i >= k + 1 => i # k /\ i >= k
    BY <1>2, Numbers
  <1>14. ASSUME NEW i \in Slot, i < k + 1
         PROVE  /\ s.pool[i].mPid # -1 /\ s.pool[i].mCh = i /\ s.fds[i] = s.pool[i].mPid
                /\ s.pool[i].mRespawn /\ ~s.pool[i].mExited /\ ~s.pool[i].mExiting
    <2>1. CASE i = k
      BY <1>8, <1>9, <2>1
    <2>2. CASE i # k
      BY <1>8, <1>9, <1>12, <1>14, <2>2, Numbers DEF Startup
    <2> QED BY <2>1, <2>2
  <1>15. /\ \A i \in Slot : i >= k + 1 => s.pool[i].mPid = -1
         /\ \A i \in Fd : i >= k + 1 => s.fds[i] = None
    BY <1>8, <1>9, <1>13, Numbers DEF Startup
  <1>16. \A j \in Slot \ {k} : t.pool[j].mPid # -1 =>
           /\ j < k /\ t.pool[j].mCh = j /\ t.fds[j] = t.pool[j].mPid /\ t.pool[j].mPid \in Born(t)
    <2>1. ASSUME NEW j \in Slot \ {k}, t.pool[j].mPid # -1 PROVE j < k
      <3>1. ~(j >= k)
        BY <2>1 DEF Startup
      <3>2. j \in Nat
        BY Numbers
      <3> QED BY <1>2, <3>1, <3>2
    <2>2. \A j \in Slot : t.pool[j].mPid # -1 => t.pool[j].mPid \in Born(t)
      BY <1>2 DEF Sound, Settled, Entries, Entry
    <2> QED BY <2>1, <2>2 DEF Startup
  <1>17. \A q \in Pid : ~s.proc[q].deaf
    <2>1. ~ClosesOwn(t, k, k)
      BY <1>16 DEF ClosesOwn
    <2>2. ~v.proc[p].deaf
      BY <1>5, <1>6, <2>1 DEF Spawned
    <2> QED BY <1>8, <1>9, <2>2 DEF Startup
  <1>18. PICK m : /\ Opens(m, k, p)
                  /\ \A q \in Pid :
                        /\ Grown(v.mail[q], s.mail[q], m)
                        /\ Len(s.mail[q]) > Len(v.mail[q])
                              <=> \E j \in Slot \ {k} : v.pool[j].mPid # -1 /\ Pair(v, j) = q
    BY <1>1, <1>7, <1>8, OpenMail
  <1>19. \A j \in Slot \ {k} : v.pool[j] = t.pool[j] /\ v.fds[j] = t.fds[j]
    BY <1>8, Numbers
  <1>20. \A j \in Slot \ {k} : t.pool[j].mPid # -1 => Pair(v, j) = t.pool[j].mPid
    BY <1>16, <1>19, Numbers DEF Pair
  <1>21. ASSUME NEW q \in Born(t), NEW i \in Slot, i < k + 1 PROVE KnownTo(s, q, i)
    <2>1. q \in Pid /\ q # p /\ t.proc[q].state = "running" /\ s.proc[q] = t.proc[q]
      BY <1>8, <1>9 DEF Startup, AllRun, Born
    <2>2. CASE i = k
      <3>1. PICK x \in Slot \ {k} : v.pool[x].mPid # -1 /\ Pair(v, x) = q
        <4> DEFINE x == t.proc[q].slot
        <4>1. x \in Slot
          BY <1>2, <2>1 DEF Tables, Proc
        <4>2. t.pool[x].mPid = q /\ q # -1
          BY <1>2, <2>1, Numbers DEF Sound, Settled, Waited
        <4> HIDE DEF x
        <4>3. x \in Slot \ {k}
          BY <1>2, <4>1, <4>2
        <4>4. v.pool[x].mPid # -1 /\ Pair(v, x) = q
          BY <1>19, <1>20, <4>2, <4>3
        <4> QED BY <4>3, <4>4
      <3>2. Grown(v.mail[q], s.mail[q], m) /\ Len(s.mail[q]) > Len(v.mail[q])
        BY <1>18, <2>1, <3>1
      <3>3. Knows(s.proc[q].view[k], s.mail[q], k, p)
        BY <1>18, <3>2, GrownOpen
      <3>4. s.pool[k].mPid = p
        BY <1>8, <1>9
      <3> QED BY <2>2, <3>3, <3>4 DEF KnownTo
    <2>3. CASE i # k
      <3> DEFINE y == t.proc[q].view[i]
                 x == t.pool[i].mPid
      <3>1. i < k
        BY <1>12, <1>21, <2>3
      <3>2. Knows(y, t.mail[q], i, x)
        BY <3>1 DEF Startup, KnownTo
      <3>3. ~About(m, i)
        BY <1>18, <2>3 DEF About, Opens
      <3> HIDE DEF x, y
      <3>4. Grown(t.mail[q], s.mail[q], m)
        BY <1>8, <1>18, <2>1
      <3>5. Knows(y, s.mail[q], i, x)
        BY <3>2, <3>3, <3>4, GrownOther
      <3>6. s.pool[i].mPid = x /\ s.proc[q].view[i] = y
        BY <1>9, <1>19, <2>1, <2>3 DEF x, y
      <3> QED BY <3>5, <3>6 DEF KnownTo
    <2> QED BY <2>2, <2>3
  <1>22. ASSUME NEW i \in Slot, i < k + 1 PROVE KnownTo(s, p, i)
    <2>1. DOMAIN s.mail[p] = {}
      <3>1. p \notin Born(t) /\ v.mail[p] = << >>
        BY <1>2, <1>8 DEF Sound, Settled, Fresh
      <3>2. ~(\E j \in Slot \ {k} : v.pool[j].mPid # -1 /\ Pair(v, j) = p)
        BY <1>16, <1>19, <1>20, <3>1
      <3>3. Grown(v.mail[p], s.mail[p], m) /\ ~(Len(s.mail[p]) > Len(v.mail[p]))
        BY <1>18, <3>2
      <3>4. Len(v.mail[p]) = 0
        BY <3>1
      <3> QED BY <3>3, <3>4 DEF Grown
    <2>2. s.proc[p].view[i] = s.pool[i].mPid
      <3>1. s.proc[p] = v.proc[p]
        BY <1>9
      <3>2. v.proc[p].view[i] = IF i = k THEN p ELSE IF t.pool[i].mCh = FD_UNKNOWN THEN None
                                                   ELSE v.fds[t.pool[i].mCh]
        BY <1>5 DEF Spawned
      <3>3. CASE i = k
        BY <1>8, <1>9, <3>1, <3>2, <3>3
      <3>4. CASE i # k
        <4>1. t.pool[i].mCh = i /\ t.fds[i] = t.pool[i].mPid
          BY <1>12, <1>22, <3>4 DEF Startup
        <4> QED BY <1>9, <1>19, <3>1, <3>2, <3>4, <4>1, Numbers
      <3> QED BY <3>3, <3>4
    <2> QED BY <2>1, <2>2 DEF KnownTo, Knows
  <1>23. \A q \in Born(s) : \A i \in Slot : i < k + 1 => KnownTo(s, q, i)
    BY <1>10, <1>21, <1>22
  <1> QED BY <1>9, <1>10, <1>11, <1>14, <1>15, <1>17, <1>23 DEF Startup, s

LEMMA StartupTurn ==
    ASSUME NEW t, NEW k \in Slot, Startup(t, k), NEW fails, fails = {}
    PROVE  Startup(StartTurn(t, k + 1, fails, "respawn"), k + 1)
  <1> DEFINE i == Min(Free(t))
  <1>1. k \in Free(t)
    BY Numbers DEF Startup, Free
  <1>2. i \in Slot /\ t.pool[i].mPid = -1 /\ \A j \in Slot : j < i => t.pool[j].mPid # -1
    BY <1>1, FreeIs
  <1>3. StartTurn(t, k + 1, fails, "respawn") = StartSlot(t, i, "respawn")
    BY <1>1 DEF StartTurn
  <1> HIDE DEF i
  <1>4. i = k
    <2>1. ~(k < i) /\ ~(i < k)
      BY <1>1, <1>2 DEF Startup, Free
    <2> QED BY <1>2, <2>1, Numbers
  <1> QED BY <1>3, <1>4, StartSlotIs

LEMMA StartupIs ==
    ASSUME NEW t, Startup(t, 0), NEW fails, fails = {}
    PROVE  Startup(WorkerStart(t, fails, "respawn"), mWorkerNum)
  <1>1. mWorkerNum \in Nat
    BY Numbers
  <1>2. PICK up : /\ up[0] = t
                  /\ \A k \in 0 .. mWorkerNum - 1 : up[k + 1] = StartTurn(up[k], k + 1, fails, "respawn")
                  /\ Started(t, mWorkerNum, fails, "respawn") = up[mWorkerNum]
    BY <1>1, StartsAre, SMTT(60)
  <1> DEFINE S == {k \in 0 .. mWorkerNum : Startup(up[k], k)}
  <1>3. 0 \in S
    BY <1>1, <1>2
  <1>4. ASSUME NEW k \in 0 .. mWorkerNum - 1, k \in S PROVE k + 1 \in S
    <2>1. k \in Slot /\ k + 1 \in 0 .. mWorkerNum
      BY Numbers DEF Slot
    <2>2. Startup(StartTurn(up[k], k + 1, fails, "respawn"), k + 1)
      BY <1>4, <2>1, StartupTurn
    <2> QED BY <1>2, <2>1, <2>2
  <1> HIDE DEF S
  <1>5. \A k \in 0 .. mWorkerNum : k \in S
    BY <1>1, <1>3, <1>4, Inductively, Zenon
  <1>6. mWorkerNum \in S
    BY <1>1, <1>5
  <1> QED BY <1>2, <1>6 DEF S, WorkerStart

LEMMA StartedOrderly == ASSUME NEW t, Startup(t, mWorkerNum) PROVE Orderly(t, mWorkerNum)
  <1>1. \A i \in Slot : i < mWorkerNum
    BY Numbers DEF Slot
  <1>2. \A p \in Pid : t.proc[p].state = "running" => p \in Born(t)
    BY DEF Born
  <1>3. Own(t)
    BY <1>1 DEF Startup, Own
  <1>4. Manned(t, mWorkerNum)
    BY <1>1 DEF Startup, Manned
  <1>5. Known(t)
    BY <1>1, <1>2 DEF Startup, Known
  <1> QED BY <1>3, <1>4, <1>5 DEF Orderly

-----------------------------------------------------------------------------
(* The state's table, and what a step makes of it.                         *)
LEMMA NextTable ==
    ASSUME NEW u, u \in Tables, Becomes(u)
    PROVE  Table' = u
  BY DEF Tables, Becomes, Table

Types ==
    /\ master \in {"starting", "suspended", "handling", "exited", "undefined"}
    /\ pending \subseteq {"CHLD", "TERM", "QUIT", "HUP"}
    /\ flags \in BOOLEAN \X BOOLEAN \X BOOLEAN \X BOOLEAN
    /\ crashes \in 0 .. MaxCrashes /\ forkFails \in 0 .. MaxForkFails

(* An order to restart that has come and was not carried out will start so *)
(* many more workers, and there is one at most.                            *)
Ahead == IF g_reconfigure \/ "HUP" \in pending THEN mWorkerNum ELSE 0

TableSound == Sound(Table)
GoneCounted == Cardinality(Gone(Table)) <= crashes
ApartCounted ==
    Cardinality(Apart(Table)) + Ahead <= MaxDetached /\ ~(g_reconfigure /\ "HUP" \in pending)

(* Without a failed fork() the last slot always has a worker, since its    *)
(* process number is never taken out: so an order to restart overruns the  *)
(* table, and nobody is ever detached and left to itself.                  *)
Untouched ==
    master \notin {"starting", "undefined"} /\ forkFails = 0 =>
        Apart(Table) = {} /\ Table.pool[mWorkerNum - 1].mPid # -1
NobodyLeft == master = "exited" => \A p \in Pid : Alive(p) => p \in Detached /\ forkFails > 0
Blank == master = "starting" => Startup(Table, 0)
TableInv == Types /\ TableSound /\ GoneCounted /\ ApartCounted /\ Untouched /\ NobodyLeft /\ Blank

LEMMA TableNext ==
    ASSUME Types', NEW u, Sound(u), Becomes(u),
           Cardinality(Gone(u)) <= crashes',
           Cardinality(Apart(u)) + Ahead' <= MaxDetached, ~(g_reconfigure' /\ "HUP" \in pending'),
           master' # "undefined" /\ forkFails' = 0 =>
               Apart(u) = {} /\ u.pool[mWorkerNum - 1].mPid # -1,
           master' = "exited" =>
               \A p \in Pid : u.proc[p].state = "running" => p \in Apart(u) /\ forkFails' > 0,
           master' # "starting"
    PROVE  TableInv'
  <1>1. Table' = u
    BY NextTable DEF Sound, Settled
  <1>2. proc' = u.proc
    BY DEF Becomes
  <1>3. TableSound' /\ GoneCounted' /\ ApartCounted' /\ Untouched'
    BY <1>1 DEF TableSound, GoneCounted, ApartCounted, Untouched
  <1>4. NobodyLeft'
    BY <1>2 DEF NobodyLeft, Alive, Detached, Apart
  <1> QED BY <1>3, <1>4 DEF TableInv, Blank

LEMMA CountedNow ==
    ASSUME TableInv
    PROVE  /\ Sound(Table) /\ Counted(Table) /\ Ahead \in Nat
           /\ Cardinality(Gone(Table)) \in Nat /\ Cardinality(Apart(Table)) \in Nat
           /\ crashes \in Nat /\ crashes <= MaxCrashes /\ forkFails \in Nat /\ forkFails <= MaxForkFails
  <1>1. Cardinality(Gone(Table)) \in Nat /\ Cardinality(Apart(Table)) \in Nat
    BY Numbers, FS_Subset, FS_CardinalityType DEF Gone, Apart
  <1>2. Ahead \in Nat
    BY Numbers DEF Ahead
  <1>3. crashes \in Nat /\ crashes <= MaxCrashes /\ forkFails \in Nat /\ forkFails <= MaxForkFails
    BY Numbers DEF TableInv, Types
  <1>4. Counted(Table)
    BY <1>1, <1>2, <1>3, Numbers DEF TableInv, GoneCounted, ApartCounted, Counted
  <1> QED BY <1>1, <1>2, <1>3, <1>4 DEF TableInv, TableSound

(* A step of a worker that runs: its record and its mail.                  *)
LEMMA WorkerSound ==
    ASSUME NEW t, Sound(t), NEW p \in Pid, t.proc[p].state = "running", NEW u, u \in Tables,
           u.pool = t.pool, u.fds = t.fds,
           u.proc[p].state \in {"running", "zombie"}, u.proc[p].slot = t.proc[p].slot,
           u.proc[p].detached = t.proc[p].detached, Told(u, p) => Told(t, p),
           \A q \in Pid \ {p} : u.proc[q] = t.proc[q] /\ u.mail[q] = t.mail[q]
    PROVE  /\ Sound(u) /\ Born(u) = Born(t) /\ Apart(u) = Apart(t)
           /\ Gone(t) \subseteq Gone(u) /\ Gone(u) \subseteq Gone(t) \cup {p}
           /\ u.proc[p].state = "running" \/ u.proc[p].code # 1 => Gone(u) = Gone(t)
  <1>1. t \in Tables /\ \A q \in Pid : t.proc[q].slot \in Slot /\ u.proc[q].slot = t.proc[q].slot
    BY DEF Sound, Settled, Tables, Proc
  <1>2. /\ Born(u) = Born(t) /\ Gone(t) \subseteq Gone(u) /\ Gone(u) \subseteq Gone(t) \cup {p}
        /\ u.proc[p].state = "running" \/ u.proc[p].code # 1 => Gone(u) = Gone(t)
    BY DEF Born, Gone
  <1>3. Apart(u) = Apart(t)
    BY DEF Apart
  <1>4. /\ t.pool[t.proc[p].slot].mPid = p /\ ~t.pool[t.proc[p].slot].mExited
        /\ \A j \in Slot : t.pool[j].mPid = p => ~t.pool[j].mExited
    <2>1. t.pool[t.proc[p].slot].mPid = p /\ ~t.pool[t.proc[p].slot].mExited
      BY DEF Sound, Settled, Waited
    <2>2. ASSUME NEW j \in Slot, t.pool[j].mPid = p PROVE t.proc[p].slot = j
      BY <2>2, Numbers DEF Sound, Settled, Entries, Entry
    <2> QED BY <2>1, <2>2
  <1>5. Waited(u)
    BY <1>1, <1>4 DEF Sound, Settled, Waited
  <1>6. Entries(u)
    <2> SUFFICES ASSUME NEW j \in Slot, t.pool[j].mPid # -1 PROVE Entry(u, j)
      BY DEF Entries
    <2>1. Entry(t, j) /\ t.pool[j].mPid \in Pid
      BY DEF Sound, Settled, Entries, Entry, Born
    <2>2. CASE t.pool[j].mPid = p
      BY <1>1, <1>2, <1>3, <1>4, <2>1, <2>2 DEF Entry
    <2>3. CASE t.pool[j].mPid # p
      BY <1>2, <1>3, <2>1, <2>3 DEF Entry
    <2> QED BY <2>2, <2>3
  <1>7. Latest(u)
    <2>1. Placed(u) \subseteq Placed(t) /\ \A q \in Placed(u) : u.proc[q].slot = t.proc[q].slot
      BY <1>1, <1>2, <1>3 DEF Placed, Born
    <2> QED BY <1>3, <2>1 DEF Sound, Settled, Latest
  <1>8. Fresh(u) /\ FdsApart(u)
    <2>1. p \in Born(t)
      BY DEF Born
    <2> QED BY <1>2, <2>1 DEF Sound, Settled, Fresh, FdsApart
  <1>9. Marked(u)
    <2>1. \A q \in Born(t) : Told(u, q) => Told(t, q)
      <3>1. \A q \in Born(t) \ {p} : Told(u, q) => Told(t, q)
        BY DEF Told, Born
      <3> QED BY <3>1
    <2> QED BY <1>1, <1>2, <2>1 DEF Sound, Marked, Born
  <1> QED BY <1>2, <1>3, <1>5, <1>6, <1>7, <1>8, <1>9 DEF Sound, Settled

(* The same, of the state.                                                 *)
LEMMA WorkerNext ==
    ASSUME TableInv, Running, Types', UNCHANGED <<master, flags, mWorkerPool, fds, forkFails>>,
           "HUP" \in pending' <=> "HUP" \in pending,
           NEW p \in Pid, Alive(p), proc' \in [Pid -> Proc], mail' \in [Pid -> Seq(Message)],
           proc'[p].state \in {"running", "zombie"}, proc'[p].slot = proc[p].slot,
           proc'[p].detached = proc[p].detached,
           \A q \in Pid \ {p} : proc'[q] = proc[q] /\ mail'[q] = mail[q],
           Told(Table', p) => Told(Table, p),
           \/ (proc'[p].state = "running" \/ proc'[p].code # 1) /\ crashes' = crashes
           \/ crashes' = crashes + 1
    PROVE  TableInv'
  <1> DEFINE t == Table
             u == Table'
  <1>1. /\ t.pool = mWorkerPool /\ t.fds = fds /\ t.proc = proc /\ t.mail = mail
        /\ u.pool = mWorkerPool' /\ u.fds = fds' /\ u.proc = proc' /\ u.mail = mail'
        /\ Becomes(u)
    BY DEF Table, Becomes
  <1>2. u \in Tables
    <2>1. t \in Tables
      BY DEF TableInv, TableSound, Sound, Settled
    <2> QED BY <1>1, <2>1 DEF Tables, Table
  <1>3. Sound(t) /\ t.proc[p].state = "running"
    BY <1>1 DEF TableInv, TableSound, Alive
  <1>4. Told(u, p) => Told(t, p)
    OBVIOUS
  <1> HIDE DEF t, u
  <1>5. /\ Sound(u) /\ Gone(u) \subseteq Gone(t) \cup {p} /\ Gone(t) \subseteq Gone(u)
        /\ Apart(u) = Apart(t)
        /\ u.proc[p].state = "running" \/ u.proc[p].code # 1 => Gone(u) = Gone(t)
    <2>1. /\ u.pool = t.pool /\ u.fds = t.fds /\ u.proc[p].detached = t.proc[p].detached
          /\ u.proc[p].state \in {"running", "zombie"} /\ u.proc[p].slot = t.proc[p].slot
          /\ \A q \in Pid \ {p} : u.proc[q] = t.proc[q] /\ u.mail[q] = t.mail[q]
      BY <1>1
    <2> QED BY <1>2, <1>3, <1>4, <2>1, WorkerSound
  <1>6. Cardinality(Gone(u)) <= crashes'
    <2>1. Cardinality(Gone(t)) <= crashes /\ crashes \in Nat
      BY DEF TableInv, GoneCounted, Types, t
    <2>2. IsFiniteSet(Gone(t)) /\ IsFiniteSet(Gone(u))
          /\ Cardinality(Gone(t)) \in Nat /\ Cardinality(Gone(u)) \in Nat
      BY Numbers, FS_Subset, FS_CardinalityType DEF Gone
    <2>3. CASE crashes' = crashes + 1
      <3>1. Cardinality(Gone(u)) <= Cardinality(Gone(t) \cup {p})
        BY <1>5, <2>2, FS_AddElement, FS_Subset
      <3>2. Cardinality(Gone(t) \cup {p}) <= Cardinality(Gone(t)) + 1 /\ Cardinality(Gone(t) \cup {p}) \in Nat
        <4>1. Cardinality(Gone(t) \cup {p}) = IF p \in Gone(t) THEN Cardinality(Gone(t))
                                             ELSE Cardinality(Gone(t)) + 1
          BY <2>2, FS_AddElement
        <4> QED BY <2>2, <4>1
      <3> QED BY <2>1, <2>2, <2>3, <3>1, <3>2
    <2>4. CASE Gone(u) = Gone(t) /\ crashes' = crashes
      BY <2>1, <2>4
    <2> QED BY <1>1, <1>5, <2>3, <2>4
  <1>7. master' \notin {"starting", "exited", "undefined"} /\ master \notin {"starting", "undefined"}
    BY DEF Running
  <1>8. /\ Cardinality(Apart(u)) + Ahead' <= MaxDetached /\ ~(g_reconfigure' /\ "HUP" \in pending')
    <2>1. Ahead' = Ahead /\ g_reconfigure' = g_reconfigure
      BY DEF Ahead, flags
    <2> QED BY <1>5, <2>1 DEF TableInv, ApartCounted, t
  <1>9. forkFails' = 0 => Apart(u) = {} /\ u.pool[mWorkerNum - 1].mPid # -1
    BY <1>1, <1>5, <1>7 DEF TableInv, Untouched, t
  <1> QED BY <1>1, <1>5, <1>6, <1>7, <1>8, <1>9, TableNext

(* A message changes only what it says, and an order only sets its flag.   *)
LEMMA HandledIs ==
    ASSUME NEW q \in Proc, NEW m \in Message, NEW alone \in BOOLEAN
    PROVE  LET r == Handled(q, m, alone) IN
           /\ r \in Proc /\ r.state = q.state /\ r.code = q.code /\ r.slot = q.slot
           /\ r.deaf = q.deaf /\ r.detached = q.detached /\ r.mExiting = q.mExiting
           /\ r.g_quit => q.g_quit \/ m.type = "quit"
           /\ r.g_terminate => q.g_terminate \/ m.type = "terminate"
           /\ \A i \in Slot :
                 r.view[i] = IF m.slot = i /\ m.type = "open" THEN IF alone THEN m.pid ELSE Wrong
                             ELSE IF m.slot = i /\ m.type = "close" THEN None ELSE q.view[i]
  <1> DEFINE r == Handled(q, m, alone)
             x == IF alone THEN m.pid ELSE Wrong
  <1>1. m.type \in {"open", "close", "quit", "terminate"} /\ m.slot \in Slot
        /\ x \in {None, Wrong} \cup Pid
    BY DEF Message
  <1>2. CASE m.type = "open"
    <2>1. r = [q EXCEPT !.view[m.slot] = x]
      BY <1>2, Zenon DEF Handled
    <2> HIDE DEF r, x
    <2>2. /\ r \in Proc /\ r.state = q.state /\ r.code = q.code /\ r.slot = q.slot
          /\ r.deaf = q.deaf /\ r.detached = q.detached /\ r.mExiting = q.mExiting /\ r.g_quit = q.g_quit
          /\ r.g_terminate = q.g_terminate
          /\ \A i \in Slot : r.view[i] = IF m.slot = i THEN x ELSE q.view[i]
      BY <1>1, <2>1 DEF Proc
    <2> QED BY <1>2, <2>2 DEF r, x
  <1>3. CASE m.type = "close"
    <2>1. r = [q EXCEPT !.view[m.slot] = None]
      BY <1>3 DEF Handled
    <2> HIDE DEF r
    <2>2. /\ r \in Proc /\ r.state = q.state /\ r.code = q.code /\ r.slot = q.slot
          /\ r.deaf = q.deaf /\ r.detached = q.detached /\ r.mExiting = q.mExiting /\ r.g_quit = q.g_quit
          /\ r.g_terminate = q.g_terminate
          /\ \A i \in Slot : r.view[i] = IF m.slot = i THEN None ELSE q.view[i]
      BY <1>1, <2>1 DEF Proc
    <2> QED BY <1>3, <2>2 DEF r
  <1>4. CASE m.type = "quit"
    <2>1. r = [q EXCEPT !.g_quit = TRUE]
      BY <1>4 DEF Handled
    <2> HIDE DEF r
    <2>2. /\ r \in Proc /\ r.state = q.state /\ r.code = q.code /\ r.slot = q.slot
          /\ r.deaf = q.deaf /\ r.detached = q.detached /\ r.mExiting = q.mExiting
          /\ r.g_terminate = q.g_terminate /\ r.view = q.view
      BY <1>1, <2>1 DEF Proc
    <2> QED BY <1>4, <2>2 DEF r
  <1>5. CASE m.type = "terminate"
    <2>1. r = [q EXCEPT !.g_terminate = TRUE]
      BY <1>5 DEF Handled
    <2> HIDE DEF r
    <2>2. /\ r \in Proc /\ r.state = q.state /\ r.code = q.code /\ r.slot = q.slot
          /\ r.deaf = q.deaf /\ r.detached = q.detached /\ r.mExiting = q.mExiting
          /\ r.g_quit = q.g_quit /\ r.view = q.view
      BY <1>1, <2>1 DEF Proc
    <2> QED BY <1>5, <2>2 DEF r
  <1> QED BY <1>1, <1>2, <1>3, <1>4, <1>5

LEMMA HandledAllIs ==
    ASSUME NEW q \in Proc, NEW ms \in Seq(Message)
    PROVE  LET r == HandledAll(q, ms) IN
           /\ r \in Proc /\ r.state = q.state /\ r.code = q.code /\ r.slot = q.slot
           /\ r.deaf = q.deaf /\ r.detached = q.detached /\ r.mExiting = q.mExiting
           /\ r.g_quit => q.g_quit \/ \E n \in 1 .. Len(ms) : ms[n].type = "quit"
           /\ r.g_terminate => q.g_terminate \/ \E n \in 1 .. Len(ms) : ms[n].type = "terminate"
  <1>1. Len(ms) \in Nat /\ \A n \in 1 .. Len(ms) : ms[n] \in Message
    BY LenProperties, ElementOfSeq
  <1>2. PICK after : /\ after[0] = q
                     /\ \A k \in 0 .. Len(ms) - 1 :
                           after[k + 1] = Handled(after[k], ms[k + 1], Len(ms) = 1)
                     /\ HandledAll(q, ms) = after[Len(ms)]
    BY <1>1, HandlesAre
  <1> DEFINE Fine(r) ==
               /\ r \in Proc /\ r.state = q.state /\ r.code = q.code /\ r.slot = q.slot
               /\ r.deaf = q.deaf /\ r.detached = q.detached /\ r.mExiting = q.mExiting
               /\ r.g_quit => q.g_quit \/ \E n \in 1 .. Len(ms) : ms[n].type = "quit"
               /\ r.g_terminate => q.g_terminate \/ \E n \in 1 .. Len(ms) : ms[n].type = "terminate"
             S == {k \in 0 .. Len(ms) : Fine(after[k])}
  <1>3. 0 \in S
    BY <1>1, <1>2
  <1>4. ASSUME NEW k \in 0 .. Len(ms) - 1, k \in S PROVE k + 1 \in S
    <2>1. k + 1 \in 1 .. Len(ms) /\ k + 1 \in 0 .. Len(ms) /\ ms[k + 1] \in Message
      BY <1>1
    <2>2. Fine(after[k])
      BY <1>4
    <2> DEFINE m == ms[k + 1]
               alone == Len(ms) = 1
               a == after[k]
               r == Handled(a, m, alone)
    <2>3. after[k + 1] = r
      BY <1>2
    <2> HIDE DEF a, m, alone
    <2>4. a \in Proc /\ m \in Message /\ alone \in BOOLEAN
      BY <2>1, <2>2 DEF a, m, alone
    <2>5. /\ r \in Proc /\ r.state = a.state /\ r.code = a.code /\ r.slot = a.slot
          /\ r.deaf = a.deaf /\ r.detached = a.detached /\ r.mExiting = a.mExiting
          /\ r.g_quit => a.g_quit \/ m.type = "quit"
          /\ r.g_terminate => a.g_terminate \/ m.type = "terminate"
      BY <2>4, HandledIs
    <2> HIDE DEF r
    <2>6. Fine(r)
      BY <2>1, <2>2, <2>5 DEF a, m
    <2> QED BY <2>1, <2>3, <2>6
  <1> HIDE DEF S
  <1>5. Len(ms) \in S
    <2>1. Len(ms) \in Nat /\ Len(ms) \in 0 .. Len(ms)
      BY <1>1
    <2>2. \A k \in 0 .. Len(ms) : k \in S
      BY <1>3, <1>4, <2>1, Inductively
    <2> QED BY <2>1, <2>2
  <1> QED BY <1>2, <1>5 DEF S

(* What a worker has for a slot changes only by the messages about it.     *)
LEMMA HandledAllView ==
    ASSUME NEW q \in Proc, NEW ms \in Seq(Message), Len(ms) > 0, NEW i \in Slot
    PROVE  LET r == HandledAll(q, ms) IN
           /\ (\A n \in 1 .. Len(ms) : ~About(ms[n], i)) => r.view[i] = q.view[i]
           /\ \A x : Opens(ms[Len(ms)], i, x) => r.view[i] \in {x, Wrong}
  <1>1. Len(ms) \in Nat /\ \A n \in 1 .. Len(ms) : ms[n] \in Message
    BY LenProperties, ElementOfSeq
  <1>2. PICK after : /\ after[0] = q
                     /\ \A k \in 0 .. Len(ms) - 1 :
                           after[k + 1] = Handled(after[k], ms[k + 1], Len(ms) = 1)
                     /\ HandledAll(q, ms) = after[Len(ms)]
    BY <1>1, HandlesAre
  <1> DEFINE Alike(r) == (\A n \in 1 .. Len(ms) : ~About(ms[n], i)) => r.view[i] = q.view[i]
             S == {k \in 0 .. Len(ms) : after[k] \in Proc /\ Alike(after[k])}
  <1>3. 0 \in S
    BY <1>1, <1>2
  <1>4. ASSUME NEW k \in 0 .. Len(ms) - 1, after[k] \in Proc
        PROVE  LET r == after[k + 1] IN
               /\ r \in Proc
               /\ r.view[i] = IF ms[k + 1].slot = i /\ ms[k + 1].type = "open"
                              THEN IF Len(ms) = 1 THEN ms[k + 1].pid ELSE Wrong
                              ELSE IF ms[k + 1].slot = i /\ ms[k + 1].type = "close" THEN None
                              ELSE after[k].view[i]
    <2> DEFINE m == ms[k + 1]
               alone == Len(ms) = 1
               a == after[k]
               r == Handled(a, m, alone)
    <2>1. m \in Message /\ alone \in BOOLEAN /\ a \in Proc /\ after[k + 1] = r
      BY <1>1, <1>2, <1>4
    <2> HIDE DEF m, alone, a
    <2>2. /\ r \in Proc
          /\ r.view[i] = IF m.slot = i /\ m.type = "open" THEN IF alone THEN m.pid ELSE Wrong
                         ELSE IF m.slot = i /\ m.type = "close" THEN None ELSE a.view[i]
      BY <2>1, HandledIs
    <2> HIDE DEF r
    <2> QED BY <2>1, <2>2 DEF m, alone, a
  <1>5. ASSUME NEW k \in 0 .. Len(ms) - 1, k \in S PROVE k + 1 \in S
    <2>1. k + 1 \in 1 .. Len(ms) /\ k + 1 \in 0 .. Len(ms)
      BY <1>1
    <2>2. after[k] \in Proc /\ Alike(after[k])
      BY <1>5
    <2>3. after[k + 1] \in Proc
      BY <1>4, <2>2
    <2>4. Alike(after[k + 1])
      <3> SUFFICES ASSUME \A n \in 1 .. Len(ms) : ~About(ms[n], i) PROVE after[k + 1].view[i] = q.view[i]
        OBVIOUS
      <3>1. ~About(ms[k + 1], i) /\ after[k].view[i] = q.view[i]
        BY <2>1, <2>2
      <3> QED BY <1>4, <2>2, <3>1 DEF About
    <2> QED BY <2>1, <2>3, <2>4
  <1> HIDE DEF S
  <1>6. \A k \in 0 .. Len(ms) : k \in S
    BY <1>1, <1>3, <1>5, Inductively
  <1>7. Alike(after[Len(ms)])
    <2>1. Len(ms) \in S
      BY <1>1, <1>6
    <2> QED BY <2>1 DEF S
  <1>8. ASSUME NEW x, Opens(ms[Len(ms)], i, x) PROVE after[Len(ms)].view[i] \in {x, Wrong}
    <2>1. PICK k \in 0 .. Len(ms) - 1 : k + 1 = Len(ms)
      <3>1. Len(ms) - 1 \in 0 .. Len(ms) - 1 /\ (Len(ms) - 1) + 1 = Len(ms)
        BY <1>1
      <3> QED BY <3>1
    <2>2. after[k] \in Proc
      <3>1. k \in S
        BY <1>1, <1>6
      <3> QED BY <3>1 DEF S
    <2> QED BY <1>4, <1>8, <2>1, <2>2 DEF Opens
  <1> QED BY <1>2, <1>7, <1>8

LEMMA InitInv == ASSUME Init PROVE TableInv
  <1> DEFINE t == Table
  <1>1. /\ t.pool = [i \in Slot |-> NewWorker] /\ t.fds = [k \in Fd |-> None]
        /\ t.proc = [p \in Pid |-> Unborn] /\ t.mail = [p \in Pid |-> << >>]
    BY DEF Init, Table
  <1>2. t \in Tables
    <2>1. NewWorker \in Worker
      BY DEF NewWorker, Worker
    <2>2. Unborn \in Proc
      BY Numbers DEF Unborn, Proc
    <2>3. << >> \in Seq(Message)
      OBVIOUS
    <2> HIDE DEF t
    <2>4. /\ t.pool \in [Slot -> Worker] /\ t.fds \in [Fd -> {None} \cup Pid]
          /\ t.proc \in [Pid -> Proc] /\ t.mail \in [Pid -> Seq(Message)]
      BY <1>1, <2>1, <2>2, <2>3
    <2> QED BY <2>4 DEF t, Table, Tables
  <1> HIDE DEF t
  <1>3. /\ Born(t) = {} /\ Gone(t) = {} /\ Apart(t) = {}
        /\ \A p \in Pid : t.proc[p] = Unborn /\ t.mail[p] = << >>
    BY <1>1 DEF Born, Gone, Apart, Unborn
  <1>4. (\A i \in Slot : t.pool[i].mPid = -1) /\ (\A i \in Fd : t.fds[i] = None)
    BY <1>1 DEF NewWorker
  <1>5. Sound(t)
    <2>1. \A p \in Pid : t.proc[p].state = "unborn"
      BY <1>3 DEF Unborn
    <2>2. Waited(t) /\ Entries(t) /\ FdsApart(t)
      BY <1>4, <2>1 DEF Waited, Entries, FdsApart
    <2>3. Latest(t) /\ Fresh(t) /\ Marked(t)
      BY <1>3, <1>4 DEF Latest, Placed, Fresh, Marked
    <2> QED BY <1>2, <2>2, <2>3 DEF Sound, Settled
  <1>6. Startup(t, 0)
    <2>1. \A i \in Slot : ~(i < 0)
      BY Numbers
    <2>2. \A p \in Pid : ~t.proc[p].deaf
      BY <1>3 DEF Unborn
    <2> QED BY <1>3, <1>4, <1>5, <2>1, <2>2 DEF Startup, AllRun
  <1>7. Types /\ NobodyLeft /\ Untouched
    <2>1. crashes \in 0 .. MaxCrashes /\ forkFails \in 0 .. MaxForkFails
      BY Numbers DEF Init
    <2>2. flags \in BOOLEAN \X BOOLEAN \X BOOLEAN \X BOOLEAN
      BY DEF Init, flags
    <2> QED BY <2>1, <2>2 DEF Init, Types, NobodyLeft, Untouched
  <1>8. Cardinality({}) = 0 /\ crashes = 0 /\ Ahead = 0 /\ ~g_reconfigure
    BY FS_EmptySet DEF Init, Ahead
  <1>9. TableSound /\ GoneCounted /\ ApartCounted /\ Blank
    BY <1>3, <1>5, <1>6, <1>8, Numbers DEF TableSound, GoneCounted, ApartCounted, Blank, t
  <1> QED BY <1>7, <1>9 DEF TableInv

(* The calls of fork() that fail, of those for the slots or turns of S.    *)
LEMMA FailsCount ==
    ASSUME NEW S, IsFiniteSet(S), NEW fails \in SUBSET S
    PROVE  /\ IsFiniteSet(fails) /\ Cardinality(fails) \in Nat
           /\ Cardinality(fails) = 0 <=> fails = {}
  BY FS_Subset, FS_CardinalityType, FS_EmptySet

LEMMA Turns == IsFiniteSet(1 .. mWorkerNum) /\ mWorkerNum - 1 \in Slot
  BY Numbers, FS_Interval DEF Slot

LEMMA StartInv == ASSUME TableInv, MasterStart PROVE TableInv'
  <1>1. master = "starting" /\ master' = "suspended" /\ UNCHANGED <<pending, flags, crashes>>
    BY DEF MasterStart
  <1>2. PICK fails \in SUBSET (1 .. mWorkerNum) :
          /\ forkFails' = forkFails + Cardinality(fails) /\ forkFails' <= MaxForkFails
          /\ Becomes(WorkerStart(Table, fails, "respawn"))
    BY DEF MasterStart
  <1>3. /\ IsFiniteSet(fails) /\ Cardinality(fails) \in Nat
        /\ Cardinality(fails) = 0 <=> fails = {}
    BY <1>2, Turns, FailsCount
  <1>4. Startup(Table, 0)
    BY <1>1 DEF TableInv, Blank
  <1>5. /\ Counted(Table) /\ forkFails \in Nat /\ crashes \in Nat
    BY CountedNow
  <1> DEFINE u == WorkerStart(Table, fails, "respawn")
  <1>6. Sound(u) /\ Gone(u) = {} /\ Apart(u) = {}
    <2>1. Going(Table, Started(Table, mWorkerNum, fails, "respawn"), "respawn", mWorkerNum)
      BY <1>4, <1>5, StartedSound, Numbers DEF Startup
    <2> QED BY <1>4, <2>1 DEF Going, Startup, WorkerStart
  <1>7. fails = {} => u.pool[mWorkerNum - 1].mPid # -1
    <2> SUFFICES ASSUME fails = {} PROVE u.pool[mWorkerNum - 1].mPid # -1
      OBVIOUS
    <2>1. Startup(u, mWorkerNum)
      BY <1>4, StartupIs
    <2> HIDE DEF u
    <2>2. mWorkerNum - 1 < mWorkerNum /\ mWorkerNum - 1 \in Slot
      BY Numbers, Turns
    <2> QED BY <2>1, <2>2 DEF Startup
  <1> HIDE DEF u
  <1>8. forkFails' \in 0 .. MaxForkFails /\ (forkFails' = 0 => fails = {})
    BY <1>2, <1>3, <1>5, Numbers
  <1>9. Types'
    BY <1>1, <1>8 DEF TableInv, Types
  <1>10. Cardinality(Gone(u)) <= crashes'
    BY <1>1, <1>5, <1>6, FS_EmptySet
  <1>11. Cardinality(Apart(u)) + Ahead' <= MaxDetached /\ ~(g_reconfigure' /\ "HUP" \in pending')
    <2>1. Ahead' = Ahead /\ g_reconfigure' = g_reconfigure /\ pending' = pending
      BY <1>1 DEF Ahead, flags
    <2>2. Apart(Table) = Apart(u)
      BY <1>4, <1>6 DEF Startup
    <2> QED BY <2>1, <2>2 DEF TableInv, ApartCounted
  <1>12. master' # "undefined" /\ forkFails' = 0 =>
            Apart(u) = {} /\ u.pool[mWorkerNum - 1].mPid # -1
    BY <1>6, <1>7, <1>8
  <1>13. Becomes(u) /\ master' \notin {"starting", "exited"}
    BY <1>1, <1>2 DEF u
  <1> QED BY <1>6, <1>9, <1>10, <1>11, <1>12, <1>13, TableNext

(* What ProcessGetStatus and ReapChildren make of the table in one call.   *)
LEMMA TurnSound ==
    ASSUME TableInv, NEW fails
    PROVE  LET waited == IF g_reap THEN ProcessGetStatus(Table) ELSE Table
               u == IF g_reap THEN ReapChildren(waited, fails) ELSE waited
           IN  Sound(u) /\ Same(Table, u) /\ Counted(u)
  <1>1. Sound(Table) /\ Counted(Table)
    BY CountedNow
  <1>2. CASE ~g_reap
    BY <1>1, <1>2 DEF Same, EndsKept, LastKept
  <1>3. CASE g_reap
    <2> DEFINE waited == ProcessGetStatus(Table)
               u == ReapChildren(waited, fails)
    <2>1. Sound(waited) /\ Kept(Table, waited)
      BY <1>1, StatusSound
    <2> HIDE DEF waited
    <2>2. Counted(waited)
      BY <1>1, <2>1 DEF Counted, Kept, Same
    <2>3. Sound(u) /\ Same(waited, u)
      BY <2>1, <2>2, ReapedSound
    <2> HIDE DEF u
    <2>4. Same(Table, u)
      BY <2>1, <2>3, SameTwice DEF Kept
    <2>5. Counted(u)
      BY <2>2, <2>3 DEF Counted, Same
    <2> QED BY <1>3, <2>3, <2>4, <2>5 DEF waited, u
  <1> QED BY <1>2, <1>3

LEMMA OrderedSound ==
    ASSUME NEW t, Sound(t)
    PROVE  Sound(Ordered(t)) /\ Same(t, Ordered(t))
  <1>1. CASE g_terminate
    <2>1. Ordered(t) = SignalWorker(t, "terminate")
      BY <1>1 DEF Ordered
    <2> QED BY <2>1, SignalSound DEF Kept
  <1>2. CASE ~g_terminate /\ g_quit
    <2>1. Ordered(t) = SignalWorker(t, "quit")
      BY <1>2 DEF Ordered
    <2> QED BY <2>1, SignalSound DEF Kept
  <1>3. CASE ~g_terminate /\ ~g_quit
    BY <1>3 DEF Ordered, Same, EndsKept, LastKept
  <1> QED BY <1>1, <1>2, <1>3

(* The master has looked at all slots and found nobody but the detached.   *)
LEMMA NobodyRuns ==
    ASSUME NEW t, Sound(t), ~Live(t)
    PROVE  \A p \in Pid : t.proc[p].state = "running" => p \in Apart(t)
  <1> SUFFICES ASSUME NEW p \in Pid, t.proc[p].state = "running" PROVE p \in Apart(t)
    OBVIOUS
  <1>1. t.proc[p].slot \in Slot /\ p # -1
    BY Numbers DEF Sound, Settled, Tables, Proc
  <1>2. t.pool[t.proc[p].slot].mPid = p /\ ~t.pool[t.proc[p].slot].mExited
    BY DEF Sound, Settled, Waited
  <1>3. t.pool[t.proc[p].slot].mDetached
    BY <1>1, <1>2 DEF Live
  <1>4. Entry(t, t.proc[p].slot)
    BY <1>1, <1>2 DEF Sound, Settled, Entries
  <1> QED BY <1>2, <1>3, <1>4 DEF Entry

(* The master's turn, of which some calls of fork() fail.                  *)
Turn(fails) ==
    LET waited == IF g_reap THEN ProcessGetStatus(Table) ELSE Table
    IN  IF g_reap THEN ReapChildren(waited, fails) ELSE waited

LEMMA TurnIs ==
    ASSUME HandleSignal
    PROVE  \E fails \in SUBSET Slot :
             \/ Restarts /\ Restart(Turn(fails), Cardinality(fails))
             \/ /\ ~Restarts
                /\ forkFails' = forkFails + Cardinality(fails) /\ forkFails' <= MaxForkFails
                /\ \/ ~Live(Turn(fails)) /\ master' = "exited" /\ Becomes(Turn(fails))
                   \/ master' = "suspended" /\ Becomes(Ordered(Turn(fails)))
  <1> DEFINE waited == IF g_reap THEN ProcessGetStatus(Table) ELSE Table
             may == IF g_reap THEN ToRespawn(waited) ELSE {}
  <1>1. may \subseteq Slot
    BY DEF ToRespawn
  <1>2. PICK fails \in SUBSET may :
          LET t     == IF g_reap THEN ReapChildren(waited, fails) ELSE waited
              iLive == ~g_reap \/ Live(t)
          IN  \/ Restarts /\ Restart(t, Cardinality(fails))
              \/ /\ ~Restarts
                 /\ forkFails' = forkFails + Cardinality(fails) /\ forkFails' <= MaxForkFails
                 /\ IF ~iLive /\ Stopping THEN master' = "exited" /\ Becomes(t)
                    ELSE master' = "suspended" /\ Becomes(Ordered(t))
    BY Zenon DEF HandleSignal
  <1>3. fails \in SUBSET Slot
    BY <1>1, <1>2
  <1>4. Turn(fails) = IF g_reap THEN ReapChildren(waited, fails) ELSE waited
    BY DEF Turn
  <1> HIDE DEF waited, may
  <1> QED BY <1>2, <1>3, <1>4

(* A restart: who it starts is counted, and without a failed fork() there  *)
(* is no room for them.                                                    *)
LEMMA RestartSound ==
    ASSUME TableInv, master = "handling", g_reconfigure,
           NEW t, Sound(t), Counted(t), Same(Table, t),
           NEW more \in SUBSET (1 .. mWorkerNum)
    PROVE  LET u == WorkerStart(t, more, "just_spawn") IN
           /\ Sound(u) /\ Gone(u) = Gone(t) /\ EndsKept(t, u)
           /\ Cardinality(Apart(u)) <= MaxDetached /\ Cardinality(Apart(u)) \in Nat
           /\ forkFails = 0 /\ more = {} => Overrun(t, more, "just_spawn")
  <1> DEFINE u == WorkerStart(t, more, "just_spawn")
  <1>1. Cardinality(Apart(t)) \in Nat /\ Cardinality(Apart(t)) + mWorkerNum <= MaxDetached
    <2>1. Ahead = mWorkerNum /\ Apart(t) = Apart(Table)
      BY DEF Ahead, Same
    <2> QED BY <2>1, CountedNow DEF TableInv, ApartCounted
  <1>2. Going(t, u, "just_spawn", mWorkerNum)
    BY <1>1, StartedSound, Numbers DEF WorkerStart
  <1> HIDE DEF u
  <1>3. Cardinality(Apart(u)) <= MaxDetached /\ Cardinality(Apart(u)) \in Nat
    BY <1>1, <1>2, Numbers DEF Going
  <1>4. ASSUME forkFails = 0, more = {} PROVE Overrun(t, more, "just_spawn")
    <2>1. t.pool[mWorkerNum - 1].mPid # -1
      BY <1>4 DEF TableInv, Untouched, Same, LastKept
    <2> QED BY <1>1, <1>4, <2>1, NoRoom
  <1> QED BY <1>2, <1>3, <1>4 DEF Going, u

LEMMA HandleInv == ASSUME TableInv, HandleSignal PROVE TableInv'
  <1>1. PICK fails \in SUBSET Slot :
             \/ Restarts /\ Restart(Turn(fails), Cardinality(fails))
             \/ /\ ~Restarts
                /\ forkFails' = forkFails + Cardinality(fails) /\ forkFails' <= MaxForkFails
                /\ \/ ~Live(Turn(fails)) /\ master' = "exited" /\ Becomes(Turn(fails))
                   \/ master' = "suspended" /\ Becomes(Ordered(Turn(fails)))
    BY TurnIs
  <1>2. /\ master = "handling" /\ UNCHANGED <<pending, g_terminate, g_quit, crashes>>
        /\ g_reap' = FALSE /\ g_reconfigure' = (g_reconfigure /\ Stopping)
    BY DEF HandleSignal
  <1> DEFINE t == Turn(fails)
  <1>3. Sound(t) /\ Same(Table, t) /\ Counted(t)
    BY TurnSound DEF Turn
  <1>4. Cardinality(fails) \in Nat /\ (Cardinality(fails) = 0 => fails = {})
    BY Numbers, FailsCount
  <1> HIDE DEF t
  <1>5. /\ forkFails \in Nat /\ crashes \in Nat /\ Ahead \in Nat
        /\ Cardinality(Apart(Table)) \in Nat /\ Cardinality(Apart(t)) \in Nat
        /\ Cardinality(Apart(t)) = Cardinality(Apart(Table))
    BY <1>3, CountedNow DEF Same
  <1>6. ASSUME forkFails' \in Nat, forkFails' <= MaxForkFails,
               master' \in {"suspended", "exited", "undefined"}
        PROVE  Types'
    <2>1. g_reconfigure' \in BOOLEAN /\ g_reap' \in BOOLEAN
          /\ g_terminate' \in BOOLEAN /\ g_quit' \in BOOLEAN
      BY <1>2 DEF TableInv, Types, flags
    <2>2. forkFails' \in 0 .. MaxForkFails
      BY <1>6, Numbers
    <2> QED BY <1>2, <1>6, <2>1, <2>2 DEF TableInv, Types, flags
  <1>7. ASSUME NEW u, Gone(u) = Gone(t) PROVE Cardinality(Gone(u)) <= crashes'
    BY <1>2, <1>3, <1>7 DEF TableInv, GoneCounted, Same
  <1>8. CASE Restarts /\ Restart(t, Cardinality(fails))
    <2>1. PICK more \in SUBSET (1 .. mWorkerNum) :
            LET u == WorkerStart(t, more, "just_spawn") IN
            /\ forkFails' = forkFails + Cardinality(fails) + Cardinality(more)
            /\ forkFails' <= MaxForkFails
            /\ IF Overrun(t, more, "just_spawn")
               THEN master' = "undefined" /\ Becomes(u)
               ELSE master' = "suspended" /\ Becomes(SignalWorker(u, "terminate"))
      BY <1>8, Zenon DEF Restart
    <2> DEFINE u == WorkerStart(t, more, "just_spawn")
               v == SignalWorker(u, "terminate")
    <2>2. Cardinality(more) \in Nat /\ (Cardinality(more) = 0 => more = {})
      BY Turns, FailsCount
    <2>3. /\ Sound(u) /\ Gone(u) = Gone(t) /\ EndsKept(t, u)
          /\ Cardinality(Apart(u)) <= MaxDetached /\ Cardinality(Apart(u)) \in Nat
          /\ forkFails = 0 /\ more = {} => Overrun(t, more, "just_spawn")
      BY <1>2, <1>3, <1>8, RestartSound DEF Restarts
    <2>4. \/ master' = "undefined" /\ Becomes(u)
          \/ ~Overrun(t, more, "just_spawn") /\ master' = "suspended" /\ Becomes(v)
      BY <2>1, Zenon
    <2> HIDE DEF u
    <2>5. Sound(v) /\ Gone(v) = Gone(u) /\ Apart(v) = Apart(u)
      BY <2>3, SignalSound DEF Kept, Same
    <2> HIDE DEF v
    <2>6. forkFails' \in Nat /\ forkFails' <= MaxForkFails
          /\ (forkFails' = 0 => forkFails = 0 /\ more = {})
      BY <1>4, <1>5, <2>1, <2>2
    <2>7. ~g_reconfigure' /\ Ahead' = 0
      <3>1. g_reconfigure /\ ~Stopping
        BY <1>8 DEF Restarts
      <3>2. ~g_reconfigure' /\ "HUP" \notin pending'
        BY <1>2, <3>1 DEF TableInv, ApartCounted
      <3> QED BY <3>2 DEF Ahead
    <2>8. Types' /\ master' \notin {"starting", "exited"}
      BY <1>6, <2>4, <2>6
    <2>9. Cardinality(Gone(u)) <= crashes' /\ Cardinality(Gone(v)) <= crashes'
      BY <1>7, <2>3, <2>5
    <2>10. Cardinality(Apart(u)) + Ahead' <= MaxDetached /\ Cardinality(Apart(v)) + Ahead' <= MaxDetached
      BY <2>3, <2>5, <2>7
    <2>11. CASE master' = "undefined" /\ Becomes(u)
      BY <2>3, <2>7, <2>8, <2>9, <2>10, <2>11, TableNext
    <2>12. CASE ~Overrun(t, more, "just_spawn") /\ master' = "suspended" /\ Becomes(v)
      <3>1. forkFails' # 0
        BY <2>3, <2>6, <2>12
      <3> QED BY <2>5, <2>7, <2>8, <2>9, <2>10, <2>12, <3>1, TableNext
    <2> QED BY <2>4, <2>11, <2>12
  <1>9. ASSUME ~Restarts, forkFails' = forkFails + Cardinality(fails), forkFails' <= MaxForkFails,
               NEW u, Sound(u), Same(t, u), Becomes(u),
               \/ ~Live(u) /\ master' = "exited"
               \/ master' = "suspended"
        PROVE  TableInv'
    <2>1. Same(Table, u) /\ Gone(u) = Gone(t) /\ Apart(u) = Apart(Table)
      BY <1>3, <1>9, SameTwice DEF Same
    <2>2. forkFails' \in Nat /\ (forkFails' = 0 => forkFails = 0)
          /\ (forkFails' > 0 <=> forkFails' # 0)
      BY <1>4, <1>5, <1>9
    <2>3. Types' /\ master' \notin {"starting", "undefined"}
      BY <1>6, <1>9, <2>2
    <2>4. Cardinality(Gone(u)) <= crashes'
      BY <1>7, <2>1
    <2>5. Cardinality(Apart(u)) + Ahead' <= MaxDetached /\ ~(g_reconfigure' /\ "HUP" \in pending')
      <3>1. (g_reconfigure' => g_reconfigure) /\ pending' = pending
        BY <1>2
      <3>2. Ahead' = Ahead \/ Ahead' = 0
        BY <3>1 DEF Ahead
      <3> QED BY <1>5, <2>1, <3>1, <3>2, Numbers DEF TableInv, ApartCounted
    <2>6. forkFails' = 0 => Apart(u) = {} /\ u.pool[mWorkerNum - 1].mPid # -1
      BY <1>2, <2>1, <2>2 DEF TableInv, Untouched, Same, LastKept
    <2>7. master' = "exited" =>
             \A p \in Pid : u.proc[p].state = "running" => p \in Apart(u) /\ forkFails' > 0
      BY <1>9, <2>2, <2>6, NobodyRuns
    <2> QED BY <1>9, <2>3, <2>4, <2>5, <2>6, <2>7, TableNext
  <1>10. CASE ~Restarts /\ ~Live(t) /\ master' = "exited" /\ Becomes(t)
    <2>1. Same(t, t)
      BY DEF Same, EndsKept, LastKept
    <2> QED BY <1>1, <1>3, <1>9, <1>10, <2>1 DEF t
  <1>11. CASE ~Restarts /\ master' = "suspended" /\ Becomes(Ordered(t))
    <2>1. Sound(Ordered(t)) /\ Same(t, Ordered(t))
      BY <1>3, OrderedSound
    <2> QED BY <1>1, <1>9, <1>11, <2>1
  <1> QED BY <1>1, <1>8, <1>10, <1>11 DEF t

(* The table stays, and the master goes on as it was.                      *)
LEMMA QuietInv ==
    ASSUME TableInv, Types', UNCHANGED <<mWorkerPool, fds, proc, mail, crashes, forkFails>>,
           Cardinality(Apart(Table)) + Ahead' <= MaxDetached, ~(g_reconfigure' /\ "HUP" \in pending'),
           master' = master \/ (Running /\ master' \in {"suspended", "handling"})
    PROVE  TableInv'
  <1>1. Table' = Table
    BY DEF Table
  <1>2. TableSound' /\ GoneCounted'
    BY <1>1 DEF TableInv, TableSound, GoneCounted
  <1>3. ApartCounted'
    BY <1>1 DEF ApartCounted
  <1>4. Untouched'
    BY <1>1 DEF TableInv, Untouched, Running
  <1>5. NobodyLeft' /\ Blank'
    BY <1>1 DEF TableInv, NobodyLeft, Blank, Alive, Detached, Running
  <1> QED BY <1>2, <1>3, <1>4, <1>5 DEF TableInv

LEMMA ExitInv ==
    ASSUME TableInv, NEW p \in Pid, NEW code \in {0, 1, 2}, Alive(p), Exit(p, code),
           code = 0 => Told(Table, p),
           \/ code # 1 /\ crashes' = crashes
           \/ crashes' = crashes + 1 /\ crashes' <= MaxCrashes
    PROVE  TableInv'
  <1>1. /\ Running /\ UNCHANGED <<master, flags, mWorkerPool, fds, mail, forkFails>>
        /\ pending' = pending \cup {"CHLD"}
        /\ proc' = [proc EXCEPT ![p].state = "zombie", ![p].code = code]
    BY DEF Exit
  <1>2. Types'
    BY <1>1, Numbers DEF TableInv, Types
  <1>3. proc \in [Pid -> Proc] /\ mail \in [Pid -> Seq(Message)]
    BY DEF TableInv, TableSound, Sound, Settled, Tables, Table
  <1>4. /\ proc' \in [Pid -> Proc] /\ proc'[p].state = "zombie" /\ proc'[p].code = code
        /\ proc'[p].slot = proc[p].slot /\ proc'[p].g_terminate = proc[p].g_terminate
        /\ proc'[p].g_quit = proc[p].g_quit /\ proc'[p].mExiting = proc[p].mExiting
        /\ proc'[p].detached = proc[p].detached
        /\ \A q \in Pid \ {p} : proc'[q] = proc[q]
    BY <1>1, <1>3 DEF Proc
  <1>5. Told(Table', p) => Told(Table, p)
    BY <1>1, <1>4 DEF Told, Table
  <1>6. /\ proc'[p].state \in {"running", "zombie"} /\ mail' \in [Pid -> Seq(Message)]
        /\ \A q \in Pid \ {p} : proc'[q] = proc[q] /\ mail'[q] = mail[q]
        /\ UNCHANGED <<master, flags, mWorkerPool, fds, forkFails>>
        /\ ("HUP" \in pending' <=> "HUP" \in pending)
    BY <1>1, <1>3, <1>4
  <1>7. \/ (proc'[p].state = "running" \/ proc'[p].code # 1) /\ crashes' = crashes
        \/ crashes' = crashes + 1
    BY <1>4
  <1> QED BY <1>1, <1>2, <1>4, <1>5, <1>6, <1>7, WorkerNext

(* Mail is cut in two.                                                     *)
LEMMA Cut ==
    ASSUME NEW a \in Seq(Message), NEW n \in 1 .. Len(a)
    PROVE  LET ms == SubSeq(a, 1, n)
               rest == SubSeq(a, n + 1, Len(a)) IN
           /\ ms \in Seq(Message) /\ rest \in Seq(Message) /\ Len(ms) = n /\ Len(a) \in Nat
           /\ \A k \in 1 .. n : ms[k] = a[k]
           /\ DOMAIN rest = 1 .. Len(a) - n
           /\ \A k \in 1 .. Len(a) - n : rest[k] = a[n + k]
           /\ DOMAIN a = 1 .. Len(a) /\ n \in 1 .. Len(a)
  <1> DEFINE ms == SubSeq(a, 1, n)
             rest == SubSeq(a, n + 1, Len(a))
  <1>1. a \in Seq(Message) /\ n \in 1 .. Len(a)
    OBVIOUS
  <1>2. Len(a) \in Nat /\ DOMAIN a = 1 .. Len(a) /\ \A k \in 1 .. Len(a) : a[k] \in Message
    BY <1>1, LenProperties, ElementOfSeq
  <1>3. n \in Nat /\ n >= 1 /\ n <= Len(a)
    BY <1>1, <1>2
  <1>4. (\A k \in 1 .. n : a[k] \in Message) /\ (\A k \in n + 1 .. Len(a) : a[k] \in Message)
    BY <1>2, <1>3
  <1>5. /\ ms \in Seq(Message) /\ Len(ms) = n
        /\ \A k \in 1 .. n : ms[k] = a[k]
    <2>1. /\ ms \in Seq(Message) /\ Len(ms) = IF 1 <= n THEN n - 1 + 1 ELSE 0
          /\ \A k \in 1 .. n - 1 + 1 : ms[k] = a[1 + k - 1]
      BY <1>1, <1>3, <1>4, SubSeqProperties
    <2> QED BY <1>3, <2>1
  <1>6. /\ rest \in Seq(Message) /\ Len(rest) = Len(a) - n
        /\ \A k \in 1 .. Len(a) - n : rest[k] = a[n + k]
    <2>1. PICK m \in Int : n < m /\ m <= n + 1
      BY <1>3
    <2>2. Len(a) \in Int /\ \A k \in m .. Len(a) : a[k] \in Message
      BY <1>2, <1>4, <2>1
    <2>3. rest = SubSeq(a, m, Len(a))
      <3>1. m = n + 1
        BY <1>3, <2>1
      <3> QED BY <3>1 DEF rest
    <2>4. /\ rest \in Seq(Message)
          /\ Len(rest) = IF m <= Len(a) THEN Len(a) - m + 1 ELSE 0
          /\ \A k \in 1 .. Len(a) - m + 1 : rest[k] = a[m + k - 1]
      BY <2>2, <2>3, SubSeqProperties
    <2> HIDE DEF rest, ms
    <2>5. Len(a) - m + 1 = Len(a) - n /\ Len(rest) = Len(a) - n
      <3>1. PICK z \in Nat : z = Len(a)
        BY <1>2
      <3>2. m <= z => z - m + 1 = z - n
        BY <1>3, <2>1
      <3>3. ~(m <= z) => z - n = 0 /\ z - m + 1 = 0
        BY <1>3, <2>1, <3>1
      <3> QED BY <2>4, <3>1, <3>2, <3>3
    <2>6. ASSUME NEW k \in 1 .. Len(a) - n PROVE rest[k] = a[n + k]
      <3>1. rest[k] = a[m + k - 1] /\ m + k - 1 = n + k
        BY <1>2, <1>3, <2>1, <2>4, <2>5
      <3> QED BY <3>1
    <2> QED BY <2>4, <2>5, <2>6
  <1>7. DOMAIN rest = 1 .. Len(a) - n
    BY <1>6, LenProperties
  <1> QED BY <1>1, <1>2, <1>5, <1>6, <1>7

LEMMA RecvInv == ASSUME TableInv, NEW p \in Pid, ChannelRecv(p) PROVE TableInv'
  <1>1. PICK n \in 1 .. Len(mail[p]) :
          /\ mail' = [mail EXCEPT ![p] = SubSeq(@, n + 1, Len(@))]
          /\ proc' = [proc EXCEPT ![p] = HandledAll(@, SubSeq(mail[p], 1, n))]
    BY DEF ChannelRecv
  <1>2. /\ Running /\ Alive(p)
        /\ UNCHANGED <<master, pending, flags, mWorkerPool, fds, crashes, forkFails>>
    BY DEF ChannelRecv
  <1>3. proc \in [Pid -> Proc] /\ mail \in [Pid -> Seq(Message)]
    BY DEF TableInv, TableSound, Sound, Settled, Tables, Table
  <1> DEFINE a == mail[p]
             ms == SubSeq(a, 1, n)
             rest == SubSeq(a, n + 1, Len(a))
             r == HandledAll(proc[p], ms)
  <1>4. /\ ms \in Seq(Message) /\ rest \in Seq(Message) /\ Len(ms) = n /\ Len(a) \in Nat
        /\ \A k \in 1 .. n : ms[k] = a[k]
        /\ DOMAIN rest = 1 .. Len(a) - n
        /\ \A k \in 1 .. Len(a) - n : rest[k] = a[n + k]
        /\ DOMAIN a = 1 .. Len(a) /\ n \in 1 .. Len(a)
    <2>1. a \in Seq(Message) /\ n \in 1 .. Len(a)
      BY <1>3
    <2> HIDE DEF a
    <2> QED BY <2>1, Cut
  <1>5. /\ mail' = [mail EXCEPT ![p] = rest] /\ proc' = [proc EXCEPT ![p] = r]
    BY <1>1
  <1> HIDE DEF a, ms, rest
  <1>6. /\ r \in Proc /\ r.state = proc[p].state /\ r.code = proc[p].code /\ r.slot = proc[p].slot
        /\ r.deaf = proc[p].deaf /\ r.detached = proc[p].detached /\ r.mExiting = proc[p].mExiting
        /\ r.g_quit => proc[p].g_quit \/ \E k \in 1 .. n : ms[k].type = "quit"
        /\ r.g_terminate => proc[p].g_terminate \/ \E k \in 1 .. n : ms[k].type = "terminate"
    <2>1. proc[p] \in Proc
      BY <1>3
    <2> QED BY <1>4, <2>1, HandledAllIs
  <1> HIDE DEF r
  <1>7. /\ proc' \in [Pid -> Proc] /\ mail' \in [Pid -> Seq(Message)]
        /\ proc'[p] = r /\ mail'[p] = rest
        /\ \A q \in Pid \ {p} : proc'[q] = proc[q] /\ mail'[q] = mail[q]
    BY <1>3, <1>4, <1>5, <1>6
  <1>8. Told(Table', p) => Told(Table, p)
    <2> SUFFICES ASSUME Told(Table', p) PROVE Told(Table, p)
      OBVIOUS
    <2>1. Table'.proc = proc' /\ Table'.mail = mail' /\ Table.proc = proc /\ Table.mail = mail
      BY DEF Table
    <2>2. \A k \in 1 .. n : k \in DOMAIN a
      BY <1>4
    <2>3. ASSUME \E k \in 1 .. n : a[k].type \in {"quit", "terminate"} PROVE Told(Table, p)
      BY <2>1, <2>2, <2>3 DEF Told, a
    <2>4. CASE r.g_terminate \/ r.g_quit \/ r.mExiting
      <3>1. \/ proc[p].g_terminate \/ proc[p].g_quit \/ proc[p].mExiting
            \/ \E k \in 1 .. n : a[k].type \in {"quit", "terminate"}
        BY <1>4, <1>6, <2>4
      <3> QED BY <2>1, <2>3, <3>1 DEF Told
    <2>5. CASE r.state \in {"zombie", "reaped"} /\ r.code = 0
      BY <1>6, <2>1, <2>5 DEF Told
    <2>6. CASE \E k \in DOMAIN rest : rest[k].type \in {"quit", "terminate"}
      <3>1. PICK k \in 1 .. Len(a) - n : rest[k].type \in {"quit", "terminate"}
        BY <1>4, <2>6
      <3>2. n + k \in DOMAIN a /\ a[n + k].type \in {"quit", "terminate"}
        BY <1>4, <3>1
      <3> QED BY <2>1, <3>2 DEF Told, a
    <2> QED BY <1>7, <2>1, <2>4, <2>5, <2>6 DEF Told
  <1>9. Types'
    BY <1>2 DEF TableInv, Types
  <1>10. proc'[p].state = "running"
    BY <1>2, <1>6, <1>7 DEF Alive
  <1> QED BY <1>2, <1>6, <1>7, <1>8, <1>9, <1>10, WorkerNext

LEMMA QuitsInv == ASSUME TableInv, NEW p \in Pid, WorkerQuits(p) PROVE TableInv'
  <1>1. /\ Running /\ Alive(p) /\ proc[p].g_quit
        /\ proc' = [proc EXCEPT ![p].g_quit = FALSE, ![p].mExiting = TRUE]
        /\ UNCHANGED <<master, pending, flags, mWorkerPool, fds, mail, crashes, forkFails>>
    BY DEF WorkerQuits
  <1>2. proc \in [Pid -> Proc] /\ mail \in [Pid -> Seq(Message)]
    BY DEF TableInv, TableSound, Sound, Settled, Tables, Table
  <1>3. /\ proc' \in [Pid -> Proc] /\ proc'[p].state = proc[p].state /\ proc'[p].slot = proc[p].slot
        /\ proc'[p].detached = proc[p].detached
        /\ \A q \in Pid \ {p} : proc'[q] = proc[q]
    BY <1>1, <1>2 DEF Proc
  <1>4. Told(Table, p)
    BY <1>1 DEF Told, Table
  <1>5. Types'
    BY <1>1 DEF TableInv, Types
  <1> QED BY <1>1, <1>2, <1>3, <1>4, <1>5, WorkerNext DEF Alive

LEMMA NextInv == ASSUME TableInv, [Next]_vars PROVE TableInv'
  <1>0. /\ Cardinality(Apart(Table)) + Ahead <= MaxDetached /\ ~(g_reconfigure /\ "HUP" \in pending)
        /\ Cardinality(Apart(Table)) \in Nat
    BY CountedNow DEF TableInv, ApartCounted
  <1>1. CASE MasterStart
    BY <1>1, StartInv
  <1>2. CASE Wake
    <2>1. Types'
      BY <1>2 DEF Wake, TableInv, Types, flags
    <2>2. pending' = {} /\ g_reconfigure' = (g_reconfigure \/ "HUP" \in pending)
      BY <1>2 DEF Wake
    <2>3. Ahead' = Ahead /\ ~(g_reconfigure' /\ "HUP" \in pending')
      BY <2>2 DEF Ahead
    <2> QED BY <1>0, <1>2, <2>1, <2>3, QuietInv DEF Wake, Running
  <1>3. CASE HandleSignal
    BY <1>3, HandleInv
  <1>4. CASE Signal
    <2>1. Types'
      BY <1>4 DEF Signal, TableInv, Types, flags
    <2>2. /\ g_reconfigure' = g_reconfigure /\ master' = master
          /\ UNCHANGED <<mWorkerPool, fds, proc, mail, crashes, forkFails>>
      BY <1>4 DEF Signal, flags
    <2>3. CASE pending' = pending \cup {"TERM"} \/ pending' = pending \cup {"QUIT"}
      <3>1. "HUP" \in pending' <=> "HUP" \in pending
        BY <2>3
      <3>2. Ahead' = Ahead /\ ~(g_reconfigure' /\ "HUP" \in pending')
        BY <1>0, <2>2, <3>1 DEF Ahead
      <3> QED BY <1>0, <2>1, <2>2, <3>2, QuietInv
    <2>4. CASE /\ ~g_reconfigure /\ Cardinality(Detached) + mWorkerNum <= MaxDetached
               /\ pending' = pending \cup {"HUP"}
      <3>1. Apart(Table) = Detached
        BY DEF Apart, Detached, Table
      <3>2. Ahead' = mWorkerNum /\ ~g_reconfigure'
        BY <2>2, <2>4 DEF Ahead
      <3>3. Cardinality(Apart(Table)) + Ahead' <= MaxDetached
        BY <2>4, <3>1, <3>2
      <3> QED BY <2>1, <2>2, <3>2, <3>3, QuietInv
    <2> QED BY <1>4, <2>3, <2>4 DEF Signal
  <1>5. ASSUME NEW p \in Pid, Crash(p) PROVE TableInv'
    <2>1. crashes' = crashes + 1 /\ crashes' <= MaxCrashes
      BY <1>5, Numbers DEF Crash, TableInv, Types
    <2> QED BY <1>5, <2>1, ExitInv DEF Crash
  <1>6. ASSUME NEW p \in Pid, Fatal(p) PROVE TableInv'
    BY <1>6, ExitInv DEF Fatal
  <1>7. ASSUME NEW p \in Pid, ChannelRecv(p) PROVE TableInv'
    BY <1>7, RecvInv
  <1>8. ASSUME NEW p \in Pid, WorkerTurn(p) PROVE TableInv'
    <2>1. CASE WorkerQuits(p)
      BY <2>1, QuitsInv
    <2>2. CASE WorkerExit(p)
      <3>1. proc[p].g_terminate \/ proc[p].mExiting
        BY <2>2 DEF WorkerExit
      <3>2. Told(Table, p)
        BY <3>1 DEF Told, Table
      <3> QED BY <2>2, <3>2, ExitInv DEF WorkerExit
    <2> QED BY <1>8, <2>1, <2>2 DEF WorkerTurn
  <1>9. CASE UNCHANGED vars
    <2>1. Types'
      BY <1>9 DEF vars, flags, TableInv, Types
    <2>2. Ahead' = Ahead /\ ~(g_reconfigure' /\ "HUP" \in pending')
      BY <1>0, <1>9 DEF vars, flags, Ahead
    <2>3. UNCHANGED <<mWorkerPool, fds, proc, mail, crashes, forkFails>> /\ master' = master
      BY <1>9 DEF vars
    <2> QED BY <1>0, <2>1, <2>2, <2>3, QuietInv
  <1> QED BY <1>1, <1>2, <1>3, <1>4, <1>5, <1>6, <1>7, <1>8, <1>9 DEF Next

(* In every behaviour of the master and its workers the table is sound:    *)
(* each process that was not waited for is in it; the others leave room    *)
(* for those that replace them and for those that an order to restart may  *)
(* start; who was told to stop is marked; and without a failed fork() the  *)
(* last slot (wMaster.inl, WorkerStart and ReapChildren) is never emptied, *)
(* so that such an order never comes to start anybody.                     *)
THEOREM Invariance == Spec => []TableInv
  <1>1. Init => TableInv
    BY InitInv
  <1>2. TableInv /\ [Next]_vars => TableInv'
    BY NextInv
  <1> QED BY <1>1, <1>2, PTL DEF Spec

(* InTable (wMaster.inl, ProcessGetStatus and ReapChildren): no worker is  *)
(* lost from the table as long as it runs or was not waited for, and the   *)
(* master exits only when no worker is left but those that an order to     *)
(* restart has started after fork() had failed.                            *)
THEOREM InTableCorrect == Spec => []InTable
  <1>1. TableInv => InTable
    <2> SUFFICES ASSUME TableInv PROVE InTable
      OBVIOUS
    <2>1. TypeOK
      BY DEF TableInv, TableSound, Sound, Settled, Tables, Table, Types, TypeOK, Worker
    <2>2. \A p \in Pid : proc[p].state \in {"running", "zombie"} =>
             mWorkerPool[proc[p].slot].mPid = p /\ ~mWorkerPool[proc[p].slot].mExited
      BY DEF TableInv, TableSound, Sound, Settled, Waited, Table
    <2> QED BY <2>1, <2>2 DEF InTable, TableInv, NobodyLeft
  <1> QED BY <1>1, Invariance, PTL

-----------------------------------------------------------------------------
(* The channels, as long as no fork() failed and nobody exited with 2.     *)
ChannelInv == master # "starting" /\ forkFails = 0 /\ Clean(Table) => Orderly(Table, mWorkerNum)

LEMMA StartChannels == ASSUME TableInv, MasterStart PROVE ChannelInv'
  <1> SUFFICES ASSUME forkFails' = 0 PROVE Orderly(Table, mWorkerNum)'
    BY DEF ChannelInv
  <1>1. master = "starting" /\ UNCHANGED <<g_terminate, g_quit>>
    BY DEF MasterStart, flags
  <1>2. PICK fails \in SUBSET (1 .. mWorkerNum) :
          /\ forkFails' = forkFails + Cardinality(fails)
          /\ Becomes(WorkerStart(Table, fails, "respawn"))
    BY DEF MasterStart
  <1>3. fails = {}
    <2>1. Cardinality(fails) \in Nat /\ (Cardinality(fails) = 0 => fails = {})
      BY Turns, FailsCount
    <2> QED BY <1>2, <2>1, CountedNow
  <1> DEFINE u == WorkerStart(Table, fails, "respawn")
  <1>4. Startup(u, mWorkerNum)
    <2>1. Startup(Table, 0)
      BY <1>1 DEF TableInv, Blank
    <2> QED BY <1>3, <2>1, StartupIs
  <1>5. Orderly(u, mWorkerNum)
    BY <1>4, StartedOrderly
  <1>6. Table' = u
    BY <1>2, <1>4, NextTable DEF Startup, Sound, Settled
  <1> HIDE DEF u
  <1> QED BY <1>1, <1>5, <1>6 DEF Orderly, Stopping

LEMMA HandleChannels == ASSUME TableInv, ChannelInv, HandleSignal PROVE ChannelInv'
  <1> SUFFICES ASSUME forkFails' = 0, Clean(Table)' PROVE Orderly(Table, mWorkerNum)'
    BY DEF ChannelInv
  <1>1. PICK fails \in SUBSET Slot :
             \/ Restarts /\ Restart(Turn(fails), Cardinality(fails))
             \/ /\ ~Restarts
                /\ forkFails' = forkFails + Cardinality(fails) /\ forkFails' <= MaxForkFails
                /\ \/ ~Live(Turn(fails)) /\ master' = "exited" /\ Becomes(Turn(fails))
                   \/ master' = "suspended" /\ Becomes(Ordered(Turn(fails)))
    BY TurnIs
  <1>2. master = "handling" /\ UNCHANGED <<g_terminate, g_quit>>
    BY DEF HandleSignal
  <1> DEFINE waited == IF g_reap THEN ProcessGetStatus(Table) ELSE Table
             t == Turn(fails)
  <1>3. Sound(t) /\ Same(Table, t) /\ Sound(Table) /\ Counted(Table)
    BY TurnSound, CountedNow DEF Turn
  <1>4. /\ Cardinality(fails) \in Nat /\ (Cardinality(fails) = 0 => fails = {})
        /\ forkFails \in Nat
    BY Numbers, FailsCount, CountedNow
  <1>5. t = IF g_reap THEN ReapChildren(waited, fails) ELSE waited
    BY DEF Turn
  <1> HIDE DEF t, waited
  <1>6. ASSUME fails = {}, Orderly(Table, mWorkerNum), Clean(Table) PROVE Orderly(t, mWorkerNum)
    <2>1. CASE ~g_reap
      BY <1>5, <1>6, <2>1 DEF waited
    <2>2. CASE g_reap
      <3>1. Sound(waited) /\ Kept(Table, waited) /\ Orderly(waited, 0)
        BY <1>3, <1>6, <2>2, StatusSound DEF waited
      <3>2. Counted(waited)
        BY <1>3, <3>1 DEF Counted, Kept, Same
      <3> QED BY <1>5, <1>6, <2>2, <3>1, <3>2, ReapedOrderly
    <2> QED BY <2>1, <2>2
  <1>7. ASSUME forkFails = 0, fails = {}, EndsKept(Table, Table') PROVE Orderly(t, mWorkerNum)
    <2>1. Clean(Table)
      BY <1>7 DEF EndsKept, Clean
    <2>2. Orderly(Table, mWorkerNum)
      BY <1>2, <1>7, <2>1 DEF ChannelInv
    <2> QED BY <1>6, <1>7, <2>1, <2>2
  <1>8. CASE Restarts /\ Restart(t, Cardinality(fails))
    <2>1. PICK more \in SUBSET (1 .. mWorkerNum) :
            LET u == WorkerStart(t, more, "just_spawn") IN
            /\ forkFails' = forkFails + Cardinality(fails) + Cardinality(more)
            /\ IF Overrun(t, more, "just_spawn") THEN Becomes(u)
               ELSE Becomes(SignalWorker(u, "terminate"))
      BY <1>8, Zenon DEF Restart
    <2> DEFINE u == WorkerStart(t, more, "just_spawn")
               v == SignalWorker(u, "terminate")
    <2>2. forkFails = 0 /\ fails = {} /\ more = {}
      <3>1. Cardinality(more) \in Nat /\ (Cardinality(more) = 0 => more = {})
        BY Turns, FailsCount
      <3>2. 0 = forkFails + Cardinality(fails) + Cardinality(more)
        BY <2>1, Zenon
      <3>3. forkFails = 0 /\ Cardinality(fails) = 0 /\ Cardinality(more) = 0
        BY <1>4, <3>1, <3>2
      <3> QED BY <1>4, <3>1, <3>3
    <2>3. Sound(u) /\ EndsKept(t, u) /\ Overrun(t, more, "just_spawn")
      <3>1. g_reconfigure /\ Counted(t)
        BY <1>3, <1>8 DEF Restarts, Counted, Same
      <3> QED BY <1>2, <1>3, <2>2, <3>1, RestartSound
    <2>4. Becomes(u)
      BY <2>1, <2>3, Zenon
    <2> HIDE DEF u, v
    <2>5. Table' = u
      BY <2>3, <2>4, NextTable DEF Sound, Settled
    <2>6. EndsKept(Table, Table')
      BY <1>3, <2>3, <2>5 DEF EndsKept, Same
    <2>7. Orderly(t, mWorkerNum)
      BY <1>7, <2>2, <2>6
    <2>8. Free(t) = {}
      BY <1>8, <2>7 DEF Restarts, Orderly, Manned, Free
    <2>9. u = t
      BY <2>8, FullStarted, Numbers DEF u, WorkerStart
    <2>10. Orderly(Table', mWorkerNum)
      BY <2>5, <2>7, <2>9
    <2> QED BY <1>2, <2>10 DEF Orderly, Stopping
  <1>9. CASE /\ ~Restarts /\ forkFails' = forkFails + Cardinality(fails)
             /\ Becomes(t) \/ Becomes(Ordered(t))
    <2>1. forkFails = 0 /\ fails = {}
      BY <1>4, <1>9
    <2>2. Sound(Ordered(t)) /\ Same(t, Ordered(t))
      BY <1>3, OrderedSound
    <2>3. Table' = t \/ Table' = Ordered(t)
      BY <1>3, <1>9, <2>2, NextTable DEF Sound, Settled
    <2>4. EndsKept(Table, Table')
      BY <1>3, <2>2, <2>3 DEF Same, EndsKept
    <2>5. Orderly(t, mWorkerNum)
      BY <1>7, <2>1, <2>4
    <2>6. Orderly(Ordered(t), mWorkerNum)
      <3>1. CASE ~Stopping
        BY <2>5, <3>1 DEF Ordered, Stopping
      <3>2. CASE Stopping
        <4>1. Ordered(t) = SignalWorker(t, "terminate") \/ Ordered(t) = SignalWorker(t, "quit")
          BY <3>2 DEF Ordered, Stopping
        <4>2. Own(Ordered(t))
          BY <1>3, <2>5, <4>1, SignalSound DEF Orderly
        <4> QED BY <3>2, <4>2 DEF Orderly
      <3> QED BY <3>1, <3>2
    <2>7. Orderly(Table', mWorkerNum)
      BY <2>3, <2>5, <2>6
    <2> QED BY <1>2, <2>7 DEF Orderly, Stopping
  <1> QED BY <1>1, <1>8, <1>9 DEF t

LEMMA QuietChannels ==
    ASSUME ChannelInv, UNCHANGED <<mWorkerPool, fds, proc, mail, forkFails>>, Stopping => Stopping',
           master = "starting" => master' = "starting"
    PROVE  ChannelInv'
  <1>1. Table' = Table
    BY DEF Table
  <1> QED BY <1>1 DEF ChannelInv, Orderly

(* A step of the worker p: what it knows, it still knows.                  *)
LEMMA WorkerChannels ==
    ASSUME TableInv, ChannelInv, Running, UNCHANGED <<flags, mWorkerPool, fds, forkFails>>,
           NEW p \in Pid, Alive(p), ~proc[p].deaf => ~proc'[p].deaf,
           \A q \in Pid \ {p} : proc'[q] = proc[q] /\ mail'[q] = mail[q],
           proc'[p].state = "running" => \A i \in Slot : \A x :
               Knows(proc[p].view[i], mail[p], i, x) => Knows(proc'[p].view[i], mail'[p], i, x)
    PROVE  ChannelInv'
  <1> SUFFICES ASSUME forkFails' = 0, Clean(Table)' PROVE Orderly(Table, mWorkerNum)'
    BY DEF ChannelInv
  <1> DEFINE t == Table
             u == Table'
  <1>1. /\ t.pool = mWorkerPool /\ t.fds = fds /\ t.proc = proc /\ t.mail = mail
        /\ u.pool = t.pool /\ u.fds = t.fds /\ u.proc = proc' /\ u.mail = mail'
    BY DEF Table
  <1>2. t.proc[p].state = "running" /\ master # "starting"
    BY <1>1 DEF Alive, Running
  <1>3. Clean(u) /\ \A q \in Pid \ {p} : u.proc[q] = t.proc[q] /\ u.mail[q] = t.mail[q]
    BY <1>1
  <1>4. ~t.proc[p].deaf => ~u.proc[p].deaf
    BY <1>1
  <1>5. u.proc[p].state = "running" => \A i \in Slot : \A x :
            Knows(t.proc[p].view[i], t.mail[p], i, x) => Knows(u.proc[p].view[i], u.mail[p], i, x)
    BY <1>1
  <1> HIDE DEF t, u
  <1>6. Clean(t)
    BY <1>2, <1>3 DEF Clean
  <1>7. Orderly(t, mWorkerNum)
    BY <1>2, <1>6 DEF ChannelInv, t
  <1>8. Own(u)
    BY <1>1, <1>3, <1>4, <1>7 DEF Orderly, Own
  <1>9. ASSUME ~Stopping PROVE Manned(u, mWorkerNum) /\ Known(u)
    <2>1. Manned(t, mWorkerNum) /\ Known(t)
      BY <1>7, <1>9 DEF Orderly
    <2>2. Manned(u, mWorkerNum)
      BY <1>1, <2>1 DEF Manned
    <2>3. ASSUME NEW q \in Pid, u.proc[q].state = "running", NEW i \in Slot PROVE KnownTo(u, q, i)
      <3>1. t.proc[q].state = "running"
        BY <1>2, <1>3, <2>3
      <3>2. KnownTo(t, q, i)
        BY <2>1, <3>1 DEF Known
      <3>3. CASE q = p
        BY <1>1, <1>5, <2>3, <3>2, <3>3 DEF KnownTo
      <3>4. CASE q # p
        BY <1>1, <1>3, <3>2, <3>4 DEF KnownTo
      <3> QED BY <3>3, <3>4
    <2> QED BY <2>2, <2>3 DEF Known
  <1>10. Stopping' <=> Stopping
    BY DEF Stopping, flags
  <1> QED BY <1>8, <1>9, <1>10 DEF Orderly, u

LEMMA ExitChannels ==
    ASSUME TableInv, ChannelInv, NEW p \in Pid, NEW code \in {0, 1, 2}, Alive(p), Exit(p, code)
    PROVE  ChannelInv'
  <1>1. proc \in [Pid -> Proc]
    BY DEF TableInv, TableSound, Sound, Settled, Tables, Table
  <1>2. /\ proc'[p].state = "zombie" /\ proc'[p].deaf = proc[p].deaf
        /\ \A q \in Pid \ {p} : proc'[q] = proc[q]
    BY <1>1 DEF Exit, Proc
  <1> QED BY <1>2, WorkerChannels DEF Exit

LEMMA RecvChannels == ASSUME TableInv, ChannelInv, NEW p \in Pid, ChannelRecv(p) PROVE ChannelInv'
  <1>1. PICK n \in 1 .. Len(mail[p]) :
          /\ \A i \in 1 .. n - 1 : mail[p][i].type # "open"
          /\ mail' = [mail EXCEPT ![p] = SubSeq(@, n + 1, Len(@))]
          /\ proc' = [proc EXCEPT ![p] = HandledAll(@, SubSeq(mail[p], 1, n))]
    BY DEF ChannelRecv
  <1>2. /\ Running /\ Alive(p)
        /\ UNCHANGED <<flags, mWorkerPool, fds, forkFails>>
    BY DEF ChannelRecv
  <1>3. proc \in [Pid -> Proc] /\ mail \in [Pid -> Seq(Message)]
    BY DEF TableInv, TableSound, Sound, Settled, Tables, Table
  <1> DEFINE a == mail[p]
             ms == SubSeq(a, 1, n)
             rest == SubSeq(a, n + 1, Len(a))
             r == HandledAll(proc[p], ms)
  <1>4. /\ ms \in Seq(Message) /\ Len(ms) = n /\ Len(a) \in Nat
        /\ \A k \in 1 .. n : ms[k] = a[k]
        /\ DOMAIN rest = 1 .. Len(a) - n
        /\ \A k \in 1 .. Len(a) - n : rest[k] = a[n + k]
        /\ DOMAIN a = 1 .. Len(a) /\ n \in 1 .. Len(a)
    <2>1. a \in Seq(Message) /\ n \in 1 .. Len(a)
      BY <1>3
    <2> HIDE DEF a
    <2> QED BY <2>1, Cut
  <1>5. /\ mail' = [mail EXCEPT ![p] = rest] /\ proc' = [proc EXCEPT ![p] = r]
    BY <1>1
  <1>6. \A k \in 1 .. n - 1 : a[k].type # "open"
    BY <1>1
  <1> HIDE DEF ms, rest
  <1>7. proc[p] \in Proc /\ r.deaf = proc[p].deaf
    <2>1. proc[p] \in Proc
      BY <1>3
    <2> QED BY <1>4, <2>1, HandledAllIs
  <1>8. ASSUME NEW i \in Slot, NEW x, Knows(proc[p].view[i], a, i, x)
        PROVE  Knows(r.view[i], rest, i, x)
    <2> DEFINE w == r.view[i]
               v == proc[p].view[i]
    <2>1. Len(ms) > 0 /\ n \in 1 .. n
      BY <1>4
    <2>2. (\A k \in 1 .. Len(ms) : ~About(ms[k], i)) => w = v
      BY <1>4, <1>7, <2>1, HandledAllView
    <2>3. Opens(ms[Len(ms)], i, x) => w \in {x, Wrong}
      BY <1>4, <1>7, <2>1, HandledAllView
    <2>4. Knows(v, a, i, x)
      BY <1>8
    <2> HIDE DEF w, v, a, r
    <2>5. (\A k \in 1 .. n : ~About(a[k], i)) => w = v
      BY <1>4, <2>2
    <2>6. Opens(a[n], i, x) => w \in {x, Wrong}
      BY <1>4, <2>1, <2>3
    <2>7. Left(a, n, rest)
      BY <1>4, <1>6 DEF Left
    <2>8. Learns(a, n, i, x, v, w)
      BY <2>5, <2>6 DEF Learns
    <2>9. Knows(w, rest, i, x)
      BY <2>4, <2>7, <2>8, ReadKnows
    <2> QED BY <2>9 DEF w
  <1> HIDE DEF r
  <1>9. /\ proc'[p] = r /\ mail'[p] = rest
        /\ \A q \in Pid \ {p} : proc'[q] = proc[q] /\ mail'[q] = mail[q]
    BY <1>3, <1>5
  <1>10. ~proc[p].deaf => ~proc'[p].deaf
    BY <1>7, <1>9
  <1>11. \A i \in Slot : \A x :
            Knows(proc[p].view[i], mail[p], i, x) => Knows(proc'[p].view[i], mail'[p], i, x)
    BY <1>8, <1>9
  <1> QED BY <1>2, <1>9, <1>10, <1>11, WorkerChannels

LEMMA QuitsChannels == ASSUME TableInv, ChannelInv, NEW p \in Pid, WorkerQuits(p) PROVE ChannelInv'
  <1>1. proc \in [Pid -> Proc]
    BY DEF TableInv, TableSound, Sound, Settled, Tables, Table
  <1>2. /\ proc'[p].deaf = proc[p].deaf /\ proc'[p].view = proc[p].view
        /\ \A q \in Pid \ {p} : proc'[q] = proc[q]
    BY <1>1 DEF WorkerQuits, Proc
  <1> QED BY <1>2, WorkerChannels DEF WorkerQuits

LEMMA NextChannels == ASSUME TableInv, ChannelInv, [Next]_vars PROVE ChannelInv'
  <1>1. CASE MasterStart
    BY <1>1, StartChannels
  <1>2. CASE Wake
    BY <1>2, QuietChannels DEF Wake, Stopping
  <1>3. CASE HandleSignal
    BY <1>3, HandleChannels
  <1>4. CASE Signal
    BY <1>4, QuietChannels DEF Signal, Stopping, flags
  <1>5. ASSUME NEW p \in Pid, Crash(p) \/ Fatal(p) \/ WorkerExit(p) PROVE ChannelInv'
    BY <1>5, ExitChannels DEF Crash, Fatal, WorkerExit
  <1>6. ASSUME NEW p \in Pid, ChannelRecv(p) PROVE ChannelInv'
    BY <1>6, RecvChannels
  <1>7. ASSUME NEW p \in Pid, WorkerQuits(p) PROVE ChannelInv'
    BY <1>7, QuitsChannels
  <1>8. CASE UNCHANGED vars
    BY <1>8, QuietChannels DEF vars, flags, Stopping
  <1> QED BY <1>1, <1>2, <1>3, <1>4, <1>5, <1>6, <1>7, <1>8 DEF Next, WorkerTurn

(* Channels (wMaster.inl, SpawnWorker, PassOpenChannel and                 *)
(* PassCloseChannel; wChannelTask.cpp): as long as fork() never failed and *)
(* nobody exited with 2, a worker's slot has the worker's own channel, no  *)
(* worker is born deaf, and who has read its mail has for each slot the    *)
(* channel of the master's worker, or a number that is none.               *)
THEOREM ChannelsCorrect == Spec => []Channels
  <1>1. Init => ChannelInv
    BY DEF Init, ChannelInv
  <1>2. TableInv /\ ChannelInv /\ [Next]_vars => ChannelInv'
    BY NextChannels
  <1>3. Spec => []ChannelInv
    BY <1>1, <1>2, Invariance, PTL DEF Spec
  <1>4. TableInv /\ ChannelInv => Channels
    <2> SUFFICES ASSUME TableInv, ChannelInv, ~Faulty PROVE Channels
      BY DEF Channels
    <2>1. forkFails = 0
      BY Numbers DEF TableInv, Types, Faulty
    <2>2. Clean(Table)
      BY DEF Faulty, Clean, Table
    <2>3. Sound(Table)
      BY DEF TableInv, TableSound
    <2>4. ASSUME NEW p \in Pid, Alive(p)
          PROVE  /\ proc[p].slot \in Slot /\ mWorkerPool[proc[p].slot].mPid = p /\ p # -1
                 /\ ~mWorkerPool[proc[p].slot].mExited
      BY <2>3, <2>4, Numbers DEF Sound, Settled, Tables, Proc, Waited, Table, Alive
    <2>5. ASSUME NEW p \in Pid, Alive(p) PROVE Orderly(Table, mWorkerNum)
      <3>1. master # "starting"
        <4> SUFFICES ASSUME Startup(Table, 0) PROVE FALSE
          BY DEF TableInv, Blank
        <4>1. \A i \in Slot : mWorkerPool[i].mPid = -1
          BY Numbers DEF Startup, Table
        <4> QED BY <2>4, <2>5, <4>1
      <3> QED BY <2>1, <2>2, <3>1 DEF ChannelInv
    <2>6. ASSUME NEW p \in Pid, Alive(p) PROVE Pair(Table, proc[p].slot) = p /\ ~proc[p].deaf
      <3>1. Own(Table)
        BY <2>5, <2>6 DEF Orderly
      <3>2. proc[p].slot # FD_UNKNOWN
        BY <2>4, <2>6, Numbers
      <3> QED BY <2>4, <2>6, <3>1, <3>2 DEF Own, Pair, Table
    <2>7. ASSUME Quiet, ~Stopping, NEW p \in Pid, Alive(p), NEW i \in Slot
          PROVE  proc[p].view[i] \in {mWorkerPool[i].mPid, Wrong}
      <3>1. KnownTo(Table, p, i)
        BY <2>5, <2>7 DEF Orderly, Known, Alive, Table
      <3>2. mail[p] = << >>
        BY <2>7 DEF Quiet
      <3>3. DOMAIN mail[p] = {}
        BY <3>2
      <3> QED BY <3>1, <3>3 DEF KnownTo, Knows, Table
    <2> QED BY <2>6, <2>7 DEF Channels
  <1> QED BY <1>3, <1>4, Invariance, PTL
=============================================================================
