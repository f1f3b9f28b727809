-------------------------------- MODULE Shm ---------------------------------
(***************************************************************************)
(* Shared memory (wShm.cpp) and the lock of several processes that is put  *)
(* in it (wShmtx.cpp, wSem.h).  All processes use one key; the pointers in *)
(* the head of a segment are addresses of the process that wrote it last,  *)
(* and mean the same only in that process and the ones forked from it.     *)
(***************************************************************************)
EXTENDS Integers, FiniteSets

CONSTANTS
    Process,
    Sizes,          \* the values of mSize, in units of what AllocShm is asked for
    HeadSize,       \* sizeof(struct shmhead_t)
    MaxSegments     \* bound: segments the kernel is asked for

VARIABLES
    keyId,          \* the segment that has the key, 0 if none has
    segments,       \* by identifier: what the kernel and the head of each hold
    view,           \* the object wShm of each process, and its mapping
    given,          \* history: what AllocShm returned, and where
    holders,        \* processes that Lock or TryLock has returned 0 to
    mishaps         \* history: what has gone wrong

shmVars == <<keyId, segments, view, given, holders, mishaps>>

(* The ways out of what the code is meant for:                             *)
(*   recreated  CreateShm found the segment and began its head anew        *)
(*   foreign    a pointer of another process was followed                  *)
(*   dangling   the head was read after shmdt()                            *)
(*   other      a segment was removed that is not this one (shmctl of 0)   *)
(*   stray      Unlock was called by a process that does not hold the lock *)
Mishap == {"recreated", "foreign", "dangling", "other", "stray"}

Segment == [size : Sizes, used : Nat, writer : Process, sem : Int]
NoView == [seg |-> 0, mShmId |-> 0, head |-> "none", space |-> 0, locks |-> FALSE]

Ids == DOMAIN segments

Init ==
    /\ keyId = 0 /\ segments = << >>
    /\ view = [p \in Process |-> NoView]
    /\ given = {} /\ holders = {} /\ mishaps = {}

(* p maps the segment id and writes its head.                              *)
Mapped(p, id) == [NoView EXCEPT !.seg = id, !.mShmId = id, !.head = "mapped", !.space = p]
NewSegment(p, n) == [size |-> n, used |-> HeadSize, writer |-> p, sem |-> 0]

-----------------------------------------------------------------------------
(* CreateShm: no segment has the key, or the one that has it is too small  *)
(* and gives the key up, or it is taken over, head and all.                *)
CreateNew(p, n) ==
    /\ view[p].head = "none" /\ Cardinality(Ids) < MaxSegments
    /\ keyId # 0 => segments[keyId].size < n
    /\ keyId' = Cardinality(Ids) + 1
    /\ segments' = [id \in Ids \cup {keyId'} |-> IF id = keyId' THEN NewSegment(p, n) ELSE segments[id]]
    /\ view' = [view EXCEPT ![p] = Mapped(p, keyId')]
    /\ UNCHANGED <<given, holders, mishaps>>

CreateFound(p, n) ==
    /\ view[p].head = "none" /\ keyId # 0 /\ segments[keyId].size >= n
    /\ segments' = [segments EXCEPT ![keyId].used = HeadSize, ![keyId].writer = p]
    /\ view' = [view EXCEPT ![p] = Mapped(p, keyId)]
    /\ mishaps' = mishaps \cup {"recreated"}
    /\ UNCHANGED <<keyId, given, holders>>

CreateShm(p) == \E n \in Sizes : CreateNew(p, n) \/ CreateFound(p, n)

(* AttachShm leaves mShmId as it is: a local variable has its name.        *)
AttachShm(p) ==
    /\ view[p].head = "none"
    /\ \E n \in Sizes : keyId # 0 /\ segments[keyId].size >= n
    /\ view' = [view EXCEPT ![p] = [Mapped(p, keyId) EXCEPT !.mShmId = 0]]
    /\ UNCHANGED <<keyId, segments, given, holders, mishaps>>

(* fork(): the child has its parent's objects at their addresses.          *)
Fork(p, q) ==
    /\ view[p].head = "mapped" /\ view[q] = NoView
    /\ view' = [view EXCEPT ![q] = view[p]]
    /\ UNCHANGED <<keyId, segments, given, holders, mishaps>>

-----------------------------------------------------------------------------
\* Mutant: what is given out may end behind the segment.
FitsAlmost(id, n) == segments[id].used < segments[id].size

(* The comparison is strict: the last of the memory is never given out.    *)
FitsIn(id, n) == segments[id].used + n < segments[id].size

Follows(p) == segments[view[p].seg].writer = view[p].space

(* AllocShm(n), which clears what it gives out, and so resets a lock there. *)
AllocShm(p, n) ==
    LET id == view[p].seg IN
    /\ view[p].head = "mapped"
    /\ \/ /\ Follows(p) /\ FitsIn(id, n)
          /\ segments' = [segments EXCEPT ![id].used = @ + n]
          /\ given' = given \cup {[seg |-> id, from |-> segments[id].used, size |-> n]}
          /\ UNCHANGED mishaps
       \/ /\ ~Follows(p)
          /\ mishaps' = mishaps \cup {"foreign"} /\ UNCHANGED <<segments, given>>
    /\ UNCHANGED <<keyId, view, holders>>

(* FreeShm and the destructor, which calls it again.                       *)
FreeShm(p) ==
    LET id == view[p].mShmId IN
    /\ \/ /\ view[p].head = "mapped"
          /\ view' = [view EXCEPT ![p].head = "dangling", ![p].locks = FALSE]
          /\ keyId' = IF id = keyId THEN 0 ELSE keyId
          /\ mishaps' = IF id = 0 THEN mishaps \cup {"other"} ELSE mishaps
       \/ /\ view[p].head = "dangling"
          /\ mishaps' = mishaps \cup {"dangling"} /\ UNCHANGED <<keyId, view>>
    /\ UNCHANGED <<segments, given, holders>>

-----------------------------------------------------------------------------
(* wSem::Initialize is called with its default.                            *)
mValue == 0

(* wShmtx::Create.  Its caller hands it on to the processes it forks.      *)
CreateMutex(p) ==
    /\ view[p].head = "mapped" /\ ~view[p].locks /\ Follows(p) /\ FitsIn(view[p].seg, 1)
    /\ segments' = [segments EXCEPT ![view[p].seg].used = @ + 1, ![view[p].seg].sem = mValue]
    /\ given' = given \cup {[seg |-> view[p].seg, from |-> segments[view[p].seg].used, size |-> 1]}
    /\ view' = [view EXCEPT ![p].locks = TRUE]
    /\ UNCHANGED <<keyId, holders, mishaps>>

(* Lock, TryLock and LockSpin return when the value is positive; TryLock   *)
(* returns an error otherwise, and the others wait: LockSpin in pause(),   *)
(* for a signal, and Lock in a semaphore not made for several processes.   *)
Lock(p) ==
    /\ view[p].locks /\ segments[view[p].seg].sem > 0 /\ p \notin holders
    /\ segments' = [segments EXCEPT ![view[p].seg].sem = @ - 1]
    /\ holders' = holders \cup {p}
    /\ UNCHANGED <<keyId, view, given, mishaps>>

Unlock(p) ==
    /\ view[p].locks /\ segments[view[p].seg].sem < 1      \* bound
    /\ segments' = [segments EXCEPT ![view[p].seg].sem = @ + 1]
    /\ holders' = holders \ {p}
    /\ mishaps' = IF p \in holders THEN mishaps ELSE mishaps \cup {"stray"}
    /\ UNCHANGED <<keyId, view, given>>

Next ==
    \E p \in Process :
        \/ CreateShm(p) \/ AttachShm(p) \/ FreeShm(p)
        \/ \E q \in Process : Fork(p, q)
        \/ AllocShm(p, 2) \/ CreateMutex(p) \/ Lock(p) \/ Unlock(p)

Spec == Init /\ [][Next]_shmVars

-----------------------------------------------------------------------------
TypeOK ==
    /\ keyId \in Ids \cup {0}
    /\ \A id \in Ids : segments[id] \in Segment
    /\ \A p \in Process : view[p].head = "mapped" => view[p].seg \in Ids
    /\ holders \subseteq Process /\ mishaps \subseteq Mishap

(* Until a segment has been created twice, AllocShm gives out each piece   *)
(* of it once, behind the head and before the end.                         *)
Disjoint ==
    "recreated" \notin mishaps =>
        \A a, b \in given :
            /\ a.from >= HeadSize /\ a.from + a.size <= segments[a.seg].size
            /\ a.seg = b.seg /\ a # b => a.from + a.size <= b.from \/ b.from + b.size <= a.from

(* The lock begins taken: nobody enters before somebody who does not hold  *)
(* it has released it.                                                     *)
BeginsTaken == "stray" \notin mishaps => holders = {}
=============================================================================
