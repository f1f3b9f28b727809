------------------------------ MODULE MemPool -------------------------------
(***************************************************************************)
(* The memory pool (wMemPool.cpp).  Addresses are numbers, NULL is 0.  The *)
(* programs make one of 16M and never allocate from it.                    *)
(***************************************************************************)
EXTENDS Integers, FiniteSets

CONSTANTS
    mStart, mEnd,   \* the piece that memalign() has given to Create
    ALIGNMENT,
    Asked,          \* the sizes asked for
    MaxAllocs       \* bound

VARIABLES
    mLast,
    mExtra,         \* the pieces that did not come out of the pool
    given,          \* what Alloc has returned since the last Reset
    trouble         \* history: "outside" and "twice"

poolVars == <<mLast, mExtra, given, trouble>>

Init == mLast = mStart /\ mExtra = {} /\ given = {} /\ trouble = {}

ALIGN_PTR(p) == ((p + ALIGNMENT - 1) \div ALIGNMENT) * ALIGNMENT

(* The comparison is made with m, which is still NULL.                     *)
InPool(m, size) == m + size <= mEnd

(* mLast after a piece of size at m.                                       *)
LastAfter(m, size) == m + size

Alloc(size) ==
    /\ Cardinality(given) + Cardinality(mExtra) < MaxAllocs
    /\ IF InPool(0, size)
       THEN /\ given' = given \cup {[from |-> ALIGN_PTR(mLast), size |-> size]}
            /\ mLast' = LastAfter(ALIGN_PTR(mLast), size)
            /\ trouble' = IF mLast' > mEnd THEN trouble \cup {"outside"} ELSE trouble
            /\ UNCHANGED mExtra
       ELSE /\ mExtra' = mExtra \cup {[nth |-> Cardinality(mExtra), size |-> size, freed |-> FALSE]}
            /\ UNCHANGED <<mLast, given, trouble>>

(* Reset frees the other pieces and keeps them in its list.                *)
Reset ==
    /\ mLast' = mStart /\ given' = {}
    /\ mExtra' = {[e EXCEPT !.freed = TRUE] : e \in mExtra}
    /\ trouble' = IF \E e \in mExtra : e.freed THEN trouble \cup {"twice"} ELSE trouble

Next == (\E size \in Asked : Alloc(size)) \/ Reset

Spec == Init /\ [][Next]_poolVars

-----------------------------------------------------------------------------
TypeOK ==
    /\ mLast \in Nat /\ trouble \subseteq {"outside", "twice"}
    /\ \A e \in mExtra : e.freed \in BOOLEAN

(* What Alloc gives out is aligned and in no other piece, and within the   *)
(* pool for as long as it has not run past its end.                        *)
Pieces ==
    /\ \A a \in given : a.from % ALIGNMENT = 0 /\ a.from >= mStart
    /\ \A a, b \in given : a # b => a.from + a.size <= b.from \/ b.from + b.size <= a.from
    /\ "outside" \notin trouble => \A a \in given : a.from + a.size <= mEnd
=============================================================================
