------------------------------- MODULE Stream -------------------------------
(***************************************************************************)
(* What one end of a connection, or of a shared memory queue, promises the *)
(* other: the messages handled are the first of the messages accepted, in  *)
(* their order, each whole and each once.  A stream may break; from then   *)
(* on nothing is promised of what is handled.                              *)
(***************************************************************************)
EXTENDS Naturals, Sequences

CONSTANT Message

VARIABLES
    accepted,   \* the messages the writer was told are on their way
    handled,    \* what the reader was given
    broken      \* a fault the stream does not repair has happened

Init == accepted = << >> /\ handled = << >> /\ broken = FALSE

Accept(m) == accepted' = Append(accepted, m) /\ UNCHANGED <<handled, broken>>

(* One read may bring several messages.                                    *)
Handle ==
    /\ \E n \in Len(handled) + 1 .. Len(accepted) : handled' = SubSeq(accepted, 1, n)
    /\ UNCHANGED <<accepted, broken>>

(* The step that breaks the stream may accept a message or handle one.     *)
Break == broken' = TRUE

Next == (\E m \in Message : Accept(m)) \/ Handle \/ Break

Spec == Init /\ [][Next]_<<accepted, handled, broken>>
=============================================================================
