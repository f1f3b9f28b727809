----------------------------- MODULE DetectBoard -----------------------------
(***************************************************************************)
(* What the QoS engine may rely on of the detect thread: for every host    *)
(* and port one answer, which the engine asks for, reads and gives up.     *)
(* SvrQos makes the same assumption of its variable detect (AddDetect,     *)
(* DetectProbe, DetectForget); DetectThread is shown to implement it.      *)
(***************************************************************************)
CONSTANT Host

VARIABLES
  detect,    \* the answer about a host and port
  client     \* one RebuildErrRoute of the engine: hosts to read about, to
             \* ask for and to give up

Answer == {"none", "bad", "nopri", "ok"}
Client == [todo : SUBSET Host, add : SUBSET Host, del : SUBSET Host]
NoCall == [todo |-> {}, add |-> {}, del |-> {}]

Init == detect = [h \in Host |-> "none"] /\ client = NoCall

RebuildErrRoute ==
  /\ client = NoCall
  /\ \E S \in SUBSET Host : client' = [NoCall EXCEPT !.todo = S]
  /\ UNCHANGED detect

\* An unknown host is asked for, and so may be one still without a result; one
\* that accepted a connection is given up.
Read(h) ==
  /\ h \in client.todo
  /\ \/ /\ detect[h] \in {"none", "bad"}
        /\ client' = [client EXCEPT !.todo = @ \ {h}, !.add = @ \cup {h}]
     \/ /\ detect[h] \in {"bad", "nopri"}
        /\ client' = [client EXCEPT !.todo = @ \ {h}]
     \/ /\ detect[h] = "ok"
        /\ client' = [client EXCEPT !.todo = @ \ {h}, !.del = @ \cup {h}]
  /\ UNCHANGED detect

\* From here on every host that was asked for is on the board.
AddDetect ==
  /\ client.todo = {} /\ client.add # {}
  /\ detect' = [h \in Host |-> IF h \in client.add /\ detect[h] = "none"
                               THEN "bad" ELSE detect[h]]
  /\ client' = [client EXCEPT !.add = {}]

\* What is given up is taken down now or later.
DelDetect ==
  /\ client.todo = {} /\ client.add = {} /\ client.del # {}
  /\ \E S \in SUBSET client.del :
       detect' = [h \in Host |-> IF h \in S THEN "none" ELSE detect[h]]
  /\ client' = [client EXCEPT !.del = {}]

Probe(h) ==
  /\ detect[h] # "none"
  /\ \E r \in Answer \ {"none"} : detect' = [detect EXCEPT ![h] = r]
  /\ UNCHANGED client

\* Answers taken down together: the host is off the board, or on it without a
\* result when it was asked for again.
Forget ==
  /\ \E f \in [Host -> {"keep", "none", "bad"}] :
       /\ \A h \in Host : detect[h] = "none" => f[h] = "keep"
       /\ detect' = [h \in Host |-> IF f[h] = "keep" THEN detect[h] ELSE f[h]]
  /\ UNCHANGED client

Next ==
  \/ RebuildErrRoute
  \/ \E h \in Host : Read(h)
  \/ AddDetect
  \/ DelDetect
  \/ \E h \in Host : Probe(h)
  \/ Forget

Spec == Init /\ [][Next]_<<detect, client>>
==============================================================================
