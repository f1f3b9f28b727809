------------------------ MODULE DetectThread_proofs ------------------------
(***************************************************************************)
(* The safety of the detect thread, for any hosts and any size of its map, *)
(* and that it implements the board of answers the QoS engine works with.  *)
(*                                                                         *)
(* To the properties of the runs the inductive invariant IInv adds what a  *)
(* pass has left to do at each of its places (PassOK) and that a result in *)
(* the map is whole, and that of a probe, unless it is being written       *)
(* (ResultsOK).                                                            *)
(***************************************************************************)
EXTENDS DetectThread, FiniteSetTheorems, TLAPS

PassOK ==
  /\ thread.pc # "delete" => thread.del = {}
  /\ thread.pc \notin {"delete", "new"} => thread.add = {}
  /\ thread.pc # "all" => thread.todo = {}
  /\ thread.pc \notin {"all", "expire"} => thread.expire = {}
  /\ thread.pc \notin {"new", "all"} => thread.probe = NoProbe

UnderProbe(h) == thread.probe # NoProbe /\ thread.probe.node = h

ResultsOK ==
  \A h \in DOMAIN mDetectMapAll :
    LET r == mDetectMapAll[h]
    IN  /\ ~r.done => UnderProbe(h)
        /\ r.type = "tcp" /\ r.rc # "zero" => UnderProbe(h) /\ thread.probe.left # Field

IInv == TypeOK /\ LaterRequestWins /\ Bounded /\ PassOK /\ ResultsOK

-----------------------------------------------------------------------------
(* Results and maps.                                                       *)

\* The fields of a probe in progress.
LEMMA ProbeFields ==
  ASSUME NEW p \in Probe \cup {NoProbe}, p # NoProbe
  PROVE  /\ p \in Probe /\ p.node \in Host /\ p.found \in Found
         /\ p.left \subseteq Field /\ p.left # {}
  BY DEF Probe

\* What a probe finds: a connection is only accepted by a host that answers.
LEMMA FoundFields ==
  ASSUME NEW f \in Found
  PROVE  /\ f.rc \in {"fail", "nopri", "zero"} /\ f.type \in {"unknown", "ping", "tcp"}
         /\ f.type = "tcp" => f.rc = "zero"
  BY DEF Found

\* There is no probe without fields left to write.
LEMMA NoProbeLeft ==
  ASSUME NEW p \in Probe \cup {NoProbe}
  PROVE  p = NoProbe <=> p.left = {}
  BY DEF Probe, NoProbe

\* A result being written stays a result.
LEMMA WriteType ==
  ASSUME NEW r \in Result, NEW left, NEW f \in Found
  PROVE  /\ Write(r, left, f) \in Result
         /\ Write(r, left, f).rc = IF "rc" \in left THEN r.rc ELSE f.rc
         /\ Write(r, left, f).type = IF "type" \in left THEN r.type ELSE f.type
         /\ Write(r, left, f).done = IF left = {} THEN TRUE ELSE r.done
  BY FoundFields DEF Write, Result

\* A map without some of its entries, and a map with one more or a new one.
LEMMA DropMap ==
  ASSUME NEW f, NEW S
  PROVE  /\ DOMAIN Drop(f, S) = DOMAIN f \ S
         /\ \A h \in DOMAIN f \ S : Drop(f, S)[h] = f[h]
  BY DEF Drop
LEMMA WithType ==
  ASSUME NEW f, NEW h, NEW V, NEW v \in V, f \in [DOMAIN f -> V]
  PROVE  With(f, h, v) \in [DOMAIN f \cup {h} -> V]
  BY DEF With

\* The passing of time changes no answer.
LEMMA PassedMap ==
  ASSUME NEW f, f \in [DOMAIN f -> Result], NEW due, NEW expired
  PROVE  /\ DOMAIN Passed(f, due, expired) = DOMAIN f
         /\ Passed(f, due, expired) \in [DOMAIN f -> Result]
         /\ \A h \in DOMAIN f :
              LET r == Passed(f, due, expired)[h]
              IN  r \in Result /\ r.rc = f[h].rc /\ r.type = f[h].type /\ r.done = f[h].done
<1>1. DOMAIN Passed(f, due, expired) = DOMAIN f
  BY DEF Passed
<1>2. ASSUME NEW h \in DOMAIN f
      PROVE  LET r == Passed(f, due, expired)[h]
             IN  r \in Result /\ r.rc = f[h].rc /\ r.type = f[h].type /\ r.done = f[h].done
  <2>1. f[h] \in Result
    OBVIOUS
  <2>2. \E d, e \in BOOLEAN :
          Passed(f, due, expired)[h] = [f[h] EXCEPT !.due = d, !.expired = e]
    BY <2>1 DEF Passed, Result
  <2> QED BY <2>1, <2>2 DEF Result
<1>3. Passed(f, due, expired) \in [DOMAIN f -> Result]
  BY <1>1, <1>2 DEF Passed
<1> QED BY <1>1, <1>2, <1>3

\* The empty map has room.
LEMMA EmptyMap == DOMAIN Empty = {} /\ Cardinality(DOMAIN Empty) < mDetectMaxNode
  BY FS_EmptySet, DetectAssumption DEF Empty

-----------------------------------------------------------------------------
(* The inductive invariant, one lemma per action.                          *)

\* The engine starts the thread with nothing to do.
LEMMA InitInv == Init => IInv
<1> SUFFICES ASSUME Init PROVE IInv
  OBVIOUS
<1>1. TypeOK
  BY EmptyMap DEF Init, TypeOK, Thread, Client, NoCall, Empty
<1>2. LaterRequestWins /\ PassOK
  BY DEF Init, LaterRequestWins, PassOK
<1>3. Bounded /\ ResultsOK
  BY EmptyMap DEF Init, Bounded, ResultsOK
<1> QED BY <1>1, <1>2, <1>3 DEF IInv

\* The calls of the engine change its own state and the two queues.
LEMMA ClientInv ==
  ASSUME IInv,
         \/ RebuildErrRoute
         \/ \E h \in Host : GetDetectResult(h)
         \/ AddDetect
         \/ DelDetect
  PROVE  IInv'
<1> USE DEF IInv
<1>1. UNCHANGED <<mDetectMapAll, thread>>
  BY DEF RebuildErrRoute, GetDetectResult, AddDetect, DelDetect
<1>2. Bounded' /\ PassOK' /\ ResultsOK'
  BY <1>1 DEF Bounded, PassOK, ResultsOK, UnderProbe
<1>3. CASE RebuildErrRoute
  BY <1>1, <1>2, <1>3 DEF RebuildErrRoute, TypeOK, LaterRequestWins, Client, NoCall
<1>4. CASE \E h \in Host : GetDetectResult(h)
  <2>1. PICK h \in Host : GetDetectResult(h)
    BY <1>4
  <2>2. client \in Client => client' \in Client
    BY <2>1 DEF GetDetectResult, Client
  <2> QED BY <1>1, <1>2, <2>1, <2>2 DEF GetDetectResult, TypeOK, LaterRequestWins
<1>5. CASE AddDetect
  BY <1>1, <1>2, <1>5 DEF AddDetect, TypeOK, LaterRequestWins, Client
<1>6. CASE DelDetect
  BY <1>1, <1>2, <1>6 DEF DelDetect, TypeOK, LaterRequestWins, Client
<1> QED BY <1>3, <1>4, <1>5, <1>6

\* The queues are taken only between two passes, when the last has left nothing
\* to do, and the times of the results pass.
LEMMA TakeQueuesInv == ASSUME IInv, TakeQueues PROVE IInv'
<1> USE DEF IInv
<1>1. CASE mDetectMapNewadd = {} /\ mDetectMapAll = Empty
  BY <1>1 DEF TakeQueues, TypeOK, LaterRequestWins, Bounded, PassOK, ResultsOK, UnderProbe
<1>2. CASE ~(mDetectMapNewadd = {} /\ mDetectMapAll = Empty)
  <2>1. PICK due \in SUBSET DOMAIN mDetectMapAll, expired \in SUBSET DOMAIN mDetectMapAll,
             late \in SUBSET mDetectMapNewadd :
          /\ mDetectMapAll' = Passed(mDetectMapAll, due, expired)
          /\ thread' = [thread EXCEPT !.pc = "delete", !.add = mDetectMapNewadd,
                                      !.late = late, !.del = mDetectMapNewdel]
    BY <1>2 DEF TakeQueues
  <2>2. /\ thread.pc = "take" /\ thread.probe = NoProbe
        /\ mDetectMapNewadd' = {} /\ mDetectMapNewdel' = {} /\ client' = client
    BY <1>2 DEF TakeQueues, PassOK
  <2>3. /\ DOMAIN mDetectMapAll' = DOMAIN mDetectMapAll
        /\ mDetectMapAll' \in [DOMAIN mDetectMapAll -> Result]
        /\ \A h \in DOMAIN mDetectMapAll :
             /\ mDetectMapAll'[h].rc = mDetectMapAll[h].rc
             /\ mDetectMapAll'[h].type = mDetectMapAll[h].type
             /\ mDetectMapAll'[h].done = mDetectMapAll[h].done
    BY <2>1, PassedMap DEF TypeOK
  <2>4. /\ thread' \in Thread
        /\ thread'.pc = "delete" /\ thread'.add = mDetectMapNewadd
        /\ thread'.del = mDetectMapNewdel /\ thread'.todo = thread.todo
        /\ thread'.expire = thread.expire /\ thread'.probe = thread.probe
    BY <2>1 DEF TypeOK, Thread
  <2>5. TypeOK'
    BY <2>1, <2>2, <2>3, <2>4 DEF TypeOK
  <2>6. LaterRequestWins' /\ Bounded' /\ PassOK'
    BY <2>2, <2>4 DEF LaterRequestWins, Bounded, PassOK
  <2>7. ResultsOK'
    BY <2>2, <2>3, <2>4 DEF ResultsOK, UnderProbe
  <2> QED BY <2>5, <2>6, <2>7
<1> QED BY <1>1, <1>2

\* Entries that are deleted between two probes leave only whole results.
LEMMA DeletionInv ==
  ASSUME IInv, NEW S,
         \/ DeleteNodes /\ S = thread.del
         \/ DeleteExpired /\ S = thread.expire
  PROVE  IInv'
<1> USE DEF IInv
<1>1. /\ mDetectMapAll' = Drop(mDetectMapAll, S)
      /\ UNCHANGED <<mDetectMapNewadd, mDetectMapNewdel, client>>
  BY DEF DeleteNodes, DeleteExpired
<1>2. /\ thread.probe = NoProbe /\ thread.todo = {}
      /\ thread' \in Thread /\ thread'.todo = {} /\ thread'.expire = {}
      /\ thread'.probe = NoProbe /\ thread'.pc # "take" /\ thread'.add = thread.add
      /\ thread'.del = {} /\ (thread'.pc = "new" \/ thread.add = {})
  <2>1. thread \in Thread
    BY DEF TypeOK
  <2>2. CASE DeleteNodes /\ S = thread.del
    BY <2>1, <2>2 DEF DeleteNodes, Thread, PassOK
  <2>3. CASE DeleteExpired /\ S = thread.expire
    BY <2>1, <2>3 DEF DeleteExpired, Thread, PassOK
  <2> QED BY <2>2, <2>3
<1>3. /\ DOMAIN mDetectMapAll' = DOMAIN mDetectMapAll \ S
      /\ \A h \in DOMAIN mDetectMapAll \ S : mDetectMapAll'[h] = mDetectMapAll[h]
  BY <1>1, DropMap
<1>4. mDetectMapAll' \in [DOMAIN mDetectMapAll' -> Result]
  BY <1>1, <1>3, DropMap DEF TypeOK, Drop
<1>5. TypeOK'
  BY <1>1, <1>2, <1>3, <1>4 DEF TypeOK
<1>6. LaterRequestWins' /\ Bounded' /\ PassOK'
  BY <1>1, <1>2 DEF LaterRequestWins, Bounded, PassOK
<1>7. ResultsOK'
  BY <1>2, <1>3 DEF ResultsOK, UnderProbe
<1> QED BY <1>5, <1>6, <1>7

\* A probe that starts has all its fields to write.
LEMMA DetectType ==
  ASSUME NEW h \in Host, NEW found \in Found
  PROVE  LET p == DoDetectNode(h, found)
         IN  /\ p \in Probe /\ p # NoProbe
             /\ p.node = h /\ p.found = found /\ p.left = Field
  BY DEF DoDetectNode, Probe, NoProbe, Field

\* A result that was just made.
LEMMA FreshType ==
  ASSUME NEW h
  PROVE  LET r == FreshResult(h)
         IN  r \in Result /\ ~r.done /\ r.rc = "init" /\ r.type = "unknown"
  BY DEF FreshResult, Result

\* A new entry is under probe as soon as it is in the map.
LEMMA ProbeNewInv == ASSUME IInv, ProbeNew PROVE IInv'
<1> USE DEF IInv
<1>0. /\ thread.pc = "new" /\ thread.probe = NoProbe /\ thread \in Thread
      /\ UNCHANGED <<mDetectMapNewadd, mDetectMapNewdel, client>>
      /\ thread.todo = {} /\ thread.expire = {} /\ thread.del = {}
  BY DEF ProbeNew, PassOK, TypeOK
<1>1. CASE thread.add = {}
  <2>1. /\ mDetectMapAll' = mDetectMapAll
        /\ thread' = [thread EXCEPT !.pc = "all", !.todo = DOMAIN mDetectMapAll]
    BY <1>1 DEF ProbeNew
  <2>2. /\ thread' \in Thread /\ thread'.pc = "all" /\ thread'.todo = DOMAIN mDetectMapAll
        /\ thread'.add = {} /\ thread'.expire = {} /\ thread'.del = {}
        /\ thread'.probe = NoProbe
    BY <1>0, <1>1, <2>1 DEF Thread, TypeOK
  <2>3. TypeOK'
    BY <1>0, <2>1, <2>2 DEF TypeOK
  <2>4. LaterRequestWins' /\ Bounded' /\ PassOK' /\ ResultsOK'
    BY <1>0, <2>1, <2>2 DEF LaterRequestWins, Bounded, PassOK, ResultsOK, UnderProbe
  <2> QED BY <2>3, <2>4
<1>2. CASE thread.add # {}
  <2> DEFINE known(h) == h \in DOMAIN mDetectMapAll
             res(h)   == IF known(h) THEN mDetectMapAll[h] ELSE FreshResult(h)
  <2>1. PICK h \in thread.add, found \in Found :
          /\ mDetectMapAll' = IF known(h) THEN mDetectMapAll ELSE With(mDetectMapAll, h, res(h))
          /\ thread' = [thread EXCEPT
               !.add   = @ \ {h},
               !.late  = @ \ {h},
               !.probe = IF Due(res(h)) THEN DoDetectNode(h, found) ELSE @]
    BY <1>2 DEF ProbeNew
  <2>2. h \in Host
    BY <1>0 DEF Thread
  <2>3. PICK p \in Probe \cup {NoProbe} :
          /\ p = IF Due(res(h)) THEN DoDetectNode(h, found) ELSE NoProbe
          /\ thread' = [thread EXCEPT !.add = @ \ {h}, !.late = @ \ {h}, !.probe = p]
    BY <1>0, <2>1, <2>2, DetectType
  <2>4. /\ thread' \in Thread /\ thread'.pc = "new" /\ thread'.probe = p
        /\ thread'.add = thread.add \ {h} /\ thread'.del = {}
        /\ thread'.todo = {} /\ thread'.expire = {}
    BY <1>0, <2>3 DEF Thread
  <2>5. p # NoProbe => p.node = h /\ p.left = Field
    BY <2>2, <2>3, DetectType
  <2>6. LaterRequestWins' /\ Bounded' /\ PassOK'
    BY <1>0, <2>4 DEF LaterRequestWins, Bounded, PassOK
  <2>7. CASE known(h)
    <3>1. mDetectMapAll' = mDetectMapAll
      BY <2>1, <2>7
    <3>2. TypeOK'
      BY <1>0, <2>4, <2>5, <2>7, <3>1 DEF TypeOK
    <3>3. ResultsOK'
      BY <1>0, <3>1 DEF ResultsOK, UnderProbe
    <3> QED BY <2>6, <3>2, <3>3
  <2>8. CASE ~known(h)
    <3>1. /\ mDetectMapAll' = With(mDetectMapAll, h, FreshResult(h))
          /\ p = DoDetectNode(h, found) /\ p # NoProbe
      <4>1. res(h) = FreshResult(h)
        BY <2>8
      <4>2. Due(res(h))
        BY <4>1, FreshType DEF Due
      <4> QED BY <2>1, <2>2, <2>3, <2>8, <4>1, <4>2, DetectType
    <3>2. /\ DOMAIN mDetectMapAll' = DOMAIN mDetectMapAll \cup {h}
          /\ mDetectMapAll'[h] = FreshResult(h)
          /\ \A x \in DOMAIN mDetectMapAll \ {h} : mDetectMapAll'[x] = mDetectMapAll[x]
      <4> DEFINE new == With(mDetectMapAll, h, FreshResult(h))
      <4>1. /\ DOMAIN new = DOMAIN mDetectMapAll \cup {h}
            /\ new[h] = FreshResult(h)
            /\ \A x \in DOMAIN mDetectMapAll \ {h} : new[x] = mDetectMapAll[x]
        BY DEF With
      <4> QED BY <3>1, <4>1
    <3>3. mDetectMapAll' \in [DOMAIN mDetectMapAll' -> Result]
      <4>1. mDetectMapAll \in [DOMAIN mDetectMapAll -> Result] /\ FreshResult(h) \in Result
        BY FreshType DEF TypeOK
      <4>2. With(mDetectMapAll, h, FreshResult(h)) \in [DOMAIN mDetectMapAll \cup {h} -> Result]
        BY <4>1, WithType
      <4> QED BY <3>1, <3>2, <4>2
    <3>4. TypeOK'
      BY <1>0, <2>2, <2>4, <2>5, <3>2, <3>3 DEF TypeOK
    <3>5. ResultsOK'
      BY <1>0, <2>4, <2>5, <2>8, <3>1, <3>2, FreshType DEF ResultsOK, UnderProbe
    <3> QED BY <2>6, <3>4, <3>5
  <2> QED BY <2>7, <2>8
<1> QED BY <1>1, <1>2

\* The second loop visits what is in the map.
LEMMA ProbeAllInv == ASSUME IInv, ProbeAll PROVE IInv'
<1> USE DEF IInv
<1>0. /\ thread.pc = "all" /\ thread.probe = NoProbe /\ thread \in Thread
      /\ UNCHANGED <<mDetectMapAll, mDetectMapNewadd, mDetectMapNewdel, client>>
      /\ thread.add = {} /\ thread.del = {}
  BY DEF ProbeAll, PassOK, TypeOK
<1>2. /\ thread' \in Thread /\ thread'.pc \in {"all", "expire"}
      /\ thread'.todo \subseteq DOMAIN mDetectMapAll
      /\ thread'.expire \subseteq DOMAIN mDetectMapAll
      /\ thread'.pc = "expire" => thread'.todo = {} /\ thread'.probe = NoProbe
      /\ thread'.probe # NoProbe => thread'.probe.node \in DOMAIN mDetectMapAll
      /\ thread'.add = {} /\ thread'.del = {}
  <2>1. CASE thread.todo = {}
    <3>1. thread' = [thread EXCEPT !.pc = "expire"]
      BY <2>1 DEF ProbeAll
    <3> QED BY <1>0, <2>1, <3>1 DEF Thread, TypeOK
  <2>2. CASE thread.todo # {}
    <3>1. PICK h \in thread.todo, found \in Found :
            thread' = [thread EXCEPT
              !.todo   = @ \ {h},
              !.expire = IF mDetectMapAll[h].expired THEN @ \cup {h} ELSE @,
              !.probe  = IF ~mDetectMapAll[h].expired /\ Due(mDetectMapAll[h])
                         THEN DoDetectNode(h, found) ELSE @]
      BY <2>2 DEF ProbeAll
    <3>2. h \in DOMAIN mDetectMapAll /\ h \in Host
      BY DEF TypeOK
    <3>3. PICK p \in Probe \cup {NoProbe}, e \in SUBSET DOMAIN mDetectMapAll :
            /\ thread' = [thread EXCEPT !.todo = @ \ {h}, !.expire = e, !.probe = p]
            /\ p # NoProbe => p.node = h
      <4>1. DoDetectNode(h, found) \in Probe /\ DoDetectNode(h, found).node = h
        BY <3>2, DetectType
      <4>2. \E e \in SUBSET DOMAIN mDetectMapAll :
              e = IF mDetectMapAll[h].expired THEN thread.expire \cup {h} ELSE thread.expire
        BY <3>2 DEF TypeOK
      <4>3. \E p \in Probe \cup {NoProbe} :
              /\ p = IF ~mDetectMapAll[h].expired /\ Due(mDetectMapAll[h])
                     THEN DoDetectNode(h, found) ELSE thread.probe
              /\ p # NoProbe => p.node = h
        BY <1>0, <4>1
      <4> QED BY <3>1, <4>2, <4>3
    <3> QED BY <1>0, <3>2, <3>3 DEF Thread, TypeOK
  <2> QED BY <2>1, <2>2
<1>3. TypeOK'
  BY <1>0, <1>2 DEF TypeOK
<1>4. LaterRequestWins' /\ Bounded' /\ PassOK' /\ ResultsOK'
  BY <1>0, <1>2 DEF LaterRequestWins, Bounded, PassOK, ResultsOK, UnderProbe
<1> QED BY <1>3, <1>4

\* What the write of one field does: the entry of the probe (of h, which found
\* f and has the fields old to write) is still there, and has all fields but
\* left; the probe is then p.
WriteOf(h, f, old, left, p) ==
  /\ thread.probe # NoProbe /\ thread.probe.node = h /\ thread.probe.found = f
  /\ thread.probe.left = old /\ \E field \in old : left = old \ {field}
  /\ DOMAIN mDetectMapAll' = DOMAIN mDetectMapAll
  /\ mDetectMapAll' \in [DOMAIN mDetectMapAll -> Result]
  /\ mDetectMapAll'[h] = Write(mDetectMapAll[h], left, f)
  /\ \A x \in DOMAIN mDetectMapAll \ {h} : mDetectMapAll'[x] = mDetectMapAll[x]
  /\ thread' = [thread EXCEPT !.probe = p]
  /\ IF left = {} THEN p = NoProbe
     ELSE p # NoProbe /\ p.node = h /\ p.found = f /\ p.left = left
  /\ UNCHANGED <<mDetectMapNewadd, mDetectMapNewdel, client>>
LEMMA WriteStep ==
  ASSUME IInv, WriteResult
  PROVE  \E h \in DOMAIN mDetectMapAll, f \in Found, old \in SUBSET Field,
            left \in SUBSET Field, p \in Probe \cup {NoProbe} :
           WriteOf(h, f, old, left, p)
<1> USE DEF IInv
<1> DEFINE p == thread.probe
<1>1. PICK field \in p.left :
        /\ mDetectMapAll' = [mDetectMapAll EXCEPT ![p.node] = Write(@, p.left \ {field}, p.found)]
        /\ thread' = [thread EXCEPT
             !.probe = IF p.left \ {field} = {} THEN NoProbe ELSE [@ EXCEPT !.left = p.left \ {field}]]
  BY DEF WriteResult
<1>2. thread \in Thread /\ p \in Probe \cup {NoProbe}
  BY DEF TypeOK, Thread
<1>3. p # NoProbe
  BY <1>1, <1>2, NoProbeLeft
<1>4. /\ p \in Probe /\ p.found \in Found /\ p.left \subseteq Field
      /\ p.node \in DOMAIN mDetectMapAll
  BY <1>2, <1>3, ProbeFields DEF TypeOK
<1>5. mDetectMapAll[p.node] \in Result
  BY <1>4 DEF TypeOK
<1>6. Write(mDetectMapAll[p.node], p.left \ {field}, p.found) \in Result
  BY <1>4, <1>5, WriteType
<1>7. /\ DOMAIN mDetectMapAll' = DOMAIN mDetectMapAll
      /\ mDetectMapAll' \in [DOMAIN mDetectMapAll -> Result]
      /\ mDetectMapAll'[p.node] = Write(mDetectMapAll[p.node], p.left \ {field}, p.found)
      /\ \A x \in DOMAIN mDetectMapAll \ {p.node} : mDetectMapAll'[x] = mDetectMapAll[x]
  BY <1>1, <1>4, <1>6 DEF TypeOK
<1>8. \E q \in Probe \cup {NoProbe} :
        /\ thread' = [thread EXCEPT !.probe = q]
        /\ IF p.left \ {field} = {} THEN q = NoProbe
           ELSE q # NoProbe /\ q.node = p.node /\ q.found = p.found /\ q.left = p.left \ {field}
  <2>1. CASE p.left \ {field} = {}
    BY <1>1, <2>1
  <2>2. CASE p.left \ {field} # {}
    <3> DEFINE q == [p EXCEPT !.left = p.left \ {field}]
    <3>1. /\ q \in Probe /\ q.node = p.node /\ q.found = p.found
          /\ q.left = p.left \ {field}
      BY <1>4, <2>2 DEF Probe
    <3>2. q # NoProbe
      BY <3>1, <2>2 DEF NoProbe
    <3> QED BY <1>1, <2>2, <3>1, <3>2
  <2> QED BY <2>1, <2>2
<1>9. UNCHANGED <<mDetectMapNewadd, mDetectMapNewdel, client>>
  BY DEF WriteResult
<1> HIDE DEF p, IInv
<1>10. p.left \ {field} \in SUBSET Field /\ \E x \in p.left : p.left \ {field} = p.left \ {x}
  BY <1>4
<1>11. PICK q \in Probe \cup {NoProbe} :
         /\ thread' = [thread EXCEPT !.probe = q]
         /\ IF p.left \ {field} = {} THEN q = NoProbe
            ELSE q # NoProbe /\ q.node = p.node /\ q.found = p.found /\ q.left = p.left \ {field}
  BY <1>8
<1>12. WriteOf(p.node, p.found, p.left, p.left \ {field}, q)
  BY <1>3, <1>7, <1>9, <1>10, <1>11 DEF WriteOf, p
<1> QED BY <1>4, <1>10, <1>11, <1>12

\* Between two writes the result is under probe; after the last it is whole.
LEMMA WriteResultInv == ASSUME IInv, WriteResult PROVE IInv'
<1> USE DEF IInv
<1>1. PICK h \in DOMAIN mDetectMapAll, f \in Found, old \in SUBSET Field,
           left \in SUBSET Field, p \in Probe \cup {NoProbe} :
        WriteOf(h, f, old, left, p)
  BY WriteStep
<1> USE DEF WriteOf
<1>2. /\ thread' \in Thread /\ thread'.probe = p /\ thread'.pc = thread.pc
      /\ thread'.add = thread.add /\ thread'.del = thread.del
      /\ thread'.todo = thread.todo /\ thread'.expire = thread.expire
  BY <1>1 DEF TypeOK, Thread
<1>3. TypeOK'
  BY <1>1, <1>2 DEF TypeOK
<1>4. LaterRequestWins' /\ Bounded' /\ PassOK'
  BY <1>1, <1>2 DEF LaterRequestWins, Bounded, PassOK
<1>5. ResultsOK'
  <2>1. ASSUME NEW x \in DOMAIN mDetectMapAll, x # h
        PROVE  /\ mDetectMapAll'[x].done
               /\ ~(mDetectMapAll'[x].type = "tcp" /\ mDetectMapAll'[x].rc # "zero")
    BY <1>1, <2>1 DEF ResultsOK, UnderProbe
  <2>2. CASE left = {}
    <3>1. mDetectMapAll[h] \in Result
      BY DEF TypeOK
    <3>2. /\ mDetectMapAll'[h].done
          /\ ~(mDetectMapAll'[h].type = "tcp" /\ mDetectMapAll'[h].rc # "zero")
      <4>1. /\ mDetectMapAll'[h].rc = f.rc /\ mDetectMapAll'[h].type = f.type
            /\ mDetectMapAll'[h].done = TRUE
        <5>1. mDetectMapAll'[h] = Write(mDetectMapAll[h], {}, f)
          BY <1>1, <2>2
        <5> QED BY <3>1, <5>1 DEF Write, Result
      <4> QED BY <4>1, FoundFields
    <3> QED BY <1>1, <2>1, <3>2 DEF ResultsOK
  <2>3. CASE left # {}
    <3>1. left # Field
      BY <1>1
    <3> QED BY <1>1, <1>2, <2>1, <2>3, <3>1 DEF ResultsOK, UnderProbe
  <2> QED BY <2>2, <2>3
<1> QED BY <1>3, <1>4, <1>5

\* Only here a pass ends, with room in the map.
LEMMA CleanAllInv == ASSUME IInv, CleanAll PROVE IInv'
<1> USE DEF IInv
<1>1. /\ \/ mDetectMapAll' = Empty
         \/ mDetectMapAll' = mDetectMapAll /\ ~Full(Cardinality(DOMAIN mDetectMapAll))
      /\ UNCHANGED <<mDetectMapNewadd, mDetectMapNewdel, client>>
  BY DEF CleanAll
<1>2. Cardinality(DOMAIN mDetectMapAll') < mDetectMaxNode
  <2>1. CASE mDetectMapAll' = Empty
    BY <2>1, EmptyMap
  <2>2. CASE mDetectMapAll' = mDetectMapAll /\ ~Full(Cardinality(DOMAIN mDetectMapAll))
    <3>1. IsFiniteSet(DOMAIN mDetectMapAll)
      BY FS_Subset, DetectAssumption DEF TypeOK
    <3>2. Cardinality(DOMAIN mDetectMapAll) \in Nat
      BY <3>1, FS_CardinalityType
    <3> QED BY <2>2, <3>2, DetectAssumption DEF Full
  <2> QED BY <1>1, <2>1, <2>2
<1>3. /\ thread.pc = "clear" /\ thread.probe = NoProbe /\ thread.add = {} /\ thread.del = {}
      /\ thread.todo = {} /\ thread.expire = {}
      /\ thread' \in Thread /\ thread'.pc = "take"
      /\ thread'.add = {} /\ thread'.del = {} /\ thread'.todo = {} /\ thread'.expire = {}
      /\ thread'.probe = NoProbe
  BY DEF CleanAll, PassOK, TypeOK, Thread
<1>4. TypeOK'
  <2>1. Empty \in [DOMAIN Empty -> Result]
    BY EmptyMap DEF Empty
  <2> QED BY <1>1, <1>3, <2>1, EmptyMap DEF TypeOK
<1>5. LaterRequestWins' /\ Bounded' /\ PassOK'
  BY <1>1, <1>2, <1>3 DEF LaterRequestWins, Bounded, PassOK
<1>6. ResultsOK'
  <2>1. CASE mDetectMapAll' = Empty
    BY <2>1, EmptyMap DEF ResultsOK
  <2>2. CASE mDetectMapAll' = mDetectMapAll
    BY <1>3, <2>2 DEF ResultsOK, UnderProbe
  <2> QED BY <1>1, <2>1, <2>2
<1> QED BY <1>4, <1>5, <1>6

\* Every step preserves the inductive invariant.
LEMMA NextInv == ASSUME IInv, [Next]_vars PROVE IInv'
<1>1. CASE RebuildErrRoute \/ (\E h \in Host : GetDetectResult(h)) \/ AddDetect \/ DelDetect
  BY <1>1, ClientInv
<1>2. CASE TakeQueues
  BY <1>2, TakeQueuesInv
<1>3. CASE DeleteNodes
  BY <1>3, DeletionInv
<1>4. CASE ProbeNew
  BY <1>4, ProbeNewInv
<1>5. CASE ProbeAll
  BY <1>5, ProbeAllInv
<1>6. CASE WriteResult
  BY <1>6, WriteResultInv
<1>7. CASE DeleteExpired
  BY <1>7, DeletionInv
<1>8. CASE CleanAll
  BY <1>8, CleanAllInv
<1>9. CASE UNCHANGED vars
  BY <1>9 DEF IInv, vars, TypeOK, LaterRequestWins, Bounded, PassOK, ResultsOK, UnderProbe
<1> QED BY <1>1, <1>2, <1>3, <1>4, <1>5, <1>6, <1>7, <1>8, <1>9 DEF Next, Pass

-----------------------------------------------------------------------------
(* The theorems.                                                           *)

\* The inductive invariant holds in every behaviour of the thread and its client.
THEOREM Invariance == Spec => []IInv
<1>1. Init => IInv
  BY InitInv
<1>2. IInv /\ [Next]_vars => IInv'
  BY NextInv
<1> QED BY <1>1, <1>2, PTL DEF Spec

\* The thread's iterators and references are always into the map.
THEOREM TypeCorrect == Spec => []TypeOK
<1>1. IInv => TypeOK
  BY DEF IInv
<1> QED BY <1>1, Invariance, PTL

\* AddDetect and DelDetect: the later of two requests wins.
THEOREM LaterRequestWinsCorrect == Spec => []LaterRequestWins
<1>1. IInv => LaterRequestWins
  BY DEF IInv
<1> QED BY <1>1, Invariance, PTL

\* Between two passes there is room in the map.
THEOREM BoundedCorrect == Spec => []Bounded
<1>1. IInv => Bounded
  BY DEF IInv
<1> QED BY <1>1, Invariance, PTL

\* Who leaves the map, but for those given up, is under no probe and so has a
\* result.
LEMMA DropStep ==
  ASSUME IInv, [Next]_vars, NEW h \in DOMAIN mDetectMapAll, h \notin DOMAIN mDetectMapAll',
         thread.pc # "delete"
  PROVE  mDetectMapAll[h].done
<1> USE DEF IInv
<1>1. CASE DeleteExpired \/ CleanAll
  <2>1. thread.probe = NoProbe
    BY <1>1 DEF DeleteExpired, CleanAll, PassOK
  <2> QED BY <2>1 DEF ResultsOK, UnderProbe
<1>2. CASE WriteResult
  BY <1>2, WriteStep DEF WriteOf
<1>3. CASE TakeQueues
  BY <1>3 DEF TakeQueues, Passed
<1>4. CASE ProbeNew
  BY <1>4 DEF ProbeNew, With
<1>5. CASE ProbeAll \/ UNCHANGED vars
  BY <1>5 DEF ProbeAll, vars
<1>6. CASE RebuildErrRoute \/ (\E x \in Host : GetDetectResult(x)) \/ AddDetect \/ DelDetect
  BY <1>6 DEF RebuildErrRoute, GetDetectResult, AddDetect, DelDetect
<1>7. CASE DeleteNodes
  BY <1>7 DEF DeleteNodes
<1> QED BY <1>1, <1>2, <1>3, <1>4, <1>5, <1>6, <1>7 DEF Next, Pass

\* However long a pass takes, no node that is still asked for is dropped before
\* it was probed.
THEOREM ProbedBeforeDroppedCorrect == Spec => ProbedBeforeDropped
<1>1. IInv /\ [Next]_vars
        => [\A h \in DOMAIN mDetectMapAll \ DOMAIN mDetectMapAll' :
              thread.pc # "delete" => mDetectMapAll[h].done]_vars
  BY DropStep
<1> QED BY <1>1, Invariance, PTL DEF Spec, ProbedBeforeDropped

-----------------------------------------------------------------------------
(* Answers.                                                                *)

\* Only a write changes the answer about a node that stays in the map.
LEMMA SameClass ==
  ASSUME IInv, [Next]_vars, ~WriteResult,
         NEW h \in DOMAIN mDetectMapAll \cap DOMAIN mDetectMapAll'
  PROVE  Class(mDetectMapAll'[h]) = Class(mDetectMapAll[h])
<1> USE DEF IInv
<1>1. CASE DeleteNodes \/ DeleteExpired
  BY <1>1 DEF DeleteNodes, DeleteExpired, Drop
<1>2. CASE CleanAll
  BY <1>2, EmptyMap DEF CleanAll
<1>3. CASE TakeQueues
  <2>1. CASE mDetectMapNewadd = {} /\ mDetectMapAll = Empty
    BY <1>3, <2>1, EmptyMap
  <2>2. CASE ~(mDetectMapNewadd = {} /\ mDetectMapAll = Empty)
    <3>1. PICK due, expired : mDetectMapAll' = Passed(mDetectMapAll, due, expired)
      BY <1>3, <2>2 DEF TakeQueues
    <3>2. /\ mDetectMapAll'[h].rc = mDetectMapAll[h].rc
          /\ mDetectMapAll'[h].type = mDetectMapAll[h].type
          /\ mDetectMapAll'[h].done = mDetectMapAll[h].done
      BY <3>1, PassedMap DEF TypeOK
    <3> QED BY <3>2 DEF Class
  <2> QED BY <2>1, <2>2
<1>4. CASE ProbeNew
  BY <1>4 DEF ProbeNew, With
<1>5. CASE ProbeAll \/ UNCHANGED vars
  BY <1>5 DEF ProbeAll, vars
<1>6. CASE RebuildErrRoute \/ (\E x \in Host : GetDetectResult(x)) \/ AddDetect \/ DelDetect
  BY <1>6 DEF RebuildErrRoute, GetDetectResult, AddDetect, DelDetect
<1> QED BY <1>1, <1>2, <1>3, <1>4, <1>5, <1>6 DEF Next, Pass

\* While a probe is in progress, the thread does nothing else.
LEMMA ProbeGoesOn ==
  ASSUME IInv, [Next]_vars, ~WriteResult, thread.probe # NoProbe
  PROVE  thread' = thread
<1>1. thread.pc \in {"new", "all"}
  BY DEF IInv, PassOK
<1>2. ~Pass
  BY <1>1 DEF Pass, TakeQueues, DeleteNodes, ProbeNew, ProbeAll, DeleteExpired, CleanAll
<1> QED BY <1>2 DEF Next, vars, RebuildErrRoute, GetDetectResult, AddDetect, DelDetect

\* What a probe will say when it is written.
Says(p) == Class([done |-> TRUE, rc |-> p.found.rc, type |-> p.found.type])

\* A write changes one answer: to what the probe found, or to a bad one until
\* all is written.
LEMMA WriteClass ==
  ASSUME IInv, WriteResult
  PROVE  /\ thread.probe # NoProbe
         /\ DOMAIN mDetectMapAll' = DOMAIN mDetectMapAll
         /\ thread.probe.node \in DOMAIN mDetectMapAll
         /\ \A x \in DOMAIN mDetectMapAll \ {thread.probe.node} :
              mDetectMapAll'[x] = mDetectMapAll[x]
         /\ LET new == Class(mDetectMapAll'[thread.probe.node])
            IN  /\ new \in {Class(mDetectMapAll[thread.probe.node]), "bad", Says(thread.probe)}
                /\ thread'.probe = NoProbe => new = Says(thread.probe)
<1> USE DEF IInv
<1>1. PICK h \in DOMAIN mDetectMapAll, f \in Found, old \in SUBSET Field,
           left \in SUBSET Field, p \in Probe \cup {NoProbe} :
        WriteOf(h, f, old, left, p)
  BY WriteStep
<1> USE DEF WriteOf
<1> DEFINE r == mDetectMapAll[h]
           w == mDetectMapAll'[h]
<1>2. r \in Result
  BY DEF TypeOK
<1>3. /\ w.rc = (IF "rc" \in left THEN r.rc ELSE f.rc)
      /\ w.type = (IF "type" \in left THEN r.type ELSE f.type)
      /\ w.done = (IF left = {} THEN TRUE ELSE r.done)
  BY <1>1, <1>2 DEF Write, Result
<1>4. Says(thread.probe) = Class([done |-> TRUE, rc |-> f.rc, type |-> f.type])
  BY <1>1 DEF Says
<1>5. Says(thread.probe) = IF f.rc = "nopri" THEN "nopri"
                           ELSE IF f.rc = "zero" /\ f.type = "tcp" THEN "ok" ELSE "bad"
  BY <1>4 DEF Class
<1>6. CASE left = {}
  <2>1. w.rc = f.rc /\ w.type = f.type /\ w.done
    BY <1>3, <1>6
  <2>2. Class(w) = Says(thread.probe)
    BY <2>1, <1>5 DEF Class
  <2> QED BY <1>1, <2>2
<1>7. CASE left # {}
  <2>1. left = {"rc"} \/ left = {"type"}
    BY <1>1, <1>7 DEF Field
  <2>2. old = Field
    BY <1>1, <2>1 DEF Field
  <2>3. r.type = "tcp" => r.rc = "zero"
    BY <1>1, <2>2 DEF ResultsOK
  <2>4. Class(w) \in {Class(r), "bad", Says(thread.probe)}
    <3>1. CASE ~r.done
      BY <1>3, <1>7, <3>1 DEF Class
    <3>2. CASE r.done /\ left = {"rc"}
      <4>1. w.rc = r.rc /\ w.type = f.type /\ w.done
        BY <1>3, <3>2
      <4> QED BY <4>1, <1>5, <3>2, FoundFields DEF Class
    <3>3. CASE r.done /\ left = {"type"}
      <4>1. w.rc = f.rc /\ w.type = r.type /\ w.done
        BY <1>3, <3>3
      <4> QED BY <4>1, <1>5, <2>3, <3>3, FoundFields DEF Class
    <3> QED BY <2>1, <3>1, <3>2, <3>3
  <2>5. thread'.probe # NoProbe
    BY <1>1, <1>7 DEF TypeOK, Thread
  <2> QED BY <1>1, <2>4, <2>5
<1> QED BY <1>6, <1>7

\* A result read while it is written says no more than the probe found.
THEOREM NoFalseAnswerCorrect == Spec => NoFalseAnswer
<1> DEFINE Step(h) ==
      LET p   == thread.probe
          new == Class(mDetectMapAll'[h])
      IN  IF p.left # {} /\ p.node = h
          THEN LET says == Class([done |-> TRUE, rc |-> p.found.rc, type |-> p.found.type])
               IN  /\ new \in {Class(mDetectMapAll[h]), "bad", says}
                   /\ thread'.probe = NoProbe => new = says
          ELSE new = Class(mDetectMapAll[h])
<1>1. ASSUME IInv, [Next]_vars, NEW h \in DOMAIN mDetectMapAll \cap DOMAIN mDetectMapAll'
      PROVE  Step(h)
  <2>1. CASE WriteResult
    <3>1. thread.probe.left # {}
      BY <1>1, <2>1, WriteClass, NoProbeLeft DEF IInv, TypeOK, Thread
    <3> QED BY <1>1, <2>1, <3>1, WriteClass DEF Says
  <2>2. CASE ~WriteResult
    <3>1. Class(mDetectMapAll'[h]) = Class(mDetectMapAll[h])
      BY <1>1, <2>2, SameClass
    <3>2. thread.probe.left # {} => thread.probe # NoProbe
      BY DEF NoProbe
    <3>3. thread.probe # NoProbe => thread'.probe # NoProbe
      BY <1>1, <2>2, ProbeGoesOn
    <3> QED BY <3>1, <3>2, <3>3
  <2> QED BY <2>1, <2>2
<1>2. IInv /\ [Next]_vars
        => [\A h \in DOMAIN mDetectMapAll \cap DOMAIN mDetectMapAll' : Step(h)]_vars
  BY <1>1
<1> QED BY <1>2, Invariance, PTL DEF Spec, NoFalseAnswer

-----------------------------------------------------------------------------
(* The refinement.                                                         *)

\* The board, as the refinement maps it.
shown == [h \in Host |-> Shown(h)]

\* What is shown of a host, and of one in the map.
LEMMA ShownType ==
  ASSUME NEW h \in Host
  PROVE  /\ Shown(h) \in {"none", "bad", "nopri", "ok"}
         /\ h \in DOMAIN mDetectMapAll => Shown(h) \in {"bad", "nopri", "ok"}
  BY DEF Shown, Class

\* Nothing is shown and asked for at first.
LEMMA InitBoard == ASSUME Init PROVE Board!Init
<1>1. \A h \in Host : Shown(h) = "none"
  BY EmptyMap DEF Init, Shown
<1> QED BY <1>1 DEF Init, Board!Init, NoCall, Board!NoCall

\* The calls of the engine, and each its counterpart.
LEMMA ClientBoard ==
  ASSUME IInv,
         \/ RebuildErrRoute
         \/ \E h \in Host : GetDetectResult(h)
         \/ AddDetect
         \/ DelDetect
  PROVE  Board!Next
<1> USE DEF IInv
<1>1. CASE RebuildErrRoute
  <2>1. Board!RebuildErrRoute
    BY <1>1 DEF RebuildErrRoute, Board!RebuildErrRoute, Shown, NoCall, Board!NoCall
  <2> QED BY <2>1 DEF Board!Next
<1>2. CASE \E h \in Host : GetDetectResult(h)
  <2>1. PICK h \in Host : GetDetectResult(h)
    BY <1>2
  <2>2. \A x \in Host : Shown(x)' = Shown(x)
    BY <2>1 DEF GetDetectResult, Shown
  <2>3. /\ h \in client.todo /\ client \in Client
        /\ client' = [client EXCEPT
             !.todo = @ \ {h},
             !.add  = IF h \notin DOMAIN mDetectMapAll THEN @ \cup {h} ELSE @,
             !.del  = IF h \in DOMAIN mDetectMapAll /\ Class(mDetectMapAll[h]) = "ok"
                      THEN @ \cup {h} ELSE @]
    BY <2>1 DEF GetDetectResult, TypeOK
  <2>4. Board!Read(h)
    <3>1. CASE h \notin DOMAIN mDetectMapAll
      <4>1. Shown(h) \in {"none", "bad"}
        BY <3>1 DEF Shown
      <4>2. client' = [client EXCEPT !.todo = @ \ {h}, !.add = @ \cup {h}]
        BY <2>3, <3>1 DEF Client
      <4> QED BY <2>2, <2>3, <4>1, <4>2 DEF Board!Read
    <3>2. CASE h \in DOMAIN mDetectMapAll /\ Class(mDetectMapAll[h]) = "ok"
      <4>1. Shown(h) = "ok"
        BY <3>2 DEF Shown
      <4>2. client' = [client EXCEPT !.todo = @ \ {h}, !.del = @ \cup {h}]
        BY <2>3, <3>2 DEF Client
      <4> QED BY <2>2, <2>3, <4>1, <4>2 DEF Board!Read
    <3>3. CASE h \in DOMAIN mDetectMapAll /\ Class(mDetectMapAll[h]) # "ok"
      <4>1. Shown(h) \in {"bad", "nopri"}
        BY <3>3 DEF Shown, Class
      <4>2. client' = [client EXCEPT !.todo = @ \ {h}]
        BY <2>3, <3>3 DEF Client
      <4> QED BY <2>2, <2>3, <4>1, <4>2 DEF Board!Read
    <3> QED BY <3>1, <3>2, <3>3
  <2> QED BY <2>4 DEF Board!Next
<1>3. CASE AddDetect
  <2>1. \A h \in Host : Shown(h)' = IF h \in client.add /\ Shown(h) = "none"
                                    THEN "bad" ELSE Shown(h)
    BY <1>3, ShownType DEF AddDetect, Shown
  <2>2. Board!AddDetect
    BY <1>3, <2>1 DEF AddDetect, Board!AddDetect
  <2> QED BY <2>2 DEF Board!Next
<1>4. CASE DelDetect
  <2> DEFINE S == {h \in client.del : Shown(h)' # Shown(h)}
  <2>1. S \in SUBSET client.del /\ \A h \in Host : Shown(h)' = IF h \in S THEN "none" ELSE Shown(h)
    BY <1>4 DEF DelDetect, Shown
  <2> HIDE DEF S
  <2>2. Board!DelDetect
    BY <1>4, <2>1 DEF DelDetect, Board!DelDetect
  <2> QED BY <2>2 DEF Board!Next
<1> QED BY <1>1, <1>2, <1>3, <1>4

\* A host is shown as before while it goes from the queue to the thread and
\* from there into the map.
LEMMA QuietBoard ==
  ASSUME IInv, TakeQueues \/ ProbeNew \/ ProbeAll \/ UNCHANGED vars
  PROVE  UNCHANGED <<shown, client>>
<1> USE DEF IInv
<1>1. client' = client
  BY DEF TakeQueues, ProbeNew, ProbeAll, vars
<1>2. ASSUME NEW h \in Host PROVE Shown(h)' = Shown(h)
  <2>1. CASE TakeQueues
    <3>1. /\ thread.add = {}
          /\ \/ UNCHANGED <<mDetectMapAll, mDetectMapNewadd, thread>>
             \/ mDetectMapNewadd' = {} /\ thread'.add = mDetectMapNewadd
      <4>1. thread.pc = "take" /\ thread \in Thread
        BY <2>1 DEF TakeQueues, TypeOK
      <4>2. thread.add = {}
        BY <4>1 DEF PassOK
      <4> QED BY <2>1, <4>1, <4>2 DEF TakeQueues, Thread
    <3>2. DOMAIN mDetectMapAll' = DOMAIN mDetectMapAll
      BY <2>1 DEF TakeQueues, Passed
    <3>3. ~WriteResult
      BY <2>1, NoProbeLeft DEF TakeQueues, WriteResult, PassOK, NoProbe
    <3>4. h \in DOMAIN mDetectMapAll => Class(mDetectMapAll'[h]) = Class(mDetectMapAll[h])
      BY <2>1, <3>2, <3>3, SameClass DEF Next, Pass
    <3> QED BY <3>1, <3>2, <3>4 DEF Shown
  <2>2. CASE ProbeNew
    <3>1. thread.pc = "new" /\ thread \in Thread
      BY <2>2 DEF ProbeNew, TypeOK
    <3>2. CASE thread.add = {}
      BY <2>2, <3>1, <3>2 DEF ProbeNew, Thread, Shown
    <3>3. CASE thread.add # {}
      <4>1. PICK x \in thread.add :
              /\ mDetectMapAll' = IF x \in DOMAIN mDetectMapAll THEN mDetectMapAll
                                  ELSE With(mDetectMapAll, x, FreshResult(x))
              /\ thread'.add = thread.add \ {x}
        BY <2>2, <3>1, <3>3 DEF ProbeNew, Thread
      <4>2. CASE x \in DOMAIN mDetectMapAll
        BY <2>2, <4>1, <4>2 DEF ProbeNew, Shown
      <4>3. CASE x \notin DOMAIN mDetectMapAll
        <5>1. /\ DOMAIN mDetectMapAll' = DOMAIN mDetectMapAll \cup {x}
              /\ mDetectMapAll'[x] = FreshResult(x)
              /\ \A y \in DOMAIN mDetectMapAll \ {x} : mDetectMapAll'[y] = mDetectMapAll[y]
          BY <4>1, <4>3 DEF With
        <5>2. Class(FreshResult(x)) = "bad"
          BY FreshType DEF Class
        <5> QED BY <2>2, <4>1, <4>3, <5>1, <5>2 DEF ProbeNew, Shown
      <4> QED BY <4>2, <4>3
    <3> QED BY <3>2, <3>3
  <2>3. CASE ProbeAll
    <3>1. /\ UNCHANGED <<mDetectMapAll, mDetectMapNewadd>>
          /\ thread'.add = thread.add
      BY <2>3 DEF ProbeAll, TypeOK, Thread
    <3> QED BY <3>1 DEF Shown
  <2>4. CASE UNCHANGED vars
    BY <2>4 DEF vars, Shown
  <2> QED BY <2>1, <2>2, <2>3, <2>4
<1> QED BY <1>1, <1>2 DEF shown

\* A write is a new answer about a host on the board.
LEMMA WriteBoard == ASSUME IInv, WriteResult PROVE Board!Next
<1>1. PICK h \in Host :
        /\ h \in DOMAIN mDetectMapAll /\ DOMAIN mDetectMapAll' = DOMAIN mDetectMapAll
        /\ \A x \in DOMAIN mDetectMapAll \ {h} : mDetectMapAll'[x] = mDetectMapAll[x]
  BY WriteClass DEF IInv, TypeOK
<1>2. /\ mDetectMapNewadd' = mDetectMapNewadd /\ thread'.add = thread.add /\ client' = client
  BY WriteStep DEF WriteOf, IInv, TypeOK, Thread
<1>4. \A x \in Host \ {h} : Shown(x)' = Shown(x)
  BY <1>1, <1>2 DEF Shown
<1>5. Shown(h)' \in {"bad", "nopri", "ok"} /\ Shown(h) # "none"
  BY <1>1 DEF Shown, Class
<1>6. Board!Probe(h)
  BY <1>1, <1>2, <1>4, <1>5 DEF Board!Probe, Board!Answer
<1> QED BY <1>1, <1>6 DEF Board!Next

\* Deletions take answers down; who was asked for again stays without a result.
LEMMA DeletionBoard ==
  ASSUME IInv, DeleteNodes \/ DeleteExpired \/ CleanAll
  PROVE  Board!Next
<1> USE DEF IInv
<1>1. /\ mDetectMapNewadd' = mDetectMapNewadd /\ thread'.add = thread.add /\ client' = client
  BY DEF DeleteNodes, DeleteExpired, CleanAll, TypeOK, Thread
<1>2. /\ DOMAIN mDetectMapAll' \subseteq DOMAIN mDetectMapAll
      /\ \A h \in DOMAIN mDetectMapAll' : mDetectMapAll'[h] = mDetectMapAll[h]
  BY EmptyMap DEF DeleteNodes, DeleteExpired, CleanAll, Drop
<1> DEFINE f == [h \in Host |-> IF Shown(h)' = Shown(h) THEN "keep" ELSE Shown(h)']
<1>3. ASSUME NEW h \in Host
      PROVE  /\ Shown(h)' \in {"none", "bad", Shown(h)}
             /\ Shown(h) = "none" => Shown(h)' = "none"
  <2>1. CASE h \in DOMAIN mDetectMapAll'
    BY <1>2, <2>1 DEF Shown
  <2>2. CASE h \in DOMAIN mDetectMapAll \ DOMAIN mDetectMapAll'
    <3>1. Shown(h)' \in {"none", "bad"}
      BY <2>2 DEF Shown
    <3> QED BY <2>2, <3>1, ShownType
  <2>3. CASE h \notin DOMAIN mDetectMapAll
    BY <1>1, <1>2, <2>3 DEF Shown
  <2> QED BY <2>1, <2>2, <2>3
<1>4. \A h \in Host : /\ f[h] \in {"keep", "none", "bad"}
                      /\ Shown(h) = "none" => f[h] = "keep"
                      /\ Shown(h)' = IF f[h] = "keep" THEN Shown(h) ELSE f[h]
  <2>1. \A h \in Host : Shown(h) # "keep"
    BY ShownType
  <2>2. \A h \in Host : Shown(h)' # "keep"
    BY <1>3, <2>1
  <2> QED BY <1>3, <2>1, <2>2
<1> HIDE DEF f
<1>5. f \in [Host -> {"keep", "none", "bad"}]
  BY <1>4 DEF f
<1>6. Board!Forget
  BY <1>1, <1>4, <1>5 DEF Board!Forget
<1> QED BY <1>6 DEF Board!Next

\* The detect thread, with its queues, unlocked writes, expiry and bound,
\* implements the board of answers that the QoS engine works with.
THEOREM ImplementsBoardCorrect == Spec => ImplementsBoard
<1>1. Init => Board!Init
  BY InitBoard
<1>2. ASSUME IInv, [Next]_vars
      PROVE  [Board!Next]_<<shown, client>>
  BY <1>2, ClientBoard, QuietBoard, WriteBoard, DeletionBoard DEF Next, Pass
<1>3. IInv /\ [Next]_vars => [Board!Next]_<<[h \in Host |-> Shown(h)], client>>
  BY <1>2 DEF shown
<1> QED BY <1>1, <1>3, Invariance, PTL DEF Spec, ImplementsBoard, Board!Spec
=============================================================================
