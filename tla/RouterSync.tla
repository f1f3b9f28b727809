------------------------------ MODULE RouterSync ------------------------------
(***************************************************************************)
(* RouterSvrd and its agents: how what svr.xml says of the Svrs reaches    *)
(* every AgentSvrd (routerserver/src, AgentClientTask.cpp, AgentServer.cpp,*)
(* the server loop of base/wServer.inl and the client of wTcpClient.inl).  *)
(*                                                                         *)
(* The file is edited as the manual asks: a change of a weight comes with  *)
(* a new version, a Svr is deleted by weight 0, entries are not removed.   *)
(* So file[s] is the sequence of the weights of s, its version the length, *)
(* and a weight that is stored or sent is named by the edit it is from.    *)
(*                                                                         *)
(* One worker of RouterSvrd is modelled: workers share nothing but the     *)
(* file and the master's memory they are forked from.                      *)
(***************************************************************************)
EXTENDS Naturals, Sequences

CONSTANTS
  Agent, Svr,
  Weight,      \* weights that edits give
  MaxEdits,    \* bound: edits of one Svr
  BufCap,      \* messages the send buffer of a connection takes
  WireCap      \* messages the network and the receiver take on top

ASSUME SyncAssumption ==
  /\ Weight \subseteq Nat
  /\ MaxEdits \in Nat \ {0} /\ BufCap \in Nat \ {0} /\ WireCap \in Nat

VARIABLES
  file,        \* svr.xml: the weights each Svr has had
  stamp,       \* its st_mtime: after mMtime? in the current second?
  image,       \* the Svrs of the master's memory, which new workers inherit
  mMapReqSvr,  \* the worker's Svrs: version when first seen, weight as of edit
  loading,     \* the load of the file between LoadFile and SetModTime, and
               \* the message it leads to
  mTaskPool,   \* the agents the worker has a task for
  chan,        \* messages to each agent: in the send buffer or the network
  req,         \* the agent's request on its way to the worker
  link,        \* the agent's connection, as the agent has it
  held,        \* the agent's Svrs (mMapReqSvr of the agent)
  at,          \* the edit of each Svr last applied at the agent
  missed,      \* history: Svrs with an edit the worker did not and will not see
  owed         \* history: Svrs with an edit that was not sent to an agent

fileVars   == <<file, stamp>>
workerVars == <<image, mMapReqSvr, loading>>
agentVars  == <<link, held, at>>
vars == <<fileVars, workerVars, mTaskPool, chan, req, agentVars, missed, owed>>

Edits   == 1 .. MaxEdits
Entry   == [ver : Edits, edit : Edits]
Listed  == {s \in Svr : file[s] # <<>>}
Version(s) == Len(file[s])
Deleted(s) == file[s][Version(s)] = 0

\* Messages carry the Svrs as mSvr[0 .. mNum-1]: a Svr and its weight.
Partial(V) == UNION {[S -> V] : S \in SUBSET Svr}
Message == [type : {"init", "reload", "sync"}, svrs : Partial(Edits)]
NotLoading == [type |-> "none"]
Load == [type : {"start", "reload", "sync"}, to : SUBSET Agent,
         svrs : Partial(Edits), moved : SUBSET Svr]

\* Well-formedness; a Svr that was stored or sent has been in the file.
TypeOK ==
  /\ file \in [Svr -> Seq(Weight)] /\ \A s \in Svr : Version(s) <= MaxEdits
  /\ stamp \in [modified : BOOLEAN, thisSecond : BOOLEAN]
  /\ image \in SUBSET Listed
  /\ mMapReqSvr \in Partial(Entry) /\ DOMAIN mMapReqSvr \subseteq Listed
  /\ loading \in Load \cup {NotLoading}
  /\ mTaskPool \in SUBSET Agent
  /\ chan \in [Agent -> Seq(Message)]
  /\ \A a \in Agent : Len(chan[a]) <= BufCap + WireCap
  /\ req \in [Agent -> {"none", "init", "reload"}]
  /\ link \in [Agent -> {"none", "up", "lost"}]
  /\ held \in [Agent -> SUBSET Listed]
  /\ at \in [Agent -> [Svr -> 0 .. MaxEdits]]
  /\ missed \in SUBSET Svr /\ owed \in [Agent -> SUBSET Svr]

-----------------------------------------------------------------------------
(* The worker's memory.                                                    *)

\* Mutant: a known Svr keeps its weight as well.
SaveNodeKept(m, S) ==
  [s \in DOMAIN m \cup S |->
     IF s \in DOMAIN m THEN m[s] ELSE [ver |-> Version(s), edit |-> Version(s)]]

\* SaveNode on every Svr of S: a known one gets the weight of the file and
\* keeps its version.
SaveNode(m, S) ==
  [s \in DOMAIN m \cup S |->
     IF s \notin S THEN m[s]
     ELSE [ver |-> IF s \in DOMAIN m THEN m[s].ver ELSE Version(s), edit |-> Version(s)]]

IsExistNode(m, s) == s \in DOMAIN m
IsVerChange(m, s) == m[s].ver # Version(s)

\* Mutant: GetModSvr skips deleted Svrs, as GetSvrConf does.
ModSvrsNotDeleted(m) ==
  {s \in Listed : ~Deleted(s) /\ (~IsExistNode(m, s) \/ IsVerChange(m, s))}

\* What GetModSvr sends: the new Svrs and those of another version.
ModSvrs(m) == {s \in Listed : ~IsExistNode(m, s) \/ IsVerChange(m, s)}
GetModSvr(m) == SaveNode(m, ModSvrs(m))

\* GetSvrConf skips the deleted ones, in the master and in a new worker.
GetSvrConf(m) == SaveNode(m, {s \in Listed : ~Deleted(s)})
Forked == [s \in image |-> [ver |-> 1, edit |-> 1]]

Current(S) == [s \in S |-> Version(s)]
EmptyMap   == [s \in {} |-> 0]

\* Svrs whose weight in m is not the one in n.
Moved(m, n) == {s \in DOMAIN n : s \notin DOMAIN m \/ m[s].edit # n[s].edit}

Init ==
  /\ file \in [Svr -> {<<>>} \cup {<<w>> : w \in Weight}]
  /\ stamp = [modified |-> FALSE, thisSecond |-> FALSE]
  /\ image = {s \in Listed : ~Deleted(s)}
  /\ mMapReqSvr = GetSvrConf([s \in {} |-> [ver |-> 1, edit |-> 1]])
  /\ loading = NotLoading
  /\ mTaskPool = {}
  /\ chan = [a \in Agent |-> <<>>] /\ req = [a \in Agent |-> "none"]
  /\ link = [a \in Agent |-> "none"] /\ held = [a \in Agent |-> {}]
  /\ at = [a \in Agent |-> [s \in Svr |-> 0]]
  /\ missed = {} /\ owed = [a \in Agent |-> {}]

-----------------------------------------------------------------------------
(* The file.  IsModTime compares whole seconds with those of the last      *)
(* SetModTime: mMtime is st_mtime unless the file is newer.                *)

Edit(s, w) ==
  /\ Version(s) < MaxEdits
  /\ file' = [file EXCEPT ![s] = Append(@, w)]
  /\ stamp' = [modified |-> stamp.modified \/ ~stamp.thisSecond, thisSecond |-> TRUE]
  /\ missed' = IF stamp'.modified /\ loading = NotLoading THEN missed ELSE missed \cup {s}
  /\ UNCHANGED <<workerVars, mTaskPool, chan, req, agentVars, owed>>

Tick ==
  /\ stamp.thisSecond
  /\ stamp' = [stamp EXCEPT !.thisSecond = FALSE]
  /\ UNCHANGED <<file, workerVars, mTaskPool, chan, req, agentVars, missed, owed>>

-----------------------------------------------------------------------------
(* The worker of RouterSvrd.                                               *)

\* Mutant: a full buffer refuses nothing.
NeverFull(S) == S = {}

\* Agents whose send buffer has no room.  How much of chan has left the buffer
\* is up to the network.
Full(S) ==
  /\ S \subseteq {a \in mTaskPool : Len(chan[a]) >= BufCap}
  /\ {a \in mTaskPool : Len(chan[a]) >= BufCap + WireCap} \subseteq S

\* wServer::Send to the agents of A.  A message without room is dropped;
\* due[a] are the Svrs whose new weight then does not reach a.
Send(A, msg, due) ==
  \E full \in SUBSET Agent :
    /\ Full(full)
    /\ LET sent == (A \cap mTaskPool) \ full IN
       /\ chan' = [a \in Agent |-> IF a \in sent /\ link[a] = "up"
                                   THEN Append(chan[a], msg) ELSE chan[a]]
       /\ owed' = [a \in Agent |-> IF a \in sent THEN owed[a] \ DOMAIN msg.svrs
                                   ELSE IF a \in mTaskPool THEN owed[a] \cup due[a]
                                   ELSE owed[a]]

\* CheckModSvr, called in every round of the loop, up to the end of LoadFile.
CheckModSvr ==
  /\ loading = NotLoading
  /\ stamp.modified
  /\ mMapReqSvr' = GetModSvr(mMapReqSvr)
  /\ loading' = [type |-> "sync", to |-> Agent, svrs |-> Current(ModSvrs(mMapReqSvr)),
                 moved |-> Moved(mMapReqSvr, mMapReqSvr')]
  /\ missed' = {}
  /\ UNCHANGED <<fileVars, image, mTaskPool, chan, req, agentVars, owed>>

\* A RELOAD request: everything is forgotten and read again.
ReloadSvrReq(a) ==
  /\ loading = NotLoading
  /\ a \in mTaskPool /\ req[a] = "reload"
  /\ mMapReqSvr' = GetModSvr([s \in {} |-> [ver |-> 1, edit |-> 1]])
  /\ loading' = [type |-> "reload", to |-> {a}, svrs |-> Current(Listed),
                 moved |-> Moved(mMapReqSvr, mMapReqSvr')]
  /\ req' = [req EXCEPT ![a] = "none"]
  /\ missed' = {}
  /\ UNCHANGED <<fileVars, image, mTaskPool, chan, agentVars, owed>>

\* Mutant: what is broadcast must be more than one Svr.
SetModTimeMany ==
  /\ loading # NotLoading
  /\ stamp' = [stamp EXCEPT !.modified = FALSE]
  /\ loading' = NotLoading
  /\ IF \/ loading.type = "reload"
        \/ loading.type = "sync" /\ \E s, t \in DOMAIN loading.svrs : s # t
     THEN Send(loading.to, [type |-> loading.type, svrs |-> loading.svrs],
               [a \in Agent |-> loading.moved])
     ELSE UNCHANGED <<chan, owed>>
  /\ UNCHANGED <<file, image, mMapReqSvr, mTaskPool, req, agentVars, missed>>

\* The rest of a load: SetModTime, then the broadcast or the reply.
SetModTime ==
  /\ loading # NotLoading
  /\ stamp' = [stamp EXCEPT !.modified = FALSE]
  /\ loading' = NotLoading
  /\ IF loading.type = "reload" \/ (loading.type = "sync" /\ loading.svrs # EmptyMap)
     THEN Send(loading.to, [type |-> loading.type, svrs |-> loading.svrs],
               [a \in Agent |-> loading.moved])
     ELSE UNCHANGED <<chan, owed>>
  /\ UNCHANGED <<file, image, mMapReqSvr, mTaskPool, req, agentVars, missed>>

\* An INIT request is answered with what is in memory (GetSvrAll).
InitSvrReq(a) ==
  /\ loading = NotLoading
  /\ a \in mTaskPool /\ req[a] = "init"
  /\ LET all == [s \in DOMAIN mMapReqSvr |-> mMapReqSvr[s].edit]
     IN  Send({a}, [type |-> "init", svrs |-> all],
              [b \in Agent |-> IF b = a THEN DOMAIN all ELSE {}])
  /\ req' = [req EXCEPT ![a] = "none"]
  /\ UNCHANGED <<fileVars, workerVars, mTaskPool, agentVars, missed>>

\* The connection is gone for the worker: the agent has closed it, or an error
\* of the network.
RemoveTaskPool(a) ==
  /\ loading = NotLoading
  /\ a \in mTaskPool
  /\ mTaskPool' = mTaskPool \ {a}
  /\ req' = [req EXCEPT ![a] = "none"]
  /\ \E n \in 0 .. Len(chan[a]) : chan' = [chan EXCEPT ![a] = SubSeq(@, 1, n)]
  /\ UNCHANGED <<fileVars, workerVars, agentVars, missed, owed>>

\* The worker dies and the master forks another, which reads the file over
\* what it inherits.
RespawnWorker ==
  /\ mMapReqSvr' = GetSvrConf(Forked)
  /\ loading' = [type |-> "start", to |-> {}, svrs |-> EmptyMap, moved |-> {}]
  /\ mTaskPool' = {}
  /\ req' = [a \in Agent |-> "none"]
  /\ \E n \in [Agent -> 0 .. BufCap + WireCap] :
       /\ \A a \in Agent : n[a] <= Len(chan[a])
       /\ chan' = [a \in Agent |-> SubSeq(chan[a], 1, n[a])]
  /\ missed' = {s \in image : Deleted(s)}
  /\ UNCHANGED <<fileVars, image, agentVars, owed>>

-----------------------------------------------------------------------------
(* The agents.                                                             *)

\* The process starts, after a crash too: it connects, or exits at once, and
\* sends INIT.
Start(a) ==
  /\ loading = NotLoading
  /\ link' = [link EXCEPT ![a] = "up"]
  /\ held' = [held EXCEPT ![a] = {}]
  /\ at' = [at EXCEPT ![a] = [s \in Svr |-> 0]]
  /\ mTaskPool' = mTaskPool \cup {a}
  /\ chan' = [chan EXCEPT ![a] = <<>>]
  /\ req' = [req EXCEPT ![a] = "init"]
  /\ owed' = [owed EXCEPT ![a] = {}]
  /\ UNCHANGED <<fileVars, workerVars, missed>>

\* AgentServer::ReloadSvrReq.
AskReload(a) ==
  /\ link[a] = "up" /\ a \in mTaskPool /\ req[a] = "none"
  /\ req' = [req EXCEPT ![a] = "reload"]
  /\ UNCHANGED <<fileVars, workerVars, mTaskPool, chan, agentVars, missed, owed>>

Receive(a, type) ==
  /\ link[a] = "up" /\ chan[a] # <<>> /\ Head(chan[a]).type = type
  /\ chan' = [chan EXCEPT ![a] = Tail(@)]
  /\ at' = [at EXCEPT ![a] = [s \in Svr |-> IF s \in DOMAIN Head(chan[a]).svrs
                                            THEN Head(chan[a]).svrs[s] ELSE @[s]]]
  /\ UNCHANGED <<fileVars, workerVars, mTaskPool, req, link, missed, owed>>

Zero(svrs) == {s \in DOMAIN svrs : file[s][svrs[s]] = 0}

\* SaveNode for every Svr, whatever its weight; one of weight 0 is used with a
\* default weight.
InitSvrRes(a) ==
  /\ Receive(a, "init")
  /\ held' = [held EXCEPT ![a] = @ \cup DOMAIN Head(chan[a]).svrs]

\* CleanNode first, unless nothing came.
ReloadSvrRes(a) ==
  /\ Receive(a, "reload")
  /\ held' = [held EXCEPT ![a] = IF Head(chan[a]).svrs = EmptyMap THEN @
                                 ELSE DOMAIN Head(chan[a]).svrs]

\* ModNode for every Svr: weight 0 deletes.
SyncSvrRes(a) ==
  /\ Receive(a, "sync")
  /\ held' = [held EXCEPT ![a] = (@ \cup DOMAIN Head(chan[a]).svrs) \ Zero(Head(chan[a]).svrs)]

\* The connection is gone for the agent: the worker has closed it, or an error
\* of the network.  It is marked for reconnecting, which CheckReconnect never
\* does: it returns at once because mTcpTask is set.
LoseRouter(a) ==
  /\ link[a] = "up"
  /\ link' = [link EXCEPT ![a] = "lost"]
  /\ chan' = [chan EXCEPT ![a] = <<>>]
  /\ req' = [req EXCEPT ![a] = "none"]
  /\ UNCHANGED <<fileVars, workerVars, mTaskPool, held, at, missed, owed>>

-----------------------------------------------------------------------------
Deliver(a) == InitSvrRes(a) \/ ReloadSvrRes(a) \/ SyncSvrRes(a)

Next ==
  \/ \E s \in Svr, w \in Weight : Edit(s, w)
  \/ Tick
  \/ CheckModSvr
  \/ SetModTime
  \/ RespawnWorker
  \/ \E a \in Agent :
       \/ InitSvrReq(a) \/ ReloadSvrReq(a) \/ RemoveTaskPool(a)
       \/ Start(a) \/ AskReload(a) \/ Deliver(a) \/ LoseRouter(a)

\* The worker's loop and the agents' router threads go on.
Fairness ==
  /\ WF_vars(CheckModSvr) /\ WF_vars(SetModTime)
  /\ \A a \in Agent : WF_vars(InitSvrReq(a)) /\ WF_vars(ReloadSvrReq(a)) /\ WF_vars(Deliver(a))

Spec == Init /\ [][Next]_vars /\ Fairness

-----------------------------------------------------------------------------
Connected(a) == link[a] = "up" /\ a \in mTaskPool

\* Nothing is under way between the file and the agent.
Settled(a) ==
  /\ Connected(a) /\ req[a] # "init" /\ chan[a] = <<>>
  /\ loading = NotLoading /\ ~stamp.modified

FileWeight(s)     == IF s \in Listed THEN file[s][Version(s)] ELSE 0
AgentWeight(a, s) == IF s \in held[a] THEN file[s][at[a][s]] ELSE 0

\* An agent to which nothing is under way has the weights of the file.  The only
\* exceptions are edits that fall into the second, or between the two halves, of
\* a load, deletions a new worker skips, and messages lost to a full buffer or
\* loads that answered another agent's RELOAD.
Agreement ==
  \A a \in Agent : Settled(a) =>
    \A s \in Svr \ (missed \cup owed[a]) : AgentWeight(a, s) = FileWeight(s)

\* While an agent runs, a Svr never returns to the weight of an earlier edit:
\* not when replies and broadcasts overlap, nor after the worker is replaced.
NeverBackwards ==
  [][\A a \in Agent : \/ at'[a] = [s \in Svr |-> 0]
                      \/ \A s \in Svr : at[a][s] <= at'[a][s]]_vars

\* An edit that shows in st_mtime reaches every agent that stays connected,
\* unless its buffer is full, a RELOAD of another agent takes it, or a later
\* edit is missed.
EditsArrive ==
  \A a \in Agent, s \in Svr :
    (stamp.modified /\ loading = NotLoading /\ Connected(a))
      ~> (at[a][s] = Version(s) \/ s \in owed[a] \cup missed \/ ~Connected(a) \/ req[a] = "init")
==============================================================================
