------------------------------ MODULE AgentSvrd -------------------------------
(***************************************************************************)
(* The process AgentSvrd (AgentMain.cpp, AgentServer.cpp): its start, and  *)
(* then the server thread (AgentServer) and the router thread (RouterConn) *)
(* side by side.  It listens before it has connected to RouterSvrd, so a   *)
(* call may begin that only a process that gets through its start answers; *)
(* and either thread can take the other one with it.                       *)
(***************************************************************************)
EXTENDS AgentConfig, FiniteSets

CONSTANTS
    Client, Patient, Backlog, MaxCalls, MaxFaults,  \* of AgentServer
    MaxMsgs,                                        \* of RouterConn
    MaxTogether,    \* bound: calls in an execution in which RouterSvrd sends or goes
    QosFile, RouterFile     \* the contents of qos.xml and router.xml

(* The process exits, and leaves everything as it was, if it refuses what   *)
(* qos.xml says.                                                           *)
Loadable == {q \in QosFile : ~Refused(Weighed(Read(q)))}
Loaded == {[qos |-> GetQosConf(q), router |-> GetOneRouterConf(r)] : q \in Loadable, r \in RouterFile}

ASSUME AgentSvrdAssumption ==
    /\ Patient \subseteq Client
    /\ Backlog \in Nat \ {0} /\ MaxCalls \in Nat /\ MaxFaults \in Nat \ {0}
    /\ MaxMsgs \in Nat /\ MaxTogether \in Nat
    /\ \A q \in QosFile : q \in [QosAttribute -> Int]
    /\ Loadable # {}

VARIABLES
    conf,   \* the settings and the router that the process runs with
    call, mTask, mConnecting, open, state, inbox, outbox, reset,
    server, capacity, events, sendBuf, writing, counted, faults,
    thread, pool, mStatus, fd, registered, event, requested, peer, sent, wire, handled

Server == INSTANCE AgentServer WITH handled <- counted
Router == INSTANCE RouterConn

serverVars == <<call, mTask, mConnecting, open, state, inbox, outbox, reset,
                server, capacity, events, sendBuf, writing, counted, faults>>
routerVars == <<thread, pool, mStatus, fd, registered, event, requested, peer, sent, wire, handled>>
vars == <<conf, serverVars, routerVars>>

(* main has read the files, and the listening socket is in epoll.          *)
Init == Server!Init /\ Router!Init /\ conf \in Loaded

-----------------------------------------------------------------------------
(* PrepareRun: ConnectRouter and the start of the threads.  A router that  *)
(* cannot be reached ends the process, even if the files name another.     *)

ProcessEnds ==
    /\ Server!End
    /\ thread' = "exited" /\ pool' = FALSE /\ mStatus' = "init" /\ fd' = "none"
    /\ registered' = FALSE /\ event' = {} /\ requested' = FALSE
    /\ peer' = "listening" /\ sent' = << >> /\ wire' = << >> /\ handled' = << >>
    /\ UNCHANGED conf

ConnectRouter ==
    /\ server = "up" /\ conf.router # NoRouter
    /\ Router!GenerateClient
    /\ UNCHANGED <<conf, serverVars>>

ConnectFails == thread = "starting" /\ fd = "none" /\ ProcessEnds

StartThreads ==
    /\ server = "up" /\ Router!InitSvrReq
    /\ UNCHANGED <<conf, serverVars>>

Dies == faults < MaxFaults /\ ProcessEnds

(* Somebody starts the process again, with files that may have changed.    *)
Restart ==
    /\ Server!Restart
    /\ thread' = "starting" /\ conf' \in Loaded
    /\ UNCHANGED <<pool, mStatus, fd, registered, event, handled, requested, peer, sent, wire>>

-----------------------------------------------------------------------------
SingleStart ==
    /\ thread # "starting" /\ Server!Loop
    /\ UNCHANGED <<conf, routerVars>>

RouterSide ==
    /\ server = "up" /\ Len(call) <= MaxTogether
    /\ Router!RouterSends \/ Router!RouterCloses \/ Router!Reset
    /\ UNCHANGED <<conf, serverVars>>

(* The loop of the router thread.  What it does to freed memory is done to *)
(* the memory of the whole process.                                        *)
RouterThread ==
    /\ server = "up"
    /\ \/ Router!EpollWait /\ UNCHANGED serverVars
       \/ Router!Recv /\ UNCHANGED serverVars
       \/ /\ Router!CheckTimeout
          /\ server' = "undefined" /\ events' = [e \in {} |-> {}]
          /\ UNCHANGED <<call, mTask, mConnecting, open, state, inbox, outbox, reset,
                         capacity, sendBuf, writing, counted, faults>>
    /\ UNCHANGED conf

ClientStep(c) == Server!InCall(c) /\ UNCHANGED <<conf, routerVars>>
Calls ==
    /\ Len(call) < MaxTogether \/ (peer \in {"listening", "open"} /\ sent = << >>)
    /\ Server!Calls /\ UNCHANGED <<conf, routerVars>>

Next ==
    \/ Calls \/ (\E c \in Client : ClientStep(c))
    \/ ConnectRouter \/ ConnectFails \/ StartThreads \/ SingleStart
    \/ RouterSide \/ RouterThread
    \/ Dies \/ Restart

Spec == Init /\ [][Next]_vars

(* The start ends one way or the other; both threads go on, and so does a  *)
(* client in a call.                                                       *)
FairSpec ==
    /\ Spec
    /\ WF_vars(ConnectRouter \/ ConnectFails \/ StartThreads)
    /\ WF_vars(SingleStart)
    /\ WF_vars(server = "up" /\ (Router!EpollWait \/ Router!Recv) /\ UNCHANGED <<conf, serverVars>>)
    /\ \A c \in Client : WF_vars(ClientStep(c))

-----------------------------------------------------------------------------
(* The settings are some that the engine can work with, and the router the *)
(* process has connected to is one that the files enable.                  *)
TypeOK ==
    /\ Server!TypeOK /\ Router!TypeOK
    /\ Usable(conf.qos) /\ (fd # "none" => Enabled(conf.router))
    /\ thread = "exited" <=> server = "down"

(* What a call returns tells what became of its request, whatever happened *)
(* to the process meanwhile (AgentServer).                                 *)
ReturnTells == Server!ReturnTells

(* The task of a client that has gone does not stay in the pool.           *)
GoneRemoved == Server!GoneRemoved

(* The process is lost to undefined behaviour only with more connections   *)
(* than LISTEN_BACKLOG, or after an error on the connection to its router: *)
(* never because the router has closed it or has sent what is refused.     *)
(* Until then the state has its type, with settings that the engine can    *)
(* work with and a router that the files enable.                           *)
Undefined ==
    /\ TypeOK
    /\ server = "undefined" =>
          \/ Cardinality(Server!mTaskPool) + 1 > Backlog
          \/ thread = "undefined" /\ peer = "reset"

(* Each process handles the messages of its connection in their order,     *)
(* each once, up to one that is refused.                                   *)
InOrder ==
    /\ Router!Ordered!Init
    /\ [][Router!Ordered!Next \/ ProcessEnds]_<<sent, handled>>

(* A client that waits gets its answer, or an error.  What RouterSvrd has  *)
(* sent before it closed the connection is handled.                        *)
Served ==
    /\ Server!PatientReturns
    /\ []<>(server = "undefined" \/ thread = "exited" \/ handled = sent \/ peer = "reset"
            \/ \E i \in DOMAIN sent : sent[i] = 0)
=============================================================================
