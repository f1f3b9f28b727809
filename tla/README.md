# Verification of HLBS, the Hupu load balancing system

This directory holds TLA+ models of the program in `src/`, the TLC
configurations that check them, and proofs checked by TLAPS. Every definition
is translated from the C++ source; `PROJECT.json` maps each to its lines.

## 1. The system and its parts

HLBS tells the clients of a service which of its servers ("Svrs") to call next.

| part | source | state it keeps | operations |
|---|---|---|---|
| **QoS engine** of AgentSvrd | `agentserver/src/SvrQos.cpp`, `command/Svr.h` | `mMapReqSvr` (known Svrs and their statistics), `mRouteTable` (kind -> Svrs in service, in order of load), `mErrTable` (kind -> Svrs that are down), rates and flags of the whole engine | QUERY (`QueryNode`), REPORT (`CallerNode`), configuration (`SaveNode`, `ModNode`, `DelNode`, `CleanNode`), and the rebuild that all calls trigger (`RebuildRoute`, `RebuildErrRoute`, `ReqRebuild`) |
| server tasks of AgentSvrd | `AgentServerTask.cpp`, `AgentUnixTask.cpp` | one task per client connection | parse a message, call the engine, reply |
| router thread of AgentSvrd | `AgentClientTask.cpp`, `AgentServer.cpp` | one connection to RouterSvrd | applies INIT, RELOAD and SYNC messages to the engine |
| detect thread of AgentSvrd | `DetectThread.cpp`, `Detect.h` | the entries being probed and two queues of requests | a pass every 100 ms: ping, then TCP connect; add, delete, expire |
| configuration of AgentSvrd | `AgentConfig.cpp`, `qos.xml` | thresholds of the engine | read once at start |
| **RouterSvrd**, the configuration centre | `routerserver/src/` | the Svrs of `svr.xml`, its modification time, the connected agents | send all on INIT, send the changed ones when the file changes |
| processes | `base/wMaster.inl`, `wWorker.cpp`, `wChannel*.cpp` | table of worker processes | fork, signals, respawn, channels between workers |
| event loop | `base/wServer.inl`, `wTask.cpp`, `wTcpTask.h` | pool of connections with receive and send buffers | epoll, framing, broadcast; heartbeats, which neither program switches on |
| TCP client | `base/wTcpClient.inl`, `wMTcpClient.inl` | connections to other servers | connect, read, forget, remove; a reconnect that never happens; heartbeats as above |
| shared memory | `base/wShm.cpp`, `wMsgQueue.cpp`, `wShmtx.cpp`, `wSem.h` | segments with a head, a ring of messages, a lock word | create, attach, allocate, push, pop, lock |
| threads | `base/wThread.cpp`, `wMutex.h` | run status, mutex and condition | start, wake, stop |
| start and end | `AgentMain.cpp`, `RouterMain.cpp`, `wMisc.cpp`, `wConfig.inl` | lock file, pid file, options | lock, bind, write, unlink |
| messages | `command/`, `base/wCommand.h`, `wDispatch.inl` | ids, sizes, handlers by id | register, dispatch, log in |
| client API | `extension/c++`, `extension/php` | a socket to the local agent | query, report |
| libraries | `lib/tinyxml`, `lib/log4cpp`, `base/wLog`, `wMisc`, ... | - | third-party code and helpers |

How they interact. A client asks its local agent over a socket for a node of
`(gid, xid)`; the server thread of the agent answers from the route table, and
takes the reports of the results. A query or report that comes late enough in
the period rebuilds the table of its kind: each node's failures of the period
become a new limit on its calls, nodes at the minimum limit go to the error
table, and those of the error table may come back. The error table asks the
detect thread for probes (`AddDetect`), reads results (`GetDetectResult`) and
gives them up (`DelDetect`); the two threads share three maps and two mutexes.
The router thread of the agent receives configuration over TCP and writes the
same maps the server thread uses, without a lock. RouterSvrd watches
`svr.xml` and broadcasts what changed.

The server thread answers over the event loop of `wServer.inl`, each connection
with two ring buffers (`wTask.cpp`); the router thread reads its one connection
with the loop of `wMTcpClient.inl`. AgentSvrd runs both threads in one process;
RouterSvrd runs its loop in worker processes that a master forks, watches and
tells to stop over channels.

What is hard here: two threads on one set of maps; a Svr moving between two
tables in four different functions; recovery, which needs queries, the detect
thread and the network to take their turns; limits computed by truncating
arithmetic against a minimum that also means "down"; one probe entry shared by
all kinds on a host and port; configuration that is sent once over a connection
that may be gone; rings whose pointers wrap; a pool of events that moves while it
is read; descriptors that are used again after they were closed; processes that
exit while signals are handled. `PROJECT.json` lists these hazards at their lines, each with
the properties that watch it or the reason there is none yet.

What makes each part correct:

- engine: every known Svr is in exactly one table; only failing nodes go down;
  down nodes come back on a probe made since they went down, but for the case named in
  section 4; kinds recover from total
  outages; calls are shared in proportion; a query is rejected only when every
  node fails.
- detect thread: a result that is read is the result of a probe of that host
  and port made since the entry was added; requests are not lost; the map stays
  bounded.
- RouterSvrd and its agents: after the last change of the file every connected
  agent has what the file says; a deleted Svr does not come back.
- processes: no worker is lost, replaced twice or waited for in vain; channels lead
  to the workers they are said to lead to; an order to stop ends.
- calls of the API: what a call returns tells whether it was answered and counted.
- buffers and queue: messages come whole, once and in order, whoever is killed and
  wherever a buffer wraps; a connection is given up for a fault only.
- memory, sockets, threads, daemons: no memory given out twice, no descriptor with
  two owners, no wake-up lost, one daemon on a host.

## 2. Modules

| module | models |
|---|---|
| `SvrStat` | the statistics record of one node and the arithmetic of a period: `RouteCheck`, `ReqRebuild`, `GetAddCount`, recovery. Operators on one record, no state. |
| `SvrQos` | the engine as a state machine: the tables, every operation, the two threads of the agent, time, and the detect thread as far as `GetDetectResult` shows it. |
| `MCSvrQos` | instances of `SvrQos` for TLC. |
| `SvrQosClaims` | what the manual or a comment says of the engine and the code does not do. |
| `DetectBoard` | abstract: the board of answers about hosts that the engine asks for, reads and gives up. |
| `DetectThread` | the detect thread in detail, with `RebuildErrRoute` as its client; implements `DetectBoard`. |
| `RouterSync` | one worker of RouterSvrd, `svr.xml`, and the agents: loads, INIT, RELOAD and SYNC messages, connections, replacement of the worker. |
| `RouterSyncClaims` | what the manual or a comment says of them and the code does not do. |
| `Task` | one direction of a connection byte by byte: send ring, kernel buffer, receive ring. |
| `Stream` | abstract: messages whole, once and in order until something breaks. `Task`, `MsgQueue` and `RouterConn` implement it. |
| `AgentServer` | calls of the client API and the server thread's loop that serves them. |
| `RouterConn` | the agent's connection to RouterSvrd and the loop of the router thread. |
| `AgentConfig`, `RouterConfig` | what the two programs make of their files and command lines: functions of their contents. |
| `SvrKey`, `Ping` | the order and equality of Svrs; what a ping makes of the packets that arrive. Pure. |
| `AgentSvrd`, `MCAgentSvrd` | the process: `AgentServer` and `RouterConn` side by side, with start, exit and restart over the files of `AgentConfig`; its instance for TLC. |
| `Master` | the master process, its table, signals and channels, and its workers. |
| `MsgQueue`, `Shm` | the queue in shared memory step by step; segments, their heads, and the lock of several processes. |
| `Thread`, `Instances`, `Heartbeat`, `Sockets`, `MemPool` | the thread object; several starts of one program; heartbeats and timers; sockets over descriptors; the memory pool. |
| `RouterTable` | the tables behind RouterSvrd's Svrs. |
| `Commands` | ids, sizes, senders and handlers of the messages, and the logins. Pure. |
| `MCBase` | composes `Task`, `MsgQueue`, `Shm`, `Thread`, `Instances`, `Heartbeat`, `Sockets`, `RouterTable`, `MemPool` and `Commands` for TLC. |
| `SvrStat_proofs`, `SvrQos_proofs`, `DetectThread_proofs`, `RouterSync_proofs`, `AgentSvrd_proofs`, `Streams_proofs`, `Master_proofs`, `Base_proofs` | the theorems and their proofs. |

### How SvrQos corresponds to the code

State: `known` is the key set of `mMapReqSvr`, `stat` its values; `mRouteTable`
holds for each kind the sequence that the multimap of the code is in iteration
order, with the attributes of the `SvrKind_t` that is the map's key (time since
the last rebuild, period, `mPindex`); `mErrTable` a set for each kind, since the
order of its list is never used; `down` the time down and the requests since
(`mStopTime`, `mReqAllAfterDown`), and, as history, whether a probe of its host has
succeeded since then, before, or not (`found`, of the entry that is in the detect
thread's map); `detect` the answer of `GetDetectResult` for
each host and port; `svc` the place of the server thread in its handler.

Actions:

- `QueryNode(k)` then `Select`: a QUERY. `GetRouteNode` first rebuilds and then
  scans the table; the split lets the router thread act in between.
- `CallerNode(s, ok)` then `CallerRebuild`: a REPORT, counted and then rebuilding.
- `SaveNode`, `ModNode(s, weight)`, `CleanNode`: the router thread. A RELOAD
  message is `CleanNode` and a series of `SaveNode`; INIT a series of `SaveNode`;
  SYNC a series of `ModNode`; each step is an action, so that the server thread
  interleaves with them.
- `RebuildRoute(k)` is part of the two server actions and has the three cases of
  the code: no table (`RebuildAllDown`), too early or suspiciously late
  (`RebuildNotDue`), the end of a period (`RebuildDue`).
- `Tick`: a second passes. `DetectProbe`, `DetectForget`: the detect thread
  stores a result, or loses the entry by deletion, expiry or clearing.

Abstractions: loads (`mLoad`, a function of latency, success rate and weight)
are any value of `Loads`, chosen anew at every rebuild, so weights are left out;
`delay_load` is any of `DelayLoads`; the average error rate of an overloaded
kind any of `AvgErrRates`. Rates are integers out of `RateUnit`. Times are ages
and saturate above the largest threshold they are compared with. `lastAlarm` is
kept at 0 where the code never reads it. Statistics only logged are left out.

### How DetectThread corresponds to the code

State: `mDetectMapAll` maps the nodes being probed to their results;
`mDetectMapNewadd` and `mDetectMapNewdel` are the key sets of the two queues
(their values are not used); `thread` is the place of the detect thread in its
pass with its local maps; `client` is one call of `RebuildErrRoute`, which reads
about some hosts one after the other and then calls `AddDetect` and `DelDetect`.

Actions: each stretch under a mutex is one (`GetDetectResult`, `AddDetect`,
`DelDetect`, `TakeQueues`, `DeleteNodes`, `DeleteExpired`, `CleanAll`). `ProbeNew`
and `ProbeAll` start the probe of one node, outside any mutex, and `WriteResult`
stores one field of its result, in either order, as `DoDetectNode` writes it
without the mutex under which it is read. Times are only compared with the time
read at the start of a pass, so a node keeps whether its next probe was due and
whether it had expired, and `TakeQueues` lets any of these times pass. As in the
code, a node that is added again while it is in the map keeps its old expiry.

`SvrQos` uses the board with each call of the engine as one step: `AddDetect`,
`DetectProbe` and `DetectForget` are its steps there, and what `DelDetect` queues
is a later `DetectForget`. A probe that ends between two reads of one rebuild is
seen there before or after the whole rebuild.

### How RouterSync corresponds to the code

State: `file` is `svr.xml`, for each Svr the sequence of the weights it has had;
its `VERSION` is the length, since the manual asks for a new version with every
change. `stamp` is what `IsModTime` can see of the modification time, which has
whole seconds. `mMapReqSvr` keeps for each Svr of the worker the version it was
first stored with (`SaveNode` never changes it) and the edit its weight is from;
`image` is the part of it that a new worker inherits from the master's memory.
`loading` is a load of the file that has read it and not yet called `SetModTime`,
so that an edit may fall in between. `mTaskPool` and `chan` are the worker's
connections with what is in their send buffers and in the network, `link`, `held`
and `at` the agents' side: the connection, the Svrs, and the edit each is from.

Actions: `CheckModSvr`, `ReloadSvrReq`, `InitSvrReq` and `SetModTime` (the end of a load
with its broadcast or reply) are the worker's loop; `InitSvrRes`, `ReloadSvrRes`,
`SyncSvrRes` the agent's handlers. `RemoveTaskPool` and `LoseRouter` lose a connection
on one side, at any time: a process may end and a network fail. `RespawnWorker` is a
worker's death with the load of the next one, `Start` an agent's start or restart up to
its INIT request. `AskReload` sends the RELOAD that the code provides and calls nowhere.
A message is sent whole or, when the buffer has no room, not at all, and arrives in
order.

`missed` and `owed` record edits the code is known to lose, where it happens: an
edit that leaves `st_mtime` as it was or comes between the two halves of a load,
a deletion a new worker skips, a message refused by a full buffer, a change
found by the RELOAD of another agent. They change nothing else, and the
properties except exactly these.

### How Task corresponds to the code

State: the two rings of `wTask.cpp` as functions from offsets to bytes, with read
pointer, write pointer and length kept apart, as the code keeps them; `wire` is
what the kernel holds. A byte is `<<k, j>>`, the j-th of the k-th message, so that
a reader that has lost its place is seen to have lost it. Actions: `Send2Buf` and
`SyncSend`; `TaskSend` with its straight and its wrapped branch, in which the kernel
takes as much as it likes; `TaskRecv` with the reading of what has come and the
rounds of its parsing loop. A length that is put together from the wrong bytes is
any length. `faults` records the four things the code does wrong, each where it
happens: a send from a wrapped buffer (`wrapped`), a length read across the end of the
buffer (`straddled`) or before its four bytes have come (`split`), a part that is sent
again (`partial`). The properties promise nothing after them, and `WrapsLate` says how
long a connection is safe from the first two.

### How AgentSvrd corresponds to the code

`AgentServer`: a call is a record of its client, kind and result; `state`, `inbox`,
`outbox` and `open` are its connection; `mTaskPool` is the set of connections with a
task, `events` what is left of a round of `epoll_wait`, `capacity` the room of
`mEpollEventPool`. A request or an answer is the number of its call. Actions:
`HlbsQuerySvr`, `HlbsNotifyRes` up to the connection, `SyncSend` and `SyncRecv` of the
client; `EpollWait`, `AcceptConn`, `AcceptFails` and `HandleEvent` (`RecvError`,
`TaskRecv`, `RecvEnd`, `TaskSend`) of the loop; `Die` and `Restart`. What a request
does to the Svrs is `SvrQos`; `counted` is how often it was done.

`RouterConn`: `pool`, `mStatus`, `fd`, `registered` are the client, its socket and its
place in epoll, `sent`, `wire` and `handled` the messages. The forgotten descriptor,
the client that is erased from the map that is being walked and the process that
ends with the thread are as in the code.

`AgentSvrd` runs both, with what joins them: the process reads its files
(`conf`, one of those `AgentConfig` does not refuse), listens, connects to the first
router enabled and exits if that fails, and starts its threads; the use of freed
memory in one thread is the end of both. A behaviour has either RouterSvrd's messages
or a second call, not both (`MaxTogether`): the two threads of this module share
nothing but the life of the process.

### How Master corresponds to the code

`mWorkerPool` is the table; `flags` the four variables the signal handler sets; `fds`
the master's descriptors, numbered as the kernel does, lowest first, since
`wChannel::Close` leaves the number behind; `proc` the processes with what each worker
believes of the channels of the others (`view`), `mail` what is under way on each
channel. `HandleSignal` is one round of `MasterStart`'s loop: reaping (`ReapSlot`, with
the respawn, and the last slot that keeps its process number), the messages to the other
workers, the order to stop. `Wake` is `sigsuspend`. A process is a number, and the pair
of sockets made for it has the same. Workers crash, exit with the code that stops a
respawn, read their channels and quit; a worker that was told to ends with code 0, one
that could not be set up with 2, and 1 stands for every other end.

SIGHUP (`Restart`) starts a worker for every slot as if all were free and then tells those
from before to terminate. `WorkerStart` looks for a free slot and does not test whether it
found one: with the table full it runs past its end (`Overrun`) and what follows is
undefined (`master = "undefined"`). It finds room only after a failed fork, since the last
slot otherwise keeps a process number for ever. The workers it then starts are of the type
`PROCESS_JUST_SPAWN`, whose case falls through: they are marked `mDetached`, and the
master neither signals them nor counts them as live. `detached` in `proc` is the history
of who was started so.

### How the parts of MCBase correspond to the code

Each has its own module with its own comment on state and actions; a behaviour of
`MCBase` chooses one of them and is a behaviour of that part, with that part's
fairness, so the run explores their union and not their product: they share nothing.
`Shm`: the pointers in the head of a segment are addresses of the process that wrote
them, so what another process reads through them depends on where it has the
segment. `Thread`: each stretch with the mutex held is a step, `Spurious` wakes the
condition for nothing. `Instances`: a file has an identity besides its name,
because a lock is on the file. `Heartbeat`: two ends, each with its timer, with or
without heartbeats. `Sockets`: every call is a list of kernel calls of which any may
fail; a descriptor is the lowest free one. `MsgQueue`: both indexes are read at
the beginning of a call and one is written at its end, and a process may be killed
in between. `Commands` has no behaviour; its two statements are evaluated as
assumptions of `MCBase`, those of `SvrKey`, `Ping` and `RouterConfig` as assumptions of
`MCAgentSvrd`.

Neither program uses the message queue, allocates from the pool, opens a Unix socket,
logs in, or switches heartbeats on (`wServer.h:118`, `wTcpClient.h:64`), and the lock
in shared memory is taken only by calls that are commented out
(`wServer.inl:565`-`605`). These parts are checked as the library they are.

## 3. Runs

| run | instance | shows |
|---|---|---|
| `qos` | two Svrs of one kind, own hosts, every probe result, two loads | well-formedness, `OrderedByLoad`, `Partition`, `NoEmptyTable`, `DownAtMinimum`; steps: `OnlyFailingGoDown`, `RecoveryIsProbed`, `RejectOnlyIfAllFail` |
| `qos_period` | one period of three Svrs, loads 2 to 4, all limits, nine calls | `Balanced`: the round robin keeps load times calls of every node near the first node's |
| `qos_kinds` | two kinds with one Svr each on one host and port | `RecoveryIsProbed` when one entry answers for two nodes, which go down and ask for it at different times |
| `qos_outage` | one Svr whose host answers probes | liveness: `OutageEnds` |
| `detect` | two hosts, a map full at two entries | `ImplementsBoard` (refinement of `DetectBoard`), `LaterRequestWins`, `Bounded`, `ProbedBeforeDropped`, `NoFalseAnswer`, and liveness `ProbedWhileWaiting` |
| `sync` | two agents, one Svr with two edits, room for one message | `Agreement`, `NeverBackwards`, and liveness `EditsArrive` |
| `agent` | the process with two clients, three calls, one fault, two messages of RouterSvrd | `ReturnTells`, `Undefined` (the process is lost only for the two reasons named), `InOrder` (refinement of `Stream`), and liveness `Served`, `GoneRemoved` |
| `master` | two workers, two crashes, one failed fork, two detached workers at most, every signal | `InTable`, `Channels`, and liveness `Replaced`, `Stops` |
| `base` | the nine parts of `MCBase`, one in each behaviour | `WellFormed`, `FaultsOnly`, `PiecesApart`, `OneDaemon`, `SocketsAgree`, `RoutedOnce`; `WholeAndOnce` (`Task` and `MsgQueue` refine `Stream`), and liveness `WorkIsDone`, `HungIsFound` |
| `claim_*` | | each finds the behaviour that contradicts one sentence of the manual or a comment |

Bounds. `MaxPre` limits the calls given out for a kind in a period, `MaxReports`
the results reported on a node between two rebuilds; both are lifted by the
rebuild, so histories of any number of periods are explored. With `ReqMin` 1 and
`ReqMax` 3 a limit takes every class of value that the code tells apart (unset,
at the minimum, minimum plus one, larger, clamped), and `ProbeTimes` 1 is a
recovery limit at the minimum, as in the shipped `qos.xml` (3 against 10).
Periods are one tick; two ticks are in the period, three are late. `ReqCap`
saturates the requests since a node went down, above the threshold `DownReq`.
Two Svrs are enough for a table to shrink to one and to nothing, for a node to
come back beside another and after all; the arithmetic is per node. `Balanced`
needs three nodes for the scan to skip one, and runs over one period, from any
state a rebuild leaves; nine calls and loads of 2, 3 and 4 are what it takes for the
third node to fall behind by a call of the second node besides two of the first, which
shows from the eighth call on. Time stands still there and the period stops at the
bounds, so that run does not check for deadlock. The other runs of the engine do.

`Balanced` holds for periods that begin with fresh counters and keep their
nodes, as long as nothing failed: a node added in mid-period takes the
statistics of the last one, a refusal counts as a call given out, and a
recovered node comes with its old count, and each of these breaks the bound.

In `detect` nothing is counted, so no bound is needed: with two hosts the map is
full in some passes and not in others, and every place of a pass meets every call of
the client about the same host and about another. (With three hosts and a
map of two, 20 million states, the invariants hold as well.)

In `sync` the file starts empty or with one weight, so one edit more can change or
delete a Svr, and two can add and delete one; one Svr is enough because nothing
relates two of them but the message they share. Replies, broadcasts and refusals
meet in every order in a buffer that one message fills; what a network that takes
more adds (`WireCap`) does not matter to the invariants, which are proved for every
value of it.

`agent`: two clients, of which one never runs out of patience; a third call is
enough for a connection of a client that has given up to be still in the pool when
another call has its number of tasks; `Backlog` 3 is reached and passed by that, and
the growth of the event pool is met in the middle of a round. One fault is a death of
the process or a failed call. Files: `QosFiles` has one that is accepted with an
extreme weight, and two that are refused, `RouterFiles` one with a router enabled in
second place and one without any. 560 thousand states.

`master`: with two workers, a slot is freed and used again while the other worker has
not heard of it, both exit in one SIGCHLD, and the last slot is reaped a second time;
two crashes are enough to have one during the handling of the other. One failed fork is
what empties a table, and two detached workers (`MaxDetached`) are one order to restart that
fills it. 1.36 million states.

`base`: a ring of six bytes with lengths of two takes messages of one and three bytes,
so that every distance of pointers from the end occurs, a message ends exactly at the
end of the buffer, and one straddles it; three messages carry more than twice the
buffer. The queue has nine bytes with four held back, for messages of one to three
bytes, of which the last is more than `Pop` has room for. Two processes with
two sizes of segment, two callers of a thread with four calls, three starts of a
program, two ticks of silence, three sockets over two descriptors, two kinds on two
hosts with five saves, a pool of sixteen bytes: each is the smallest in which all
of the actions and the exceptions named in the properties are met. 400 thousand
states. `agent`, `master` and `base` stop where the calls, crashes, messages or
starts of the bounds are used up, so they do not check for deadlock; that they do not
stop before is what their liveness properties say.

Fairness. `EditsArrive`: weak fairness of the worker's loop (`CheckModSvr`,
`SetModTime`, and the requests of each agent) and of each agent's router thread
(`Deliver`): both are loops around `epoll_wait` with a timeout. Nothing is assumed of
edits, time, connections or restarts. `ProbedWhileWaiting`: the detect thread goes on
(weak fairness of `Pass`: pings and connects time out), and if it takes its queues again
and again, the time of a node's next probe has passed at some of them (strong fairness
of `TakeQueuesDue`; the code sets it ten seconds ahead). Nothing is assumed of the
client, of expiry or of what probes find. `OutageEnds`: the server thread finishes its
handler and time passes: weak fairness. Clients query every kind again and again and are
served between the reports of others: strong fairness of `QueryNode`. The detect thread
probes every entry in its next pass and then every ten seconds: strong fairness of
`DetectProbe`, since the entry may be removed and added again. A result must also still
be there when the next query comes; entries live 600 seconds, so this is a premise on
the rate of queries (`ResultsWait`) and not a fairness of the code. Without it TLC finds
the run in which every result expires unread. `agent`: the start of the process ends one
way or the other, both threads go on, and so does a client in a call (weak fairness of
each): loops around `epoll_wait`, and calls with a timeout. Nothing is assumed of new
calls, RouterSvrd, deaths or restarts. `master`: the master is scheduled when a signal
waits, its handling ends, and every worker reads its channel and ends when it was told
to (weak fairness). Nothing makes a worker crash or a signal come. `base`: tasks whose
socket is ready are served, a thread that can run does, so does one whose mutex is free,
time goes on and what was sent arrives (weak fairness).

## 4. Disagreements with the documentation

Each is a run with one property that TLC violates:

- `claim_period`: the period of a kind (`REBUILD`, 60 s) is lost after a total
  outage. `RebuildRoute` inserts a `SvrKind_t` made by its caller, whose period is
  the initialiser 3.
- `claim_deleted`: an agent that starts after a Svr was deleted uses it all the
  same: INIT and RELOAD carry Svrs of weight 0, and the agent gives them the
  default weight.
- `claim_reconnect`: an agent that lost RouterSvrd never connects again.

More that the models show and that have no run, because no document says otherwise in
so many words. The properties name each as an exception where it matters.

Engine: a node that has just recovered goes down again without a failed call, since its
limit `TIMES` is not above `REQ_MIN` (limit_adjustment.md:41 calls a node at the
minimum overloaded); one accepted connection brings a node back before any condition
of recovery is met (`SvrQos.cpp:1269`), where the same line of the manual asks for
both; an answer that was good when the node went down, because a node of another kind has
the same host and port or from the last time it was down, brings it back as soon as it has
been down for `BEGIN`, since `GetDetectResult` does not tell when a probe was made
(`SvrQos.cpp:1226`-`1284`); the requests counted since a node went down can decrease, because rejected calls
are subtracted from a count that never contained them (`SvrQos.cpp:973`); nothing
checks that `REQ_MIN` is below `REQ_MAX`.

Event loop: with more than `LISTEN_BACKLOG` connections the pool of events moves while
`Recv` goes through it (`wServer.inl:172`). The client that connects computes its
timeout in microseconds and hands it to `poll`, which takes milliseconds
(`wTcpSocket.cpp:144`). After -3 a caller of the API cannot know whether its report was
counted. `hlbs.cpp:171` says that 0 means the
report succeeded; the agent answers 1 then (`AgentServerTask.cpp:165`).

Router thread: a connection that RouterSvrd closes is forgotten and not closed, its
descriptor stays in epoll and the thread spins (`wMTcpClient.inl:240`, `279`); after an
error the client is erased from the map under iteration and used once more (`330`);
only the first enabled router is tried.

Rings: the read pointer after a send from a wrapped buffer is computed from the length
already reduced (`wTask.cpp:173`), the length of a message is read before it has come,
and `wSocket.cpp:99` sends again what was sent in part. A connection with one request
and one answer, as the API uses it, carries too little to meet the first two.

Master: SIGKILL is never resorted to (`wMaster.inl:144`); SIGHUP runs over the table
(`235`), or, when a failed fork and exits have emptied it, starts detached workers
(`566`-`569`) that nobody signals (`371`) or counts (`303`), over which the master exits; a
failed fork leaves a stale descriptor (`511`) and is tried again only at
the next SIGCHLD; the close and the open of a replaced worker, read together, give the
other workers a wrong channel (`wChannel.cpp:194`).

Files: a log line of `conf.xml` without MAX_FILE_SIZE crashes the process, the test is
the wrong way round (`AgentConfig.cpp:58`, `RouterConfig.cpp:53`); `-h` and `-p` have no
effect; without SERVER RouterSvrd exits and AgentSvrd runs without listening. A ping of a
process whose number does not fit into 16 bits never succeeds (`wPing.cpp:267`). A
Svr's port is an int, that of a report an unsigned short.

Base: a segment created twice begins its head anew; a stopped thread exits with its
mutex locked; a lock file whose name is removed between another start's `open` and
`flock` admits two daemons; an end of a connection that sends messages sends no
heartbeats, and only heartbeats clear the count; `Accept` and `SetKeepAlive` lose a
descriptor when `setsockopt` fails, clients that give their connection up forget
theirs without closing it (`wMTcpClient.inl:279`, `288`, `wTcpClient.inl:133`), and a `Connect` without a timeout reports success
whatever happened; `Alloc` compares the size with NULL and gives out memory past the
end, and a second `Reset` frees twice; an agent with AGENT_LOGIN on could not be
reached by the API. The comment on SOCKET_HANDLE in `extension/command/Common.h` names
its two values the wrong way round.

## 5. Proofs

TLAPS checks the theorems below for every value of the constants that satisfies the
named assumptions: any finite set of Svrs, any kinds and hosts, any thresholds, any
sizes of buffers, any number of clients, starts, sockets and calls. The assumptions say
that sizes and thresholds are positive where the code makes them so (`QosAssumption` and
`StatAssumption`, which `SettingsUsable` proves of every process that did not exit over
its `qos.xml`; `DetectAssumption`, `SyncAssumption`, `ConfigAssumption`), that a buffer
is longer than a head (`TaskAssumption`, `MsgQueueAssumption`), that bounds are numbers
(`AgentSvrdAssumption`, with at least one fault; `ThreadAssumption`,
`RouterTableAssumption`, `SocketsAssumption`, `MasterAssumption`, with at least one
worker and any number of crashes, failed forks and detached workers) and that starts are finitely many (`InstancesAssumption`).

- `SvrQos_proofs`, with the lemmas of `SvrStat_proofs`: `Invariance` (`Spec => []IInv`);
  `TypeCorrect`, `PartitionCorrect`, `NoEmptyTableCorrect`, `OrderedByLoadCorrect`,
  `DownAtMinimumCorrect`; the action properties `RecoveryIsProbedCorrect` and
  `RejectOnlyIfAllFailCorrect`, and `OnlyFailingGoDownCorrect` under `ReqMin < ReqMax`,
  which the code does not check: with `REQ_MAX` at most `REQ_MIN` every node with
  traffic goes down; and `BalancedCorrect`, over a period.
- `DetectThread_proofs`: `ImplementsBoardCorrect` (the refinement),
  `NoFalseAnswerCorrect`, `ProbedBeforeDroppedCorrect`, `LaterRequestWinsCorrect`,
  `BoundedCorrect` and the type invariant.
- `RouterSync_proofs`: `AgreementCorrect`, `NeverBackwardsCorrect` and the type
  invariant.
- `AgentSvrd_proofs`: `Inductive` (`Spec => []IInv`), `ReturnTellsCorrect`,
  `UndefinedCorrect` and `InOrderCorrect` (each process handles the messages of its router
  as a `Stream`). And of functions: `SettingsUsable`; `SvrsOrdered`, that the order of
  Svrs is strict and a lookup finds what `operator==` calls the same, which is why sets of
  Svrs may stand for the maps; `ReportFinds`, `PingFinds` and `PingNeverFinds`, the exact
  conditions on a port and a process number.
- `Streams_proofs`: `StreamsCorrect` and `QueueStreamsCorrect`, the refinements of `Stream`
  by the buffers of a connection and by the queue in shared memory, together
  `WholeAndOnceCorrect`.
- `Master_proofs`: `Invariance` (`Spec => []TableInv`), `InTableCorrect` and `ChannelsCorrect`.
- `Base_proofs`: `OneDaemonCorrect`, `SocketsAgreeCorrect`, `RoutedOnceCorrect`,
  `PiecesApartCorrect`, `FaultsOnlyCorrect` and `WellFormedCorrect`.

Argument. None of the invariants is inductive alone: that a deletion leaves no
empty table needs that nodes are not listed twice, that new nodes keep the order
needs the table not to be empty of its last node's load, that recovery keeps the
partition needs that a Svr is listed under its own kind. `IInv` is their
conjunction, stated table by table (`TableOK`, `ListOK`) and Svr by Svr
(`Covers`: known means in exactly one table). A rebuild changes one kind:
`KindStep` reduces it to facts about the new table and the new error list of that
kind, `QuietStep` covers the steps that only change counters and ages. The
arithmetic is in `SvrStat_proofs`: `ReqRebuildType` says that a rebuild keeps an
unset limit or leaves one between `ReqMin` and the clamp, and that a node
selectable and within its error rate stays selectable, for which the cut of
suspects to `ReqMin + 1` and not `ReqMin` matters.

In `DetectThread_proofs` the inductive invariant adds two things to the properties:
what a pass has left to do at each place (`PassOK`; without it, that deletion
and addition do not meet is not preserved when the queues are taken), and that a result
in the map is whole unless its node is under probe (`ResultsOK`). The second gives
both that nothing unprobed is dropped, since deletions happen between probes, and
that a half-written result is read as the old answer, a bad one or the new one:
a good answer needs a type that only a successful probe writes and a code that the
same probe has written or the last one left. For the refinement each action
is a step of the board or leaves what is shown of each host: a node on its way from
the queue through the thread's local map into the result map is shown
without a result all along (`QuietBoard`).

In `RouterSync_proofs` everything is said of the edit that a weight is from. For each
agent `AgentOK` says: the edits on their way come in the order they were made and none
is before what is applied (`Monotone`); none is beyond the file, and for a connected
agent none is beyond the worker's memory (`UpTo`); and for a connected agent whose INIT
was answered, what memory has of a Svr is applied or on its way, unless it is owed or
part of the load in progress (`Reached`). The second bound is what makes an appended
message keep the order: a new worker may remember less than the last one sent, but then
nobody is connected to it yet. `Total` is needed because a RELOAD reply drops what it
does not name; it names everything the agent knows, since it names all of memory, which
bounds what a connected agent knows. `LoadedOK` says that memory is up to date when the
file's time says so, but for the Svrs in `missed`. The lemmas on queues (`AppendQueue`,
`DeliverQueue`, `PrefixQueue`) carry this through a send, a delivery and a lost
connection; `QuietAgent` covers every other step.

`RecoveryIsProbed` and `RejectOnlyIfAllFail` follow from `IInv` by a look into the one
step that can recover or reject. That an answer `"ok"` of a node that is down has been
found since it went down, or was there before, is an invariant beside it (`FoundOK`). A node recovers in `RebuildAllDown` because of a probe,
or in `CleanNode` and `SaveNode`, or after `DownTime` seconds and `DownReq` requests, where a
sum of calls over the nodes of a kind is positive only if one of them was called; the ages
saturate above the thresholds. The scan of `GetRouteNode` that rejects has gone once
around the table, so it has passed every node of it.

`BalancedCorrect` has an inductive invariant of its own, `Rounds`, about the index at
which the next scan begins: the nodes the scan has passed have as much work as the first
node; and when it begins at the first node, the second is at most one call of the first
behind it, and no other node more than one call of its own behind the second.
Within a period `RebuildRoute` changes nothing (`PeriodRebuild`), so a step is one call for
one node. The bound stated for `Balanced` earlier, two calls of the first node for every
other, cannot be proved, and with loads 2, 3 and 4 is false from the eighth call on: the
first node takes calls until the second has the least work of the two, whatever the
third has. The property now says so.

In `AgentSvrd_proofs` the inductive invariant has three parts. Of the server
(`ServerInv`): a client's connection is the one its pending call opened; connection `n`
carries nothing but the request and the answer of call `n`, one of them at a time, and
each is counted once (`Carried`); and the answer that is on its way tells what the
engine did (`Told`). Of the router's connection (`RouterInv`): the thread leaves its
loop only after a reset, and what RouterSvrd sent is what was handled followed by what
is on the wire, until a message is spoilt. Of the process (`ProcessInv`): its threads
end together, and the server's state is undefined only when it had more tasks than the
`Backlog` events its pool begins with, or the router thread's was first. `Undefined`
follows. The rates of `qos.xml` are bounded by the three places that set a default,
refuse or clamp; `operator<` is a lexicographic comparison of four fields; a ping finds
nothing because no packet's 16 bits are a process number that does not fit into them.

In `Streams_proofs` a byte has an absolute position: `Laid` gives every message the
position `off` of its first byte, and the invariant says which positions the two
buffers and the wire hold, how pointers into a ring are remainders of positions, and at which
place of its work each side is between the steps of one call. In the queue the reader's
index may only lag and the writer's only lead what the other side has read
(`PusherHolds`, `PopperHolds`): what a side read at the beginning of its call is still free,
or still filled, when it uses it (`Waiting`), which is why the two need no lock.

In `Base_proofs` each part has its invariant, and `BaseStep` says that the parts do not
disturb each other. For `OneDaemon`: who holds the lock of the present file is
unique (`LocksApart`) and the pid file is the holder's (`PidOwned`) unless the names a
run has lapsed from say otherwise. For `LeftForCause`, the part of `FaultsOnly` about
heartbeats: a counter counts only beats that were sent and not answered (`BeatInv`). For
sockets: a descriptor belongs to at most one open socket object, or was lost while it was
open, and then stays open and is never given out again. For the
tables of RouterSvrd: a Svr saved again is in the list once. For the pool: the pieces
given out lie one behind the other.

In `Master_proofs` the invariants are stated of a record `t` of the master's table,
descriptors, processes and mail, since a handler takes such a record through many values
in one step. `TableInv` is `Sound` of the state, with what bounds the numbers of
processes. `Sound` says that who was not waited for is at its slot (`Waited`); that who
is in the table was started for that slot, is marked exited only after it was waited
for, and is marked detached exactly if an order to restart started it (`Entries`); that of
the other processes started for a slot at most one is not gone (`Latest`); that nothing
is known of a process that is not there yet (`Fresh`) and no pair of sockets has two
descriptors (`FdsApart`); and that who was told to stop is marked (`Marked`), so that it
is not replaced. `Latest` makes the slots
count the processes: with no more gone than have crashed (`GoneCounted`) and no more
detached than orders to restart allow, one that is still to be carried out included
(`ApartCounted`, `Ahead`), a slot to be filled leaves a number free (`RoomForOne`), so a
start has a process and a descriptor to take. `Untouched` is what the exception in `InTable`
rests on: as long as no fork has failed, the last slot is never emptied, so an order to
restart finds no room, the table is run over, and nobody is ever detached. The loops of
`WorkerStart`, `ReapChildren` and of the messages read at once are functions of the
number of slots or messages done; each has an invariant over that number (`Going` for
`WorkerStart`). `ChannelInv` holds while no fork has failed and nobody has ended with code 2. Then each slot has the
descriptor of its own number (`Own`): closing the channel of slot `i` frees `i` and
nothing else, so the next pair gets `i`, and what a new worker closes by a number left
behind is never its own. And until the order to stop, what a worker knows of a slot,
which is what it has or the last message about the slot in its mail, is the master's
worker or a number that is no channel of its own (`Knows`, `Known`): the table is passed
on by copying at fork and by messages afterwards, and both say the same.

Only model-checked: the liveness properties, which are beyond the prover under fairness
(`ProbedWhileWaiting`, `OutageEnds`, `EditsArrive`, `Served`, `GoneRemoved`, `Replaced`,
`Stops`, `WorkIsDone`, `HungIsFound`). Every invariant,
every other action property and every refinement that a passing run checks is proved.

## 6. Plan

Done: the engine (`SvrStat`, `SvrQos`), the detect thread and its board, the
configuration (`RouterSync`), the agent's process (`AgentServer`, `RouterConn`,
`AgentSvrd`), the processes of RouterSvrd (`Master`), and the parts of `base/`.

Left, most important first:

1. Proofs about the pure parts: the settings of RouterSvrd (`RouterConfig`), the command
   ids (`Commands`).
2. The two threads of the agent inside one rebuild. A race there is undefined behaviour
   of `std::map`, after which nothing could be promised, so the module would state
   where the two may meet and nothing else.

## 7. Not modelled, and why

- XML parsing (`lib/tinyxml`) and `lib/log4cpp`: third-party libraries. They are a large part of the lines of the repository.
- Logging (`wLog.cpp`), terminal input (`wReadline.cpp`), process titles
  (`wProcTitle.cpp`), formatting and parsing (`wMisc.cpp` but for `InitDaemon`, `wString.h`),
  wrappers of system calls (`wFile.cpp`) and `wMemCheck.cpp`: no state that the load
  balancing depends on. `wThreadPool.cpp` is a list of thread objects that nobody uses.
- Code nobody calls: `NotifyNode` (`SvrQos.cpp:229`), the prefetch of `RouteCheck` (561-639),
  `ModRouteNode` of the agent (1333-1383), the queries, reports, rebuilds and deletions in
  RouterSvrd's copy of the engine, the accept mutex (`wServer.inl:565`-`605`, commented out),
  the tasks on a Unix socket.
- `IsExistNode`, `IsVerChange` and `GetSvrAll` of the agent only read.
- More than `MAX_SVR_NUM` Svrs of one message (`RouterConfig.cpp:192` writes past the array
  without a test), malformed lines of `svr.xml`, and lines that are removed instead of set
  to weight 0: the manual forbids them.
- A wall clock that is set back (`SvrQos.cpp:936`), and kinds that are called less than
  once in two periods and so are never rebuilt (`SvrQos.cpp:940`): what should be promised
  of them depends on a rate of calls and a clock the code assumes and does not check.
- Data races inside one operation of the engine: see the plan.
