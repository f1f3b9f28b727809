------------------------------- MODULE Master -------------------------------
(***************************************************************************)
(* The master process and its workers (wMaster.inl, wWorker.cpp,           *)
(* wWorkerIpc.cpp, wChannel.cpp, wChannelTask.cpp, the signal handling of  *)
(* wServer.inl).  The master keeps a table of workers, each with a channel *)
(* (a socket pair); it sleeps in sigsuspend() and acts on the flags that   *)
(* its signal handler sets: it reaps and replaces workers that exit, and   *)
(* passes on the order to stop.  A worker is told to stop, and told of the *)
(* other workers' channels, by messages on its own channel.                *)
(*                                                                         *)
(* A process is a number; the socket pair made for it has the same number. *)
(* The master's descriptors are numbered from 0 and the lowest free one is *)
(* taken, as socketpair() does; wChannel::Close leaves the number behind.  *)
(***************************************************************************)
EXTENDS Integers, Sequences, FiniteSets, FiniteSetsExt

CONSTANTS
    mWorkerNum,     \* workers (the number of processors)
    MaxCrashes,     \* bound: workers that exit by themselves with a code other than 2
    MaxForkFails,   \* bound: calls of fork() that fail
    MaxDetached     \* bound: workers that orders to restart (SIGHUP) may start

ASSUME MasterAssumption ==
    mWorkerNum \in Nat \ {0} /\ MaxCrashes \in Nat /\ MaxForkFails \in Nat /\ MaxDetached \in Nat

Slot == 0 .. mWorkerNum - 1
Pid == 1 .. mWorkerNum + MaxCrashes + MaxDetached
Fd == 0 .. mWorkerNum + MaxCrashes + MaxDetached
None == 0           \* no process, no socket pair
FD_UNKNOWN == -1

VARIABLES
    master,         \* "starting", "suspended", "handling", "exited", "undefined"
    pending,        \* signals sent to the master and not yet delivered
    g_reap, g_terminate, g_quit, g_reconfigure,
    mWorkerPool,    \* the table: slot -> mPid, mExited, mExiting, mRespawn, mDetached, mCh
    fds,            \* the master's descriptors: number -> socket pair
    proc,           \* the worker processes
    mail,           \* what the master has written on each socket pair
    crashes, forkFails

flags == <<g_reap, g_terminate, g_quit, g_reconfigure>>
vars == <<master, pending, flags, mWorkerPool, fds, proc, mail, crashes, forkFails>>

Message ==
    [type : {"open", "close", "quit", "terminate"}, slot : Slot, pid : {None} \cup Pid]

(* A worker process.  view[i] is the process whose channel it has for slot *)
(* i; Wrong: a number that is not a channel of its own.  A deaf worker has *)
(* lost its end of its own channel.  It ends with 0 when told to, with 2   *)
(* when it could not be set up, with 1 (for any other code) by itself.     *)
(* detached is history: an order to restart started it.                    *)
Wrong == -1
Proc == [state : {"unborn", "running", "zombie", "reaped"}, code : {0, 1, 2}, slot : Slot,
         deaf : BOOLEAN, g_terminate : BOOLEAN, g_quit : BOOLEAN, mExiting : BOOLEAN,
         detached : BOOLEAN, view : [Slot -> {None, Wrong} \cup Pid]]

Unborn == [state |-> "unborn", code |-> 0, slot |-> 0, deaf |-> FALSE, g_terminate |-> FALSE,
           g_quit |-> FALSE, mExiting |-> FALSE, detached |-> FALSE,
           view |-> [i \in Slot |-> None]]

NewWorker == [mPid |-> -1, mExited |-> FALSE, mExiting |-> FALSE, mRespawn |-> FALSE,
              mDetached |-> FALSE, mCh |-> FD_UNKNOWN]

Init ==
    /\ master = "starting" /\ pending = {}
    /\ g_reap = FALSE /\ g_terminate = FALSE /\ g_quit = FALSE /\ g_reconfigure = FALSE
    /\ mWorkerPool = [i \in Slot |-> NewWorker]
    /\ fds = [k \in Fd |-> None]
    /\ proc = [p \in Pid |-> Unborn]
    /\ mail = [p \in Pid |-> << >>]
    /\ crashes = 0 /\ forkFails = 0

Alive(p) == proc[p].state = "running"
Detached == {p \in Pid : proc[p].detached}
Stopping == g_terminate \/ g_quit

-----------------------------------------------------------------------------
(* What the master's handlers do, as functions of the table, descriptors,  *)
(* processes and mail: a record t of the four.                             *)

With(f, i, x) == [j \in DOMAIN f |-> IF j = i THEN x ELSE f[j]]

(* The socket pair that mCh[0] of a slot stands for; None when closed.     *)
Pair(t, i) == IF t.pool[i].mCh = FD_UNKNOWN THEN None ELSE t.fds[t.pool[i].mCh]

(* wChannel::SendBytes to the workers of the slots S.  A failed sendmsg()  *)
(* is taken for an interrupted one: the sender never learns of it.         *)
Send(t, S, m) ==
    [t EXCEPT !.mail = [p \in Pid |->
        t.mail[p] \o [j \in 1 .. Cardinality({i \in S : Pair(t, i) = p}) |-> m]]]

PassOpenChannel(t, slot) ==
    Send(t, {i \in Slot \ {slot} : t.pool[i].mPid # -1},
         [type |-> "open", slot |-> slot, pid |-> t.pool[slot].mPid])

PassCloseChannel(t, slot) ==
    Send(t, {i \in Slot : ~t.pool[i].mExited /\ t.pool[i].mPid # -1},
         [type |-> "close", slot |-> slot, pid |-> t.pool[slot].mPid])

\* Mutant: the child does not leave out its own slot.
ClosesOwnAlways(t, i, k) == \E j \in Slot : t.pool[j].mPid # -1 /\ t.pool[j].mCh = k

(* PrepareStart: the child closes mCh[1] of every other slot that has a    *)
(* process; a number left behind there may be the one of its own channel.  *)
ClosesOwn(t, i, k) ==
    \E j \in Slot \ {i} : t.pool[j].mPid # -1 /\ t.pool[j].mCh = k

\* Mutant: a new worker keeps the mark of the one before.
UpdatedKept(w, k, p) == [w EXCEPT !.mCh = k, !.mPid = p, !.mExiting = FALSE]

Updated(w, k, p) ==
    [w EXCEPT !.mCh = k, !.mPid = p, !.mExited = FALSE, !.mExiting = FALSE]

(* The type of a start: "slot" for one that is to be replaced, in its slot *)
(* (type >= 0); PROCESS_RESPAWN: to be replaced when it exits; and         *)
(* PROCESS_JUST_SPAWN, whose case falls through to PROCESS_DETACHED: not   *)
(* to be replaced, and detached.                                           *)
Type == {"slot", "respawn", "just_spawn"}
Kind(w, type) ==
    IF type = "slot" THEN w
    ELSE [w EXCEPT !.mRespawn = (type = "respawn"), !.mDetached = (type = "just_spawn")]

LowestFree(t) == Min({k \in Fd : t.fds[k] = None})

(* SpawnWorker: a socket pair, the child, and the master's table.          *)
SpawnWorker(t, i, type) ==
    LET k == LowestFree(t)
        p == Min({q \in Pid : t.proc[q].state = "unborn"})
        f == With(t.fds, k, p)
    IN  [t EXCEPT
          !.fds = f,
          !.pool = With(@, i, Kind(Updated(t.pool[i], k, p), type)),
          !.proc = With(@, p, [Unborn EXCEPT
              !.state = "running", !.slot = i,
              !.deaf = ClosesOwn(t, i, k), !.detached = (type = "just_spawn"),
              !.view = [j \in Slot |->
                  IF j = i THEN p
                  ELSE IF t.pool[j].mCh = FD_UNKNOWN THEN None ELSE f[t.pool[j].mCh]]])]

(* fork() fails: the new pair is closed, its number stays in the table.    *)
SpawnFailed(t, i) ==
    [t EXCEPT !.pool = With(@, i, [t.pool[i] EXCEPT !.mCh = LowestFree(t)])]

(* WorkerStart: mWorkerNum times a worker for the first slot without one,  *)
(* of which the calls fails of fork() fail.  When every slot has one the   *)
(* table is read past its end (Overrun): what follows is undefined, and t  *)
(* is left as it is.                                                       *)
Free(t) == {i \in Slot : t.pool[i].mPid = -1}

StartSlot(t, i, type) == PassOpenChannel(SpawnWorker(t, i, type), i)

StartTurn(t, k, fails, type) ==
    IF Free(t) = {} THEN t
    ELSE IF k \in fails THEN SpawnFailed(t, Min(Free(t))) ELSE StartSlot(t, Min(Free(t)), type)

Started(t, n, fails, type) ==
    LET up[k \in 0 .. n] == IF k = 0 THEN t ELSE StartTurn(up[k - 1], k, fails, type)
    IN  up[n]

WorkerStart(t, fails, type) == Started(t, mWorkerNum, fails, type)
Overrun(t, fails, type) == Free(Started(t, mWorkerNum - 1, fails, type)) = {}

\* Mutant: every exit is taken for a fatal one.
RespawnableNever(code) == FALSE

Respawnable(code) == code # 2

(* ProcessGetStatus: waitpid() until no child is left that has exited.     *)
ProcessGetStatus(t) ==
    LET dead == {p \in Pid : t.proc[p].state = "zombie"} IN
    [t EXCEPT
       !.proc = [p \in Pid |-> IF p \in dead THEN [t.proc[p] EXCEPT !.state = "reaped"] ELSE t.proc[p]],
       !.pool = [i \in Slot |->
           LET w == t.pool[i] IN
           IF w.mPid \in dead
           THEN [w EXCEPT !.mExited = TRUE, !.mRespawn = @ /\ Respawnable(t.proc[w.mPid].code)]
           ELSE w]]

(* wChannel::Close: the descriptor is closed if it is open, by whomever.   *)
CloseChannel(t, i) ==
    IF t.pool[i].mCh = FD_UNKNOWN THEN t ELSE [t EXCEPT !.fds = With(@, t.pool[i].mCh, None)]

Respawns(w) == w.mRespawn /\ ~w.mExiting /\ ~Stopping

(* ReapChildren for a slot whose process has exited: the channel of one    *)
(* that was detached stays open.  The last slot keeps its process number   *)
(* and is found exited again the next time.                                *)
Closed(t, i) == IF t.pool[i].mDetached THEN t ELSE PassCloseChannel(CloseChannel(t, i), i)

ReapSlot(t, i, fails) ==
    LET c == Closed(t, i) IN
    IF Respawns(t.pool[i])
    THEN IF i \in fails THEN SpawnFailed(c, i)
         ELSE StartSlot(c, i, "slot")
    ELSE IF i # mWorkerNum - 1 THEN [c EXCEPT !.pool = With(@, i, [c.pool[i] EXCEPT !.mPid = -1])] ELSE c

Exited(w) == w.mPid # -1 /\ w.mExited

ReapTurn(t, i, fails) == IF Exited(t.pool[i]) THEN ReapSlot(t, i, fails) ELSE t

ReapChildren(t, fails) ==
    LET after[k \in 0 .. mWorkerNum] ==
          IF k = 0 THEN t ELSE ReapTurn(after[k - 1], k - 1, fails)
    IN  after[mWorkerNum]

(* Its result: a worker is still there, or has just been replaced; who is  *)
(* detached does not count.                                                *)
Live(t) ==
    \E i \in Slot : /\ t.pool[i].mPid # -1 /\ ~t.pool[i].mExited
                    /\ t.pool[i].mExiting \/ ~t.pool[i].mDetached

(* SignalWorker: the order goes over the channels; nobody is ever killed,  *)
(* and who is detached is not told.                                        *)
SignalWorker(t, type) ==
    LET to == {i \in Slot : /\ t.pool[i].mPid # -1 /\ ~t.pool[i].mDetached
                            /\ ~(type = "quit" /\ t.pool[i].mExiting)}
        s  == Send(t, to, [type |-> type, slot |-> 0, pid |-> None])
    IN  [s EXCEPT !.pool = [i \in Slot |-> 
            IF i \in to THEN [t.pool[i] EXCEPT !.mExiting = TRUE] ELSE t.pool[i]]]

Table == [pool |-> mWorkerPool, fds |-> fds, proc |-> proc, mail |-> mail]
Becomes(t) == mWorkerPool' = t.pool /\ fds' = t.fds /\ proc' = t.proc /\ mail' = t.mail

-----------------------------------------------------------------------------
(* The master's steps.                                                     *)

MasterStart ==
    /\ master = "starting" /\ master' = "suspended"
    /\ \E fails \in SUBSET (1 .. mWorkerNum) :
          /\ forkFails' = forkFails + Cardinality(fails) /\ forkFails' <= MaxForkFails
          /\ Becomes(WorkerStart(Table, fails, "respawn"))
    /\ UNCHANGED <<pending, flags, crashes>>

(* sigsuspend() returns when the handlers of all pending signals have run. *)
Wake ==
    /\ master = "suspended" /\ pending # {}
    /\ master' = "handling" /\ pending' = {}
    /\ g_reap' = (g_reap \/ "CHLD" \in pending)
    /\ g_terminate' = (g_terminate \/ "TERM" \in pending)
    /\ g_quit' = (g_quit \/ "QUIT" \in pending)
    /\ g_reconfigure' = (g_reconfigure \/ "HUP" \in pending)
    /\ UNCHANGED <<mWorkerPool, fds, proc, mail, crashes, forkFails>>

(* The rest of HandleSignal, in its order.  The delay before SIGKILL, the  *)
(* alarm and iLive are local variables of each call: the delay never grows *)
(* and a call without g_reap takes the workers to be alive.                *)
ToRespawn(t) == {i \in Slot : Exited(t.pool[i]) /\ Respawns(t.pool[i])}

Ordered(t) ==
    IF g_terminate THEN SignalWorker(t, "terminate")
    ELSE IF g_quit THEN SignalWorker(t, "quit") ELSE t

(* SIGHUP: a worker for each slot, as if all were free, and then the order *)
(* to terminate to those from before.  Before that, n calls of fork() have *)
(* failed in this turn.                                                    *)
Restarts == g_reconfigure /\ ~Stopping

Restart(t, n) ==
    \E fails \in SUBSET (1 .. mWorkerNum) :
        LET u == WorkerStart(t, fails, "just_spawn") IN
        /\ forkFails' = forkFails + n + Cardinality(fails) /\ forkFails' <= MaxForkFails
        /\ IF Overrun(t, fails, "just_spawn")
           THEN master' = "undefined" /\ Becomes(u)
           ELSE master' = "suspended" /\ Becomes(SignalWorker(u, "terminate"))

HandleSignal ==
    LET waited == IF g_reap THEN ProcessGetStatus(Table) ELSE Table IN
    /\ master = "handling"
    /\ \E fails \in SUBSET (IF g_reap THEN ToRespawn(waited) ELSE {}) :
         LET t     == IF g_reap THEN ReapChildren(waited, fails) ELSE waited
             iLive == ~g_reap \/ Live(t)
         IN  \/ Restarts /\ Restart(t, Cardinality(fails))
             \/ /\ ~Restarts
                /\ forkFails' = forkFails + Cardinality(fails) /\ forkFails' <= MaxForkFails
                /\ IF ~iLive /\ Stopping THEN master' = "exited" /\ Becomes(t)
                   ELSE master' = "suspended" /\ Becomes(Ordered(t))
    /\ g_reap' = FALSE
    /\ g_reconfigure' = (g_reconfigure /\ Stopping)
    /\ UNCHANGED <<pending, g_terminate, g_quit, crashes>>

Running == master \in {"suspended", "handling"}

(* An operator's signal.                                                   *)
Signal ==
    /\ Running
    /\ \/ ~g_terminate /\ pending' = pending \cup {"TERM"}
       \/ ~g_quit /\ pending' = pending \cup {"QUIT"}
       \/ /\ ~g_reconfigure /\ ~Stopping
          /\ Cardinality(Detached) + mWorkerNum <= MaxDetached
          /\ pending' = pending \cup {"HUP"}
    /\ UNCHANGED <<master, flags, mWorkerPool, fds, proc, mail, crashes, forkFails>>

-----------------------------------------------------------------------------
(* The workers' steps.                                                     *)

Exit(p, code) ==
    /\ Running
    /\ proc' = [proc EXCEPT ![p].state = "zombie", ![p].code = code]
    /\ pending' = pending \cup {"CHLD"}
    /\ UNCHANGED <<master, flags, mWorkerPool, fds, mail, forkFails>>

Crash(p) ==
    /\ Alive(p) /\ crashes < MaxCrashes /\ crashes' = crashes + 1
    /\ Exit(p, 1)

(* exit(2): configuration, epoll or channel could not be set up.           *)
Fatal(p) == Alive(p) /\ Exit(p, 2) /\ UNCHANGED crashes

(* What a message does to the worker q.  A descriptor that came with the   *)
(* message replaces the number in it only if it is all that was read.      *)
Handled(q, m, alone) ==
    IF m.type = "open" THEN [q EXCEPT !.view[m.slot] = IF alone THEN m.pid ELSE Wrong]
    ELSE IF m.type = "close" THEN [q EXCEPT !.view[m.slot] = None]
    ELSE IF m.type = "quit" THEN [q EXCEPT !.g_quit = TRUE]
    ELSE [q EXCEPT !.g_terminate = TRUE]

HandledAll(q, ms) ==
    LET after[k \in 0 .. Len(ms)] ==
          IF k = 0 THEN q ELSE Handled(after[k - 1], ms[k], Len(ms) = 1)
    IN  after[Len(ms)]

(* The channel thread: one recvmsg() returns some of the messages that are *)
(* there, up to and with the first that carries a descriptor.              *)
ChannelRecv(p) ==
    /\ Running /\ Alive(p) /\ ~proc[p].deaf
    /\ \E n \in 1 .. Len(mail[p]) :
          /\ \A i \in 1 .. n - 1 : mail[p][i].type # "open"
          /\ mail' = [mail EXCEPT ![p] = SubSeq(@, n + 1, Len(@))]
          /\ proc' = [proc EXCEPT ![p] = HandledAll(@, SubSeq(mail[p], 1, n))]
    /\ UNCHANGED <<master, pending, flags, mWorkerPool, fds, crashes, forkFails>>

\* Mutant: the order to quit is taken and forgotten.
WorkerQuitsLater(p) ==
    /\ Running /\ Alive(p) /\ proc[p].g_quit /\ ~proc[p].g_terminate
    /\ proc' = [proc EXCEPT ![p].g_quit = FALSE]
    /\ UNCHANGED <<master, pending, flags, mWorkerPool, fds, mail, crashes, forkFails>>

(* wServer::HandleSignal in the worker's loop: told to quit, it closes its *)
(* listening sockets and exits at the head of the next round, whatever its *)
(* connections still have to send.                                         *)
WorkerQuits(p) ==
    /\ Running /\ Alive(p) /\ proc[p].g_quit /\ ~proc[p].g_terminate
    /\ proc' = [proc EXCEPT ![p].g_quit = FALSE, ![p].mExiting = TRUE]
    /\ UNCHANGED <<master, pending, flags, mWorkerPool, fds, mail, crashes, forkFails>>

WorkerExit(p) ==
    /\ Alive(p) /\ (proc[p].g_terminate \/ proc[p].mExiting)
    /\ Exit(p, 0) /\ UNCHANGED crashes

WorkerTurn(p) == WorkerQuits(p) \/ WorkerExit(p)

Next ==
    \/ MasterStart \/ Wake \/ HandleSignal \/ Signal
    \/ \E p \in Pid : Crash(p) \/ Fatal(p) \/ ChannelRecv(p) \/ WorkerTurn(p)

Spec == Init /\ [][Next]_vars

(* The processes are scheduled; nothing makes a worker crash or a signal   *)
(* come.  Only HandleSignal ends "handling", so it is named by its effect. *)
EndHandling == master = "handling" /\ master' \in {"suspended", "exited", "undefined"}

FairSpec ==
    /\ Spec
    /\ WF_vars(MasterStart) /\ WF_vars(Wake) /\ WF_master(EndHandling)
    /\ \A p \in Pid : WF_vars(ChannelRecv(p)) /\ WF_vars(WorkerTurn(p))

-----------------------------------------------------------------------------
TypeOK ==
    /\ master \in {"starting", "suspended", "handling", "exited", "undefined"}
    /\ pending \subseteq {"CHLD", "TERM", "QUIT", "HUP"}
    /\ flags \in BOOLEAN \X BOOLEAN \X BOOLEAN \X BOOLEAN
    /\ mWorkerPool \in [Slot -> [mPid : {-1} \cup Pid, mExited : BOOLEAN, mExiting : BOOLEAN,
                                 mRespawn : BOOLEAN, mDetached : BOOLEAN,
                                 mCh : {FD_UNKNOWN} \cup Fd]]
    /\ fds \in [Fd -> {None} \cup Pid]
    /\ proc \in [Pid -> Proc]
    /\ mail \in [Pid -> Seq(Message)]
    /\ crashes \in 0 .. MaxCrashes /\ forkFails \in 0 .. MaxForkFails

(* Every process that has not been waited for is in the table, at its      *)
(* slot, not marked exited: the master waits for it and for no other, and  *)
(* exits only when no worker is left but those that an order to restart has*)
(* started in an emptied table, where fork() has failed: it is not told of *)
(* them and leaves them behind.  And the state has its type.               *)
InTable ==
    /\ TypeOK
    /\ \A p \in Pid : proc[p].state \in {"running", "zombie"} =>
          mWorkerPool[proc[p].slot].mPid = p /\ ~mWorkerPool[proc[p].slot].mExited
    /\ master = "exited" => \A p \in Pid : Alive(p) => p \in Detached /\ forkFails > 0

(* What may go wrong from outside: fork() failed, a worker exited with 2.  *)
Faulty == forkFails > 0 \/ \E p \in Pid : proc[p].code = 2

(* Without that, each worker's slot holds the worker's own channel, closed *)
(* and reused descriptors notwithstanding, and no worker is born deaf; and *)
(* when all messages have been read, no worker's table names the channel   *)
(* of another worker than the master's.  (It may name none: the close and  *)
(* open of a replaced worker are often read together.)                     *)
Quiet == master = "suspended" /\ pending = {} /\ \A p \in Pid : Alive(p) => mail[p] = << >>
Channels ==
    ~Faulty =>
        /\ \A p \in Pid : Alive(p) => Pair(Table, proc[p].slot) = p /\ ~proc[p].deaf
        /\ Quiet /\ ~Stopping =>
              \A p \in Pid : Alive(p) =>
                  \A i \in Slot : proc[p].view[i] \in {mWorkerPool[i].mPid, Wrong}

(* ... and a worker that crashed is replaced,                              *)
AllAlive == \A i \in Slot : mWorkerPool[i].mPid # -1 /\ Alive(mWorkerPool[i].mPid)
GivenUp == Faulty \/ master = "undefined"
Replaced == master = "suspended" /\ ~AllAlive ~> AllAlive \/ Stopping \/ GivenUp

(* ... and an order to stop ends with the workers' and the master's exit.  *)
Stops == Stopping ~> master = "exited" \/ GivenUp
=============================================================================
