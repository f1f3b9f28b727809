----------------------------- MODULE Instances ------------------------------
(***************************************************************************)
(* One program started several times on a host (AgentMain.cpp,             *)
(* RouterMain.cpp, InitDaemon of wMisc.cpp, the pid file of wMaster.inl):  *)
(* the lock file that is to keep a second daemon from starting, the pid    *)
(* file, and what exit() does to them.                                     *)
(*                                                                         *)
(* A lock belongs to a file, not to its name: the name may be given to     *)
(* another file while the first is still locked.                           *)
(***************************************************************************)
EXTENDS Integers, FiniteSets

CONSTANT Start          \* the times the program is started

VARIABLES
    lockFile,   \* the file that has the name of the lock file, 0 if none has
    pidFile,    \* what the pid file says: a start, "none" (no file), "garbled"
    run,        \* where each start is
    fd,         \* the lock file each start has open, 0 if none
    port,       \* the start whose processes listen, "none"
    faults      \* history

instVars == <<lockFile, pidFile, run, fd, port, faults>>

(*   foreground  started without -d: takes no lock                         *)
(*   raced       a lock was taken on a file that had lost its name         *)
(*   refused     another start held the port                               *)
(*   leftover    the pid file of a killed process was still there          *)
Fault == {"foreground", "raced", "refused", "leftover"}

Stage == {"off", "begun", "opened", "configured", "ready", "listening", "serving",
          "exiting", "unlinked", "orphaned", "ended"}

Init ==
    /\ lockFile = 0 /\ pidFile = "none"
    /\ run = [s \in Start |-> "off"] /\ fd = [s \in Start |-> 0]
    /\ port = "none" /\ faults = {}

Goes(s, a, b) == run[s] = a /\ run' = [run EXCEPT ![s] = b]

-----------------------------------------------------------------------------
(* The end of a process, or of the last of a master and its workers.       *)
Leaves(s) == port' = IF port = s THEN "none" ELSE port

(* -d makes the process a daemon; without it InitDaemon is not called.     *)
Begin(s) ==
    \/ Goes(s, "off", "begun") /\ UNCHANGED <<lockFile, pidFile, fd, port, faults>>
    \/ /\ Goes(s, "off", "configured")
       /\ faults' = faults \cup {"foreground"}
       /\ UNCHANGED <<lockFile, pidFile, fd, port>>

(* InitDaemon: open() makes the file if its name is free.                  *)
NewFile == 1 + Cardinality({s \in Start : fd[s] # 0})

OpenLock(s) ==
    /\ Goes(s, "begun", "opened")
    /\ lockFile' = IF lockFile = 0 THEN NewFile ELSE lockFile
    /\ fd' = [fd EXCEPT ![s] = lockFile']
    /\ UNCHANGED <<pidFile, port, faults>>

\* Mutant: flock() is not asked.
LocksAnyway(s) == FALSE

(* A lock is held until the last process that has inherited it is gone.    *)
Locked(f) == \E s \in Start : fd[s] = f /\ run[s] \notin {"off", "begun", "opened", "ended"}
IsLockedFor(s) == Locked(fd[s])

(* flock() fails at once if another holds the lock: exit(0), before        *)
(* atexit().  The two forks pass the lock on.                              *)
LockFile(s) ==
    /\ \/ IsLockedFor(s) /\ Goes(s, "opened", "ended") /\ UNCHANGED faults
       \/ /\ ~IsLockedFor(s) /\ Goes(s, "opened", "configured")
          /\ faults' = IF fd[s] = lockFile THEN faults ELSE faults \cup {"raced"}
    /\ UNCHANGED <<lockFile, pidFile, fd, port>>

(* The settings are read, or the process exits; then ProcessExit is        *)
(* registered.                                                             *)
Configure(s) ==
    /\ Goes(s, "configured", "ready") \/ Goes(s, "configured", "ended")
    /\ UNCHANGED <<lockFile, pidFile, fd, port, faults>>

(* PrepareStart: the port can be listened to by one process only.          *)
Bind(s) ==
    /\ \/ port = "none" /\ port' = s /\ Goes(s, "ready", "listening") /\ UNCHANGED faults
       \/ /\ port # "none" /\ Goes(s, "ready", "exiting")
          /\ faults' = faults \cup {"refused"} /\ UNCHANGED port
    /\ UNCHANGED <<lockFile, pidFile, fd>>

(* CreatePidFile writes over what is there and does not cut off the rest.  *)
CreatePidFile(s) ==
    /\ Goes(s, "listening", "serving")
    /\ \/ pidFile = "none" /\ pidFile' = s /\ UNCHANGED faults
       \/ /\ pidFile # "none" /\ pidFile' \in {s, "garbled"}
          /\ faults' = faults \cup {"leftover"}
    /\ UNCHANGED <<lockFile, fd, port>>

-----------------------------------------------------------------------------
PROCESS_SINGLE == 0
PROCESS_MASTER == 1
PROCESS_WORKER == 3

(* The condition of ProcessExit.                                           *)
Removes(mProcess) == mProcess < 2

(* A worker ends by exit().  atexit() was called before it was forked.     *)
WorkerExit(s) ==
    /\ run[s] = "serving"
    /\ lockFile' = IF Removes(PROCESS_WORKER) THEN 0 ELSE lockFile
    /\ pidFile' = IF Removes(PROCESS_WORKER) THEN "none" ELSE pidFile
    /\ UNCHANGED <<run, fd, port, faults>>

(* MasterExit, when the workers are gone: the pid file, then exit().       *)
MasterExit(s) ==
    /\ Goes(s, "serving", "exiting") /\ pidFile' = "none"
    /\ UNCHANGED <<lockFile, fd, port, faults>>

(* ProcessExit: one name after the other, whosever they are by now.        *)
UnlinkLock(s) ==
    /\ Goes(s, "exiting", "unlinked")
    /\ lockFile' = IF Removes(PROCESS_SINGLE) THEN 0 ELSE lockFile
    /\ UNCHANGED <<pidFile, fd, port, faults>>

UnlinkPid(s) ==
    /\ Goes(s, "unlinked", "ended")
    /\ pidFile' = IF Removes(PROCESS_SINGLE) THEN "none" ELSE pidFile
    /\ Leaves(s) /\ UNCHANGED <<lockFile, fd, faults>>

(* A signal that nobody handles, or SIGKILL, leaves the files.  Workers    *)
(* outlive their master, with its lock and its listening socket.           *)
Killed(s) ==
    /\ \/ (\E at \in Stage \ {"off", "ended"} : Goes(s, at, "ended")) /\ Leaves(s)
       \/ Goes(s, "serving", "orphaned") /\ UNCHANGED port
    /\ UNCHANGED <<lockFile, pidFile, fd, faults>>

Next ==
    \E s \in Start :
        \/ Begin(s) \/ OpenLock(s) \/ LockFile(s) \/ Configure(s) \/ Bind(s) \/ CreatePidFile(s)
        \/ WorkerExit(s) \/ MasterExit(s) \/ UnlinkLock(s) \/ UnlinkPid(s) \/ Killed(s)

Spec == Init /\ [][Next]_instVars

-----------------------------------------------------------------------------
TypeOK ==
    /\ lockFile \in 0 .. Cardinality(Start)
    /\ pidFile \in Start \cup {"none", "garbled"}
    /\ port \in Start \cup {"none"}
    /\ run \in [Start -> Stage] /\ fd \in [Start -> 0 .. Cardinality(Start)]
    /\ faults \subseteq Fault

Past == {s \in Start : run[s] \in {"configured", "ready", "listening", "serving"}}

(* wMisc.cpp:187: of several daemons one at most gets past the lock, and   *)
(* while it serves the lock file is the one it holds and the pid file is   *)
(* its own.  It takes a start in the foreground, or one that opens the     *)
(* lock file before a stop removes it, to break the first.                 *)
OneDaemon ==
    /\ faults \cap {"foreground", "raced"} = {} => Cardinality(Past) <= 1
    /\ faults = {} => \A s \in Start : run[s] = "serving" => lockFile = fd[s] /\ pidFile = s
=============================================================================
