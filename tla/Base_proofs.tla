----------------------------- MODULE Base_proofs ----------------------------
(***************************************************************************)
(* Proofs about the parts of src/base, as MCBase puts them together: what  *)
(* a part promises holds in every behaviour of BaseSpec, for any number of *)
(* processes, sockets and starts, any sizes and any bound.                 *)
(***************************************************************************)
EXTENDS Streams_proofs

-----------------------------------------------------------------------------
(* The starts of one program (Instances).  Behind the lock: a start that   *)
(* has got past flock() and has not ended.  Above: one that may still      *)
(* remove the lock file.                                                   *)
Behind == {s \in Start : run[s] \notin {"off", "begun", "opened", "ended"}}
Above == {s \in Start : run[s] \in {"configured", "ready", "listening", "serving", "exiting"}}
Bound == {s \in Start : run[s] \in {"listening", "serving", "exiting", "unlinked", "orphaned"}}

(* No start has passed the lock without it.                                *)
AllLocked == lapses \cap {"foreground", "raced"} = {}

InstTypes ==
    /\ lockFile \in 0 .. Cardinality(Start) /\ pidFile \in Start \cup {"none", "garbled"}
    /\ port \in Start \cup {"none"}
    /\ run \in [Start -> InstPart!Stage] /\ fd \in [Start -> 0 .. Cardinality(Start)]
    /\ lapses \subseteq InstPart!Fault
    /\ \A s \in Start : run[s] = "opened" => fd[s] # 0
    /\ \A s \in Start : run[s] \in {"off", "begun"} => fd[s] = 0

(* Those behind the lock hold different files; one that may still remove   *)
(* the lock file holds the file that has its name; and until a fault has   *)
(* happened, one that serves holds the port and has written the pid file.  *)
LocksApart ==
    AllLocked =>
        /\ \A s, t \in Behind : fd[s] = fd[t] => s = t
        /\ \A s \in Above : fd[s] = lockFile /\ lockFile # 0
PidOwned ==
    lapses = {} =>
        /\ \A s \in Bound : port = s
        /\ \A s \in Start : run[s] = "serving" => pidFile = s
InstInv == InstTypes /\ LocksApart /\ PidOwned

LEMMA InstCardinality == ASSUME NEW S PROVE InstPart!Cardinality(S) = Cardinality(S)
  BY Zenon DEF InstPart!Cardinality, Cardinality

LEMMA StartsCounted == Cardinality(Start) \in Nat
  BY InstancesAssumption, FS_CardinalityType

LEMMA InstInitInv == ASSUME InstPart!Init PROVE InstInv
  BY InstancesAssumption, StartsCounted
  DEF InstPart!Init, InstInv, InstTypes, LocksApart, PidOwned, Behind, Above, Bound,
      InstPart!Stage, InstPart!Fault

(* A start has at most one lock file open: there is a number for a new one.*)
LEMMA NewFileIsOne ==
    ASSUME fd \in [Start -> 0 .. Cardinality(Start)], NEW s \in Start, fd[s] = 0
    PROVE  InstPart!NewFile \in 1 .. Cardinality(Start)
  <1> DEFINE O == {t \in Start : fd[t] # 0}
  <1>1. IsFiniteSet(O) /\ O \subseteq Start /\ s \notin O
    BY InstancesAssumption, FS_Subset
  <1>2. Cardinality(O) < Cardinality(Start) /\ Cardinality(O) \in Nat
    <2>1. Cardinality(O \cup {s}) = Cardinality(O) + 1 /\ Cardinality(O) \in Nat
      BY <1>1, FS_AddElement, FS_CardinalityType
    <2>2. Cardinality(O \cup {s}) <= Cardinality(Start)
      BY <1>1, InstancesAssumption, FS_Subset
    <2> QED BY <2>1, <2>2, StartsCounted
  <1> QED BY <1>2, StartsCounted, InstCardinality DEF InstPart!NewFile

(* InitDaemon, AgentMain.cpp, RouterMain.cpp: no step of a start, and no   *)
(* kill, ends the agreement of locks, port and files.                      *)
LEMMA InstNextInv == ASSUME InstInv, [InstPart!Next]_instState PROVE InstInv'
  <1> USE DEF InstInv
  <1>1. CASE UNCHANGED instState
    BY <1>1 DEF instState, InstTypes, LocksApart, PidOwned, AllLocked, Behind, Above, Bound
  <1>2. ASSUME NEW s \in Start, InstPart!Begin(s) PROVE InstInv'
    BY <1>2 DEF InstPart!Begin, InstPart!Goes, InstTypes, LocksApart, PidOwned, AllLocked,
       Behind, Above, Bound, InstPart!Stage, InstPart!Fault
  <1>3. ASSUME NEW s \in Start, InstPart!OpenLock(s) PROVE InstInv'
    <2>1. InstPart!NewFile \in 1 .. Cardinality(Start)
      BY <1>3, NewFileIsOne DEF InstTypes, InstPart!OpenLock, InstPart!Goes
    <2> QED BY <1>3, <2>1, StartsCounted DEF InstPart!OpenLock, InstPart!Goes, InstTypes, LocksApart, PidOwned,
       AllLocked, Behind, Above, Bound, InstPart!Stage
  <1>4. ASSUME NEW s \in Start, InstPart!LockFile(s) PROVE InstInv'
    <2>1. InstTypes'
      BY <1>4 DEF InstPart!LockFile, InstPart!Goes, InstTypes, InstPart!Stage, InstPart!Fault
    <2>2. ASSUME AllLocked' PROVE LocksApart!2'
      BY <1>4, <2>2 DEF InstPart!LockFile, InstPart!Goes, InstPart!IsLockedFor, InstPart!Locked,
         InstTypes, LocksApart, AllLocked, Behind, Above
    <2>3. PidOwned'
      BY <1>4 DEF InstPart!LockFile, InstPart!Goes, InstTypes, PidOwned, Bound
    <2> QED BY <2>1, <2>2, <2>3 DEF LocksApart
  <1>5. ASSUME NEW s \in Start, InstPart!Configure(s) PROVE InstInv'
    BY <1>5 DEF InstPart!Configure, InstPart!Goes, InstTypes, LocksApart, PidOwned, AllLocked,
       Behind, Above, Bound, InstPart!Stage
  <1>6. ASSUME NEW s \in Start, InstPart!Bind(s) PROVE InstInv'
    BY <1>6, InstancesAssumption DEF InstPart!Bind, InstPart!Goes, InstTypes, LocksApart, PidOwned,
       AllLocked, Behind, Above, Bound, InstPart!Stage, InstPart!Fault
  <1>7. ASSUME NEW s \in Start, InstPart!CreatePidFile(s) PROVE InstInv'
    BY <1>7 DEF InstPart!CreatePidFile, InstPart!Goes, InstTypes, LocksApart, PidOwned, AllLocked,
       Behind, Above, Bound, InstPart!Stage, InstPart!Fault
  <1>8. ASSUME NEW s \in Start, InstPart!WorkerExit(s) PROVE InstInv'
    BY <1>8, StartsCounted DEF InstPart!WorkerExit, InstPart!Removes, InstPart!PROCESS_WORKER, InstTypes, LocksApart,
       PidOwned, AllLocked, Behind, Above, Bound
  <1>9. ASSUME NEW s \in Start, InstPart!MasterExit(s) PROVE InstInv'
    BY <1>9 DEF InstPart!MasterExit, InstPart!Goes, InstTypes, LocksApart, PidOwned, AllLocked,
       Behind, Above, Bound, InstPart!Stage
  <1>10. ASSUME NEW s \in Start, InstPart!UnlinkLock(s) PROVE InstInv'
    BY <1>10, StartsCounted DEF InstPart!UnlinkLock, InstPart!Goes, InstPart!Removes, InstPart!PROCESS_SINGLE,
       InstTypes, LocksApart, PidOwned, AllLocked, Behind, Above, Bound, InstPart!Stage
  <1>11. ASSUME NEW s \in Start, InstPart!UnlinkPid(s) PROVE InstInv'
    BY <1>11 DEF InstPart!UnlinkPid, InstPart!Goes, InstPart!Removes, InstPart!PROCESS_SINGLE,
       InstPart!Leaves, InstTypes, LocksApart, PidOwned, AllLocked, Behind, Above, Bound, InstPart!Stage
  <1>12. ASSUME NEW s \in Start, InstPart!Killed(s) PROVE InstInv'
    BY <1>12 DEF InstPart!Killed, InstPart!Goes, InstPart!Leaves, InstTypes, LocksApart, PidOwned,
       AllLocked, Behind, Above, Bound, InstPart!Stage
  <1> QED
    BY <1>1, <1>2, <1>3, <1>4, <1>5, <1>6, <1>7, <1>8, <1>9, <1>10, <1>11, <1>12 DEF InstPart!Next

LEMMA InstInvOneDaemon == ASSUME InstInv PROVE InstPart!TypeOK /\ OneDaemon
  <1>1. InstPart!TypeOK
    BY InstCardinality DEF InstInv, InstTypes, InstPart!TypeOK
  <1>2. ASSUME AllLocked PROVE InstPart!Cardinality(InstPart!Past) <= 1
    <2>1. \A s, t \in InstPart!Past : s = t
      BY <1>2 DEF InstInv, LocksApart, InstPart!Past, Behind, Above
    <2>2. CASE InstPart!Past = {}
      BY <2>2, FS_EmptySet, InstCardinality
    <2>3. CASE InstPart!Past # {}
      <3>1. PICK s : s \in InstPart!Past BY <2>3
      <3>2. InstPart!Past = {s} BY <2>1, <3>1
      <3> QED BY <3>2, FS_Singleton, InstCardinality
    <2> QED BY <2>2, <2>3
  <1>3. ASSUME lapses = {}, NEW s \in Start, run[s] = "serving" PROVE lockFile = fd[s] /\ pidFile = s
    BY <1>3 DEF InstInv, LocksApart, PidOwned, AllLocked, Above
  <1> QED BY <1>1, <1>2, <1>3 DEF OneDaemon, InstPart!OneDaemon, AllLocked

(* AgentMain.cpp, RouterMain.cpp, InitDaemon: of several daemons one at    *)
(* most gets past the lock, until a start in the foreground or one that    *)
(* locks a file without a name; and one that serves has both files.        *)
THEOREM OneDaemonCorrect == BaseSpec => []OneDaemon
  <1>1. BaseInit => InstInv
    BY InstInitInv DEF BaseInit
  <1>2. InstInv /\ [BaseNext]_baseVars => InstInv'
    BY BaseStep, InstNextInv
  <1>3. InstInv => OneDaemon
    BY InstInvOneDaemon
  <1> QED BY <1>1, <1>2, <1>3, PTL DEF BaseSpec

-----------------------------------------------------------------------------
(* The sockets of a process (Sockets).  A socket that has a descriptor is  *)
(* the only one that has it, the kernel has something there, and it is     *)
(* what the last call has told; a descriptor that no socket has is free or *)
(* was lost.                                                               *)
HasFd(s) == sock[s].mFD # SockPart!FD_UNKNOWN

SockTypes ==
    /\ SockPart!TypeOK
    /\ \A s \in Sock : sock[s].proto = "none" => sock[s] = SockPart!Gone
FdOwned ==
    /\ \A s, t \in Sock : HasFd(s) /\ sock[t].mFD = sock[s].mFD => s = t
    /\ \A s \in Sock : HasFd(s) => kernel[sock[s].mFD] # "free" /\ sock[s].mFD \notin leaked
FdKnown ==
    /\ \A f \in leaked : kernel[f] # "free"
    /\ \A f \in SockPart!Fd : kernel[f] # "free" /\ f \notin leaked => \E s \in Sock : sock[s].mFD = f
ToldTrue ==
    /\ \A s \in Sock : sock[s].told \in {"listening", "connected", "accepted"} =>
          HasFd(s) /\ kernel[sock[s].mFD] = SockPart!ToldOf(sock[s].told)
    /\ \A s \in Sock : sock[s].told = "believed" => HasFd(s)
JoinedOnce == joined \in {0, 1} /\ (joined = 1 => "client" \in names)
SockInv == SockTypes /\ FdOwned /\ FdKnown /\ ToldTrue /\ JoinedOnce

(* The kernel gives a descriptor that is free.                             *)
LEMMA NextFdIsFree ==
    ASSUME SockPart!Free # {}
    PROVE  SockPart!NextFd \in SockPart!Fd /\ kernel[SockPart!NextFd] = "free"
  <1>1. SockPart!Free \subseteq Nat
    BY SocketsAssumption DEF SockPart!Free, SockPart!Fd
  <1>2. PICK x \in SockPart!Free : \A y \in SockPart!Free : x <= y
    BY <1>1, LeastOfNat
  <1>3. SockPart!NextFd \in SockPart!Free
    BY <1>2 DEF SockPart!NextFd, SockPart!Min
  <1> QED BY <1>3 DEF SockPart!Free

LEMMA SockInitInv == ASSUME SockPart!Init PROVE SockInv
  BY SocketsAssumption DEF SockPart!Init, SockInv, SockTypes, FdOwned, FdKnown, ToldTrue, JoinedOnce, HasFd,
     SockPart!Gone, SockPart!TypeOK, SockPart!Fd, SockPart!FD_UNKNOWN, SockPart!Proto

(* A call that fails closes its socket; one that does not makes the        *)
(* kernel's socket what it tells.                                          *)
LEMMA SockFails ==
    ASSUME SockInv, NEW s \in Sock, SockPart!Fails(s), sock[s].proto # "none",
           UNCHANGED leaked, names' \subseteq {"listener", "client"}
    PROVE  SockTypes' /\ FdOwned' /\ FdKnown' /\ ToldTrue'
  <1> USE DEF SockInv, SockPart!Fails, SockPart!Close, SockPart!Released, SockPart!FD_UNKNOWN
  <1>1. SockTypes'
    BY SocketsAssumption DEF SockTypes, SockPart!TypeOK, SockPart!Gone, SockPart!Fd
  <1>2. FdOwned'
    BY SocketsAssumption DEF SockTypes, SockPart!TypeOK, SockPart!Fd, FdOwned, HasFd
  <1>3. FdKnown'
    BY SocketsAssumption DEF SockTypes, SockPart!TypeOK, SockPart!Fd, FdOwned, FdKnown, HasFd
  <1>4. ToldTrue'
    BY SocketsAssumption DEF SockTypes, SockPart!TypeOK, SockPart!Fd, FdOwned, ToldTrue, HasFd, SockPart!ToldOf
  <1> QED BY <1>1, <1>2, <1>3, <1>4

LEMMA SockBecomes ==
    ASSUME SockInv, NEW s \in Sock, sock[s].proto # "none", HasFd(s),
           NEW state \in {"open", "listening", "connected"},
           NEW told \in {"listening", "connected", "believed"},
           told \in {"listening", "connected"} => told = state,
           SockPart!Becomes(s, state, told),
           UNCHANGED leaked, names' \subseteq {"listener", "client"}
    PROVE  SockTypes' /\ FdOwned' /\ FdKnown' /\ ToldTrue'
  <1> USE DEF SockInv, SockPart!Becomes, SockPart!FD_UNKNOWN
  <1>1. SockTypes'
    BY SocketsAssumption DEF SockTypes, SockPart!TypeOK, SockPart!Gone, SockPart!Fd, HasFd
  <1>2. FdOwned'
    BY SocketsAssumption DEF SockTypes, SockPart!TypeOK, SockPart!Fd, FdOwned, HasFd
  <1>3. FdKnown'
    BY SocketsAssumption DEF SockTypes, SockPart!TypeOK, SockPart!Fd, FdOwned, FdKnown, HasFd
  <1>4. ToldTrue'
    BY SocketsAssumption DEF SockTypes, SockPart!TypeOK, SockPart!Fd, FdOwned, ToldTrue, HasFd, SockPart!ToldOf
  <1> QED BY <1>1, <1>2, <1>3, <1>4

(* A new object takes the descriptor that the kernel has given.            *)
LEMMA SockTakes ==
    ASSUME SockInv, NEW t \in Sock, sock[t] = SockPart!Gone, SockPart!Free # {},
           NEW p \in SockPart!Proto, SockPart!Takes(t, p),
           kernel' = [kernel EXCEPT ![SockPart!NextFd] = "connected"], UNCHANGED <<leaked, names>>
    PROVE  SockTypes' /\ FdOwned' /\ FdKnown' /\ ToldTrue'
  <1>0. SockPart!NextFd \in SockPart!Fd /\ kernel[SockPart!NextFd] = "free"
    BY NextFdIsFree
  <1> DEFINE n == SockPart!NextFd
  <1> HIDE DEF n
  <1>n. /\ n \in SockPart!Fd /\ kernel[n] = "free" /\ kernel' = [kernel EXCEPT ![n] = "connected"]
        /\ sock' = [sock EXCEPT ![t] = [proto |-> p, mFD |-> n, told |-> "accepted"]]
    BY <1>0 DEF n, SockPart!Takes
  <1> USE <1>n, SocketsAssumption
          DEF SockInv, SockPart!FD_UNKNOWN, SockPart!Gone, SockTypes, SockPart!TypeOK, SockPart!Fd
  <1>1. SockTypes'
    BY DEF SockPart!Proto
  <1>2. FdOwned'
    BY DEF FdOwned, FdKnown, HasFd
  <1>3. FdKnown'
    BY DEF FdOwned, FdKnown, HasFd
  <1>4. ToldTrue'
    BY DEF FdOwned, ToldTrue, HasFd, SockPart!ToldOf
  <1> QED BY <1>1, <1>2, <1>3, <1>4

(* wTcpSocket.cpp, wUnixSocket.cpp: every call keeps the sockets and the   *)
(* descriptors in agreement, whatever fails in it.                         *)
LEMMA SockNextInv == ASSUME SockInv, [SockPart!Next]_sockState PROVE SockInv'
  <1>1. CASE UNCHANGED sockState
    BY <1>1 DEF sockState, SockInv, SockTypes, SockPart!TypeOK, FdOwned, FdKnown, ToldTrue, JoinedOnce, HasFd
  <1>2. ASSUME NEW s \in Sock, SockPart!Create(s) PROVE SockInv'
    BY <1>2, SocketsAssumption
    DEF SockPart!Create, SockPart!New, SockPart!Gone, SockInv, SockTypes, SockPart!TypeOK, SockPart!Proto,
        SockPart!Fd, SockPart!FD_UNKNOWN, FdOwned, FdKnown, ToldTrue, JoinedOnce, HasFd
  <1>3. ASSUME NEW s \in Sock, SockPart!Open(s) PROVE SockInv'
    <2>1. PICK failed : 
            IF failed = "socket" THEN UNCHANGED <<sock, kernel>>
            ELSE /\ sock' = [sock EXCEPT ![s].mFD = SockPart!NextFd,
                                         ![s].told = IF failed = "none" THEN "open" ELSE "failed"]
                 /\ kernel' = [kernel EXCEPT ![SockPart!NextFd] = "open"]
      BY <1>3 DEF SockPart!Open
    <2>2. SockPart!NextFd \in SockPart!Fd /\ kernel[SockPart!NextFd] = "free"
      BY <1>3, NextFdIsFree DEF SockPart!Open
    <2>3. SockPart!Unopened(s) /\ UNCHANGED <<names, leaked, joined>>
      BY <1>3 DEF SockPart!Open
    <2>4. CASE failed = "socket"
      BY <2>1, <2>3, <2>4 DEF SockInv, SockTypes, SockPart!TypeOK, FdOwned, FdKnown, ToldTrue, JoinedOnce, HasFd
    <2>5. CASE failed # "socket"
      <3> DEFINE n == SockPart!NextFd
                 o == [proto |-> sock[s].proto, mFD |-> n,
                       told |-> IF failed = "none" THEN "open" ELSE "failed"]
      <3>1. sock' = [sock EXCEPT ![s] = o]
        BY <2>1, <2>3, <2>5 DEF SockInv, SockTypes, SockPart!TypeOK, SockPart!Unopened
      <3> HIDE DEF n
      <3>2. n \in SockPart!Fd /\ kernel[n] = "free" /\ kernel' = [kernel EXCEPT ![n] = "open"]
        BY <2>1, <2>2, <2>5 DEF n
      <3> USE <2>3, <3>1, <3>2, SocketsAssumption
              DEF SockInv, SockPart!Unopened, SockPart!FD_UNKNOWN, SockPart!Gone, SockTypes, SockPart!TypeOK,
                  SockPart!Fd
      <3>4. SockTypes'
        OBVIOUS
      <3>5. FdOwned'
        BY DEF FdOwned, FdKnown, HasFd
      <3>6. FdKnown'
        BY DEF FdOwned, FdKnown, HasFd
      <3>7. ToldTrue'
        BY DEF FdOwned, ToldTrue, HasFd, SockPart!ToldOf
      <3>8. JoinedOnce'
        BY DEF JoinedOnce
      <3> QED BY <3>4, <3>5, <3>6, <3>7, <3>8
    <2> QED BY <2>4, <2>5
  <1>4. ASSUME NEW s \in Sock, SockPart!Listen(s) PROVE SockInv'
    <2>1. HasFd(s) /\ sock[s].proto # "none" /\ UNCHANGED <<leaked, joined>>
      BY <1>4 DEF SockPart!Listen, SockPart!Opened, HasFd, SockInv, SockTypes, SockPart!Gone
    <2>2. names \subseteq names' /\ names' \subseteq {"listener", "client"}
      BY <1>4 DEF SockPart!Listen, SockPart!Binds, SockInv, SockTypes, SockPart!TypeOK
    <2>3. SockPart!Fails(s) \/ SockPart!Becomes(s, "listening", "listening")
      BY <1>4 DEF SockPart!Listen
    <2>4. SockTypes' /\ FdOwned' /\ FdKnown' /\ ToldTrue'
      BY <2>1, <2>2, <2>3, SockFails, SockBecomes
    <2> QED BY <2>1, <2>2, <2>4 DEF SockInv, JoinedOnce
  <1>5. ASSUME NEW s \in Sock, NEW f \in {0, 30}, SockPart!ConnectTcp(s, f) PROVE SockInv'
    <2>1. HasFd(s) /\ sock[s].proto # "none" /\ UNCHANGED <<leaked, names, joined>>
      BY <1>5 DEF SockPart!ConnectTcp, SockPart!Opened, HasFd, SockInv, SockTypes, SockPart!Gone
    <2>2. \/ SockPart!Fails(s) \/ SockPart!Becomes(s, "connected", "connected")
          \/ SockPart!Becomes(s, "open", "believed")
      BY <1>5 DEF SockPart!ConnectTcp, SockPart!Reached
    <2>3. names' \subseteq {"listener", "client"}
      BY <2>1 DEF SockInv, SockTypes, SockPart!TypeOK
    <2>4. SockTypes' /\ FdOwned' /\ FdKnown' /\ ToldTrue'
      BY <2>1, <2>2, <2>3, SockFails, SockBecomes
    <2> QED BY <2>1, <2>4 DEF SockInv, JoinedOnce
  <1>6. ASSUME NEW s \in Sock, NEW f \in {0, 30}, SockPart!ConnectUnix(s, f) PROVE SockInv'
    <2>1. HasFd(s) /\ sock[s].proto = "UNIX" /\ UNCHANGED leaked
      BY <1>6 DEF SockPart!ConnectUnix, SockPart!Opened, HasFd
    <2>2. names \subseteq names' /\ names' \subseteq {"listener", "client"}
      BY <1>6 DEF SockPart!ConnectUnix, SockPart!Binds, SockInv, SockTypes, SockPart!TypeOK
    <2>3. \/ SockPart!Fails(s) \/ SockPart!Becomes(s, "connected", "connected")
          \/ SockPart!Becomes(s, "open", "believed")
      BY <1>6 DEF SockPart!ConnectUnix, SockPart!Reached
    <2>4. SockTypes' /\ FdOwned' /\ FdKnown' /\ ToldTrue'
      BY <2>1, <2>2, <2>3, SockFails, SockBecomes
    <2>5. JoinedOnce'
      BY <1>6, <2>1 DEF SockPart!ConnectUnix, SockPart!Taken, SockPart!Binds, SockInv, JoinedOnce
    <2> QED BY <2>4, <2>5 DEF SockInv
  <1>7. ASSUME NEW s \in Sock, NEW t \in Sock, SockPart!AcceptTcp(s, t) PROVE SockInv'
    <2>1. /\ sock[t] = SockPart!Gone /\ SockPart!Free # {} /\ UNCHANGED <<names, joined>>
          /\ kernel' = [kernel EXCEPT ![SockPart!NextFd] = "connected"]
      BY <1>7 DEF SockPart!AcceptTcp, SockPart!Accepted
    <2>2. CASE SockPart!Takes(t, "TCP") /\ UNCHANGED leaked
      BY <2>1, <2>2, SockTakes DEF SockInv, JoinedOnce, SockPart!Proto
    <2>3. CASE leaked' = leaked \cup {SockPart!NextFd} /\ UNCHANGED sock
      <3>1. SockPart!NextFd \in SockPart!Fd /\ kernel[SockPart!NextFd] = "free"
        BY <2>1, NextFdIsFree
      <3> DEFINE n == SockPart!NextFd
      <3> HIDE DEF n
      <3>2. /\ n \in SockPart!Fd /\ kernel[n] = "free" /\ kernel' = [kernel EXCEPT ![n] = "connected"]
            /\ leaked' = leaked \cup {n}
        BY <2>1, <2>3, <3>1 DEF n
      <3> USE <2>1, <2>3, <3>2, SocketsAssumption
              DEF SockInv, SockTypes, SockPart!TypeOK, SockPart!Fd, SockPart!FD_UNKNOWN
      <3>3. SockTypes'
        OBVIOUS
      <3>4. FdOwned'
        BY DEF FdOwned, HasFd
      <3>5. FdKnown'
        BY DEF FdKnown, HasFd
      <3>6. ToldTrue'
        BY DEF FdOwned, ToldTrue, HasFd, SockPart!ToldOf
      <3> QED BY <3>3, <3>4, <3>5, <3>6 DEF JoinedOnce
    <2> QED BY <1>7, <2>2, <2>3 DEF SockPart!AcceptTcp
  <1>8. ASSUME NEW s \in Sock, NEW t \in Sock, SockPart!AcceptUnix(s, t) PROVE SockInv'
    <2>1. SockTypes' /\ FdOwned' /\ FdKnown' /\ ToldTrue'
      BY <1>8, SockTakes DEF SockPart!AcceptUnix, SockPart!Accepted, SockPart!Proto
    <2> QED BY <1>8, <2>1 DEF SockPart!AcceptUnix, SockPart!Accepted, SockInv, JoinedOnce
  <1>9. ASSUME NEW s \in Sock, SockPart!Delete(s) PROVE SockInv'
    <2>1. sock' = [sock EXCEPT ![s] = SockPart!Gone]
      BY <1>9 DEF SockPart!Delete, SockPart!Close, SockInv, SockTypes, SockPart!TypeOK
    <2> USE <1>9, <2>1, SocketsAssumption
            DEF SockPart!Delete, SockPart!Released, SockInv, SockTypes, SockPart!TypeOK, SockPart!Fd,
                SockPart!FD_UNKNOWN, SockPart!Gone
    <2>2. SockTypes'
      OBVIOUS
    <2>3. FdOwned'
      BY DEF FdOwned, HasFd
    <2>4. FdKnown'
      BY DEF FdOwned, FdKnown, HasFd
    <2>5. ToldTrue'
      BY DEF FdOwned, ToldTrue, HasFd, SockPart!ToldOf
    <2>6. JoinedOnce'
      BY DEF JoinedOnce
    <2> QED BY <2>2, <2>3, <2>4, <2>5, <2>6
  <1>10. ASSUME NEW s \in Sock, SockPart!Forget(s) PROVE SockInv'
    <2> USE <1>10, SocketsAssumption
            DEF SockPart!Forget, SockPart!Unopened, SockInv, SockTypes, SockPart!TypeOK, SockPart!Fd,
                SockPart!FD_UNKNOWN, SockPart!Gone
    <2>2. SockTypes'
      OBVIOUS
    <2>3. FdOwned'
      BY DEF FdOwned, HasFd
    <2>4. FdKnown'
      BY DEF FdOwned, FdKnown, HasFd
    <2>5. ToldTrue'
      BY DEF FdOwned, ToldTrue, HasFd, SockPart!ToldOf
    <2>6. JoinedOnce'
      BY DEF JoinedOnce
    <2> QED BY <2>2, <2>3, <2>4, <2>5, <2>6
  <1>11. ASSUME NEW s \in Sock, SockPart!Disown(s) PROVE SockInv'
    <2>1. HasFd(s)
      BY <1>11 DEF SockPart!Disown, ToldTrue, SockInv, HasFd
    <2> USE <1>11, <2>1, SocketsAssumption
            DEF SockPart!Disown, SockInv, SockTypes, SockPart!TypeOK, SockPart!Fd,
                SockPart!FD_UNKNOWN, SockPart!Gone
    <2>2. SockTypes'
      BY DEF HasFd
    <2>3. FdOwned'
      BY DEF FdOwned, HasFd
    <2>4. FdKnown'
      BY DEF FdOwned, FdKnown, HasFd
    <2>5. ToldTrue'
      BY DEF FdOwned, ToldTrue, HasFd, SockPart!ToldOf
    <2>6. JoinedOnce'
      BY DEF JoinedOnce
    <2> QED BY <2>2, <2>3, <2>4, <2>5, <2>6
  <1> QED
    BY <1>1, <1>2, <1>3, <1>4, <1>5, <1>6, <1>7, <1>8, <1>9, <1>10, <1>11 DEF SockPart!Next

LEMMA SockInvAgree == ASSUME SockInv PROVE SocketsAgree
  <1> USE SocketsAssumption DEF SockInv, SockTypes, SockPart!TypeOK, SockPart!Fd, SockPart!FD_UNKNOWN, HasFd
  <1>1. ASSUME NEW f \in SockPart!Fd, kernel[f] = "free" PROVE SockPart!Held(f) = {} /\ f \notin leaked
    BY <1>1 DEF SockPart!Held, FdOwned, FdKnown
  <1>2. ASSUME NEW f \in leaked PROVE SockPart!Held(f) = {}
    BY DEF SockPart!Held, FdOwned
  <1>3. ASSUME NEW f \in SockPart!Fd, kernel[f] # "free", f \notin leaked
        PROVE  \E s \in Sock : SockPart!Held(f) = {s}
    BY <1>3 DEF SockPart!Held, FdOwned, FdKnown
  <1>4. \A s \in Sock : sock[s].told \in {"listening", "connected", "accepted"} =>
            kernel[sock[s].mFD] = SockPart!ToldOf(sock[s].told)
    BY DEF ToldTrue, SockPart!ToldOf
  <1>5. joined <= 1
    BY DEF JoinedOnce
  <1>6. \A f \in SockPart!Fd :
            CASE kernel[f] = "free" -> SockPart!Held(f) = {} /\ f \notin leaked
              [] f \in leaked -> SockPart!Held(f) = {}
              [] OTHER -> \E s \in Sock : SockPart!Held(f) = {s}
    BY <1>1, <1>2, <1>3 DEF FdKnown
  <1> QED BY <1>4, <1>5, <1>6 DEF SocketsAgree, SockPart!SocketsAgree

(* wTcpSocket.cpp, wUnixSocket.cpp: every descriptor is held by one object *)
(* or was lost by Accept, the API or a client that gave up its connection, *)
(* and what a call has told is so.                                         *)
THEOREM SocketsAgreeCorrect == BaseSpec => []SocketsAgree
  <1>1. BaseInit => SockInv
    BY SockInitInv DEF BaseInit
  <1>2. SockInv /\ [BaseNext]_baseVars => SockInv'
    BY BaseStep, SockNextInv
  <1>3. SockInv => SocketsAgree
    BY SockInvAgree
  <1> QED BY <1>1, <1>2, <1>3, PTL DEF BaseSpec

-----------------------------------------------------------------------------
(* The tables of RouterSvrd (RouterTable).  The map and the limits are of  *)
(* the same nodes, and every table is a sequence of routes.                *)
Route == [node : TablePart!Nodes, mWeight : Weights]

TableTypes ==
    /\ mMapReqSvr \in [DOMAIN mMapReqSvr -> Weights] /\ DOMAIN mMapReqSvr \subseteq TablePart!Nodes
    /\ mRouteTable \in [DOMAIN mRouteTable -> Seq(Route)] /\ DOMAIN mRouteTable \subseteq Kinds
    /\ limits \in [DOMAIN mMapReqSvr -> {TablePart!INIT_LIMIT}]
    /\ saves \in 0 .. MaxSaves

(* Every route is that of a known node, in the table of its kind, with the *)
(* weight of the map; and every known node has exactly one.                *)
RoutesKnown ==
    \A k \in DOMAIN mRouteTable : \A i \in 1 .. Len(mRouteTable[k]) :
        LET r == mRouteTable[k][i] IN
        r.node[1] = k /\ r.node \in DOMAIN mMapReqSvr /\ r.mWeight = mMapReqSvr[r.node]
RoutesApart ==
    \A k \in DOMAIN mRouteTable : \A i, j \in 1 .. Len(mRouteTable[k]) :
        mRouteTable[k][i].node = mRouteTable[k][j].node => i = j
NodesRouted ==
    \A n \in DOMAIN mMapReqSvr :
        /\ n[1] \in DOMAIN mRouteTable
        /\ \E i \in 1 .. Len(mRouteTable[n[1]]) : mRouteTable[n[1]][i].node = n
TableInv == TableTypes /\ RoutesKnown /\ RoutesApart /\ NodesRouted

LEMMA TableInitInv == ASSUME TablePart!Init PROVE TableInv
  BY RouterTableAssumption
  DEF TablePart!Init, TableInv, TableTypes, RoutesKnown, RoutesApart, NodesRouted

(* AllocNode: the route of a new node goes behind the routes of its kind,  *)
(* and takes their limits over.                                            *)
LEMMA AllocInv ==
    ASSUME TableInv, NEW n \in TablePart!Nodes, NEW w \in Weights, TablePart!AllocNode(n, w),
           saves' \in 0 .. MaxSaves
    PROVE  TableInv'
  <1> DEFINE rs == TablePart!Routes(n[1])
             r == [node |-> n, mWeight |-> w]
  <1>1. n[1] \in Kinds
    BY DEF TablePart!Nodes
  <1>2. rs \in Seq(Route)
    BY DEF TablePart!Routes, TableInv, TableTypes
  <1>3. \A i \in 1 .. Len(rs) :
            /\ n[1] \in DOMAIN mRouteTable /\ rs = mRouteTable[n[1]]
            /\ rs[i].node \in DOMAIN mMapReqSvr /\ rs[i].node[1] = n[1] /\ rs[i].mWeight = mMapReqSvr[rs[i].node]
    BY <1>2 DEF TablePart!Routes, TableInv, RoutesKnown
  <1>4. TablePart!StatCfg(n[1]) = TablePart!INIT_LIMIT
    <2>1. CASE rs = << >>
      BY <2>1 DEF TablePart!StatCfg, TablePart!LoadStatCfg
    <2>2. CASE rs # << >>
      <3>1. Len(rs) \in 1 .. Len(rs)
        BY <1>2, <2>2
      <3>2. TablePart!Last(rs) = rs[Len(rs)]
        BY DEF TablePart!Last
      <3>3. rs[Len(rs)].node \in DOMAIN mMapReqSvr
        BY <1>3, <3>1
      <3> QED BY <2>2, <3>2, <3>3 DEF TablePart!StatCfg, TableInv, TableTypes
    <2> QED BY <2>1, <2>2
  <1>5. /\ n \notin DOMAIN mMapReqSvr
        /\ mMapReqSvr' = [z \in DOMAIN mMapReqSvr \cup {n} |-> IF z = n THEN w ELSE mMapReqSvr[z]]
        /\ limits' = [z \in DOMAIN mMapReqSvr \cup {n} |-> IF z = n THEN TablePart!INIT_LIMIT ELSE limits[z]]
        /\ mRouteTable' = [z \in DOMAIN mRouteTable \cup {n[1]} |->
                              IF z = n[1] THEN Append(rs, r) ELSE mRouteTable[z]]
    BY <1>4 DEF TablePart!AllocNode, TablePart!AddRouteNode, TablePart!Put, TableInv, TableTypes
  <1>6. /\ Append(rs, r) \in Seq(Route) /\ Len(Append(rs, r)) = Len(rs) + 1
        /\ \A i \in 1 .. Len(rs) : Append(rs, r)[i] = rs[i]
        /\ Append(rs, r)[Len(rs) + 1] = r
    BY <1>2 DEF Route
  <1> DEFINE rs2 == Append(rs, r)
  <1> HIDE DEF rs, rs2
  <1>7. TableTypes'
    BY <1>1, <1>5, <1>6 DEF TableInv, TableTypes, rs2
  <1>8. RoutesKnown'
    <2> SUFFICES ASSUME NEW k \in DOMAIN mRouteTable', NEW i \in 1 .. Len(mRouteTable'[k])
                 PROVE  LET q == mRouteTable'[k][i] IN
                        q.node[1] = k /\ q.node \in DOMAIN mMapReqSvr' /\ q.mWeight = mMapReqSvr'[q.node]
      BY DEF RoutesKnown
    <2>1. CASE k # n[1]
      BY <1>5, <2>1 DEF TableInv, RoutesKnown
    <2>2. CASE k = n[1]
      <3>1. mRouteTable'[k] = rs2 BY <1>5, <2>2 DEF rs2
      <3>2. i = Len(rs) + 1 \/ i \in 1 .. Len(rs)
        BY <1>2, <1>6, <3>1 DEF rs2
      <3>3. CASE i = Len(rs) + 1
        BY <1>5, <1>6, <2>2, <3>1, <3>3 DEF rs2
      <3>4. CASE i \in 1 .. Len(rs)
        BY <1>3, <1>5, <1>6, <2>2, <3>1, <3>4 DEF rs2
      <3> QED BY <3>2, <3>3, <3>4
    <2> QED BY <2>1, <2>2
  <1>9. RoutesApart'
    <2> SUFFICES ASSUME NEW k \in DOMAIN mRouteTable', NEW i \in 1 .. Len(mRouteTable'[k]),
                        NEW j \in 1 .. Len(mRouteTable'[k]),
                        mRouteTable'[k][i].node = mRouteTable'[k][j].node
                 PROVE  i = j
      BY DEF RoutesApart
    <2>1. CASE k # n[1]
      BY <1>5, <2>1 DEF TableInv, RoutesApart
    <2>2. CASE k = n[1]
      <3>1. mRouteTable'[k] = rs2 BY <1>5, <2>2 DEF rs2
      <3>2. (i = Len(rs) + 1 \/ i \in 1 .. Len(rs)) /\ (j = Len(rs) + 1 \/ j \in 1 .. Len(rs))
        BY <1>2, <1>6, <3>1 DEF rs2
      <3>3. CASE i \in 1 .. Len(rs) /\ j \in 1 .. Len(rs)
        <4>1. rs[i].node = rs[j].node /\ rs = mRouteTable[n[1]] /\ n[1] \in DOMAIN mRouteTable
          BY <1>3, <1>6, <3>1, <3>3 DEF rs2
        <4> QED BY <3>3, <4>1 DEF TableInv, RoutesApart
      <3>4. \A l \in 1 .. Len(rs) : rs2[l].node # n
        BY <1>3, <1>5, <1>6 DEF rs2
      <3> QED BY <1>6, <3>1, <3>2, <3>3, <3>4 DEF rs2
    <2> QED BY <2>1, <2>2
  <1>10. NodesRouted'
    <2> SUFFICES ASSUME NEW m \in DOMAIN mMapReqSvr'
                 PROVE  /\ m[1] \in DOMAIN mRouteTable'
                        /\ \E i \in 1 .. Len(mRouteTable'[m[1]]) : mRouteTable'[m[1]][i].node = m
      BY DEF NodesRouted
    <2>1. CASE m = n
      <3>1. mRouteTable'[n[1]] = rs2 /\ n[1] \in DOMAIN mRouteTable' BY <1>5 DEF rs2
      <3>2. Len(rs) + 1 \in 1 .. Len(rs2) /\ rs2[Len(rs) + 1].node = n
        BY <1>2, <1>6 DEF rs2
      <3> QED BY <2>1, <3>1, <3>2
    <2>2. CASE m # n
      <3>1. m \in DOMAIN mMapReqSvr BY <1>5, <2>2
      <3>2. PICK i \in 1 .. Len(mRouteTable[m[1]]) : mRouteTable[m[1]][i].node = m
        BY <3>1 DEF TableInv, NodesRouted
      <3>3. m[1] \in DOMAIN mRouteTable /\ m[1] \in DOMAIN mRouteTable'
        BY <3>1, <1>5 DEF TableInv, NodesRouted
      <3>4. CASE m[1] # n[1]
        BY <1>5, <3>2, <3>3, <3>4
      <3>5. CASE m[1] = n[1]
        <4>1. rs = mRouteTable[n[1]] BY <3>3, <3>5 DEF rs, TablePart!Routes
        <4>2. mRouteTable'[m[1]] = rs2 BY <1>5, <3>5 DEF rs2
        <4>3. i \in 1 .. Len(rs2) /\ rs2[i].node = m
          BY <1>2, <1>6, <3>2, <3>5, <4>1 DEF rs2
        <4> QED BY <3>3, <4>2, <4>3
      <3> QED BY <3>4, <3>5
    <2> QED BY <2>1, <2>2
  <1> QED BY <1>7, <1>8, <1>9, <1>10 DEF TableInv

(* ModRouteNode: a weight changes in the map and in the one route.         *)
LEMMA ModInv ==
    ASSUME TableInv, NEW n \in DOMAIN mMapReqSvr, NEW w \in Weights, UNCHANGED limits,
           mMapReqSvr' = TablePart!Put(mMapReqSvr, n, w), TablePart!ModRouteNode(n, w),
           saves' \in 0 .. MaxSaves
    PROVE  TableInv'
  <1> DEFINE k1 == n[1]
             rs == mRouteTable[k1]
             rs2 == [i \in 1 .. Len(rs) |-> IF rs[i].node = n THEN [rs[i] EXCEPT !.mWeight = w] ELSE rs[i]]
  <1>1. k1 \in DOMAIN mRouteTable /\ rs \in Seq(Route) /\ DOMAIN rs = 1 .. Len(rs) /\ Len(rs) \in Nat
    BY DEF TableInv, TableTypes, NodesRouted
  <1>2. /\ mMapReqSvr' = [mMapReqSvr EXCEPT ![n] = w]
        /\ mRouteTable' = [mRouteTable EXCEPT ![k1] = rs2]
    <2>1. mMapReqSvr' = [mMapReqSvr EXCEPT ![n] = w]
      BY DEF TablePart!Put, TableInv, TableTypes
    <2>2. TablePart!ModRoute(rs, n, w) = rs2
      BY <1>1 DEF TablePart!ModRoute
    <2> QED BY <2>1, <2>2 DEF TablePart!ModRouteNode
  <1>3. /\ rs2 \in Seq(Route) /\ Len(rs2) = Len(rs)
        /\ \A i \in 1 .. Len(rs) :
              /\ rs2[i].node = rs[i].node
              /\ rs2[i].mWeight = IF rs[i].node = n THEN w ELSE rs[i].mWeight
    <2>1. \A i \in 1 .. Len(rs) : rs[i] \in Route
      BY <1>1
    <2> QED BY <1>1, <2>1 DEF Route
  <1> HIDE DEF rs, rs2
  <1>4. \A k \in DOMAIN mRouteTable : k # k1 => mRouteTable'[k] = mRouteTable[k]
    BY <1>2
  <1>5. mRouteTable'[k1] = rs2 /\ DOMAIN mRouteTable' = DOMAIN mRouteTable /\ DOMAIN mMapReqSvr' = DOMAIN mMapReqSvr
    BY <1>1, <1>2 DEF TableInv, TableTypes
  <1>6. TableTypes'
    BY <1>1, <1>2, <1>3 DEF TableInv, TableTypes
  <1>7. RoutesKnown'
    <2> SUFFICES ASSUME NEW k \in DOMAIN mRouteTable, NEW i \in 1 .. Len(mRouteTable'[k])
                 PROVE  LET q == mRouteTable'[k][i] IN
                        q.node[1] = k /\ q.node \in DOMAIN mMapReqSvr' /\ q.mWeight = mMapReqSvr'[q.node]
      BY <1>5 DEF RoutesKnown
    <2>1. CASE k # k1
      <3>1. LET q == mRouteTable[k][i] IN
                q.node[1] = k /\ q.node \in DOMAIN mMapReqSvr /\ q.mWeight = mMapReqSvr[q.node]
        BY <1>4, <2>1 DEF TableInv, RoutesKnown
      <3> QED BY <1>2, <1>4, <1>5, <2>1, <3>1
    <2>2. CASE k = k1
      <3>1. i \in 1 .. Len(rs) BY <1>3, <1>5, <2>2
      <3>2. rs[i].node[1] = k /\ rs[i].node \in DOMAIN mMapReqSvr /\ rs[i].mWeight = mMapReqSvr[rs[i].node]
        BY <2>2, <3>1 DEF TableInv, RoutesKnown, rs
      <3> QED BY <1>2, <1>3, <1>5, <2>2, <3>1, <3>2
    <2> QED BY <2>1, <2>2
  <1>8. RoutesApart'
    <2> SUFFICES ASSUME NEW k \in DOMAIN mRouteTable, NEW i \in 1 .. Len(mRouteTable'[k]),
                        NEW j \in 1 .. Len(mRouteTable'[k]),
                        mRouteTable'[k][i].node = mRouteTable'[k][j].node
                 PROVE  i = j
      BY <1>5 DEF RoutesApart
    <2>1. CASE k # k1
      BY <1>4, <2>1 DEF TableInv, RoutesApart
    <2>2. CASE k = k1
      <3>1. i \in 1 .. Len(rs) /\ j \in 1 .. Len(rs) /\ rs[i].node = rs[j].node
        BY <1>3, <1>5, <2>2
      <3> QED BY <1>1, <2>2, <3>1 DEF TableInv, RoutesApart, rs
    <2> QED BY <2>1, <2>2
  <1>9. NodesRouted'
    <2> SUFFICES ASSUME NEW m \in DOMAIN mMapReqSvr
                 PROVE  /\ m[1] \in DOMAIN mRouteTable
                        /\ \E i \in 1 .. Len(mRouteTable'[m[1]]) : mRouteTable'[m[1]][i].node = m
      BY <1>5 DEF NodesRouted
    <2>1. PICK i \in 1 .. Len(mRouteTable[m[1]]) : mRouteTable[m[1]][i].node = m
      BY DEF TableInv, NodesRouted
    <2>2. m[1] \in DOMAIN mRouteTable
      BY DEF TableInv, NodesRouted
    <2>3. CASE m[1] # k1
      BY <1>4, <2>1, <2>2, <2>3
    <2>4. CASE m[1] = k1
      BY <1>3, <1>5, <2>1, <2>2, <2>4 DEF rs
    <2> QED BY <2>3, <2>4
  <1> QED BY <1>6, <1>7, <1>8, <1>9 DEF TableInv

LEMMA TableNextInv == ASSUME TableInv, [TablePart!Next]_tableState PROVE TableInv'
  <1>1. CASE UNCHANGED tableState
    BY <1>1 DEF tableState, TableInv, TableTypes, RoutesKnown, RoutesApart, NodesRouted
  <1>2. ASSUME NEW n \in TablePart!Nodes, NEW w \in Weights, TablePart!SaveNode(n, w) PROVE TableInv'
    <2>1. saves' \in 0 .. MaxSaves
      BY <1>2, RouterTableAssumption DEF TablePart!SaveNode, TableInv, TableTypes
    <2>2. CASE TablePart!AllocNode(n, w)
      BY <2>1, <2>2, AllocInv
    <2>3. CASE n \in DOMAIN mMapReqSvr /\ w # mMapReqSvr[n] /\ ~TablePart!AllocNode(n, w)
      BY <1>2, <2>1, <2>3, ModInv DEF TablePart!SaveNode
    <2>4. CASE n \in DOMAIN mMapReqSvr /\ w = mMapReqSvr[n] /\ ~TablePart!AllocNode(n, w)
      <3>1. UNCHANGED <<mMapReqSvr, mRouteTable, limits>>
        BY <1>2, <2>4 DEF TablePart!SaveNode
      <3> QED BY <2>1, <3>1 DEF TableInv, TableTypes, RoutesKnown, RoutesApart, NodesRouted
    <2> QED BY <1>2, <2>2, <2>3, <2>4 DEF TablePart!SaveNode
  <1> QED BY <1>1, <1>2 DEF TablePart!Next

LEMMA TableInvRouted == ASSUME TableInv PROVE TablePart!TypeOK /\ RoutedOnce
  <1>1. TablePart!TypeOK
    BY DEF TableInv, TableTypes, TablePart!TypeOK
  <1>2. ASSUME NEW k \in DOMAIN mRouteTable, NEW i \in DOMAIN mRouteTable[k]
        PROVE  /\ mRouteTable[k][i].node[1] = k
               /\ <<mRouteTable[k][i].node, mRouteTable[k][i].mWeight>> \in TablePart!GetSvrAll
               /\ \A j \in DOMAIN mRouteTable[k] :
                    mRouteTable[k][j].node = mRouteTable[k][i].node => i = j
    <2>1. DOMAIN mRouteTable[k] = 1 .. Len(mRouteTable[k])
      BY DEF TableInv, TableTypes
    <2> QED BY <2>1 DEF TableInv, RoutesKnown, RoutesApart, TablePart!GetSvrAll
  <1>3. \A n \in DOMAIN mMapReqSvr : \E i \in DOMAIN TablePart!Routes(n[1]) : TablePart!Routes(n[1])[i].node = n
    <2> SUFFICES ASSUME NEW n \in DOMAIN mMapReqSvr
                 PROVE  \E i \in DOMAIN TablePart!Routes(n[1]) : TablePart!Routes(n[1])[i].node = n
      OBVIOUS
    <2>1. TablePart!Routes(n[1]) = mRouteTable[n[1]] /\ mRouteTable[n[1]] \in Seq(Route)
      BY DEF TableInv, TableTypes, NodesRouted, TablePart!Routes
    <2> QED BY <2>1 DEF TableInv, NodesRouted
  <1>4. \A n \in DOMAIN limits : limits[n] = TablePart!INIT_LIMIT
    BY DEF TableInv, TableTypes
  <1> QED BY <1>1, <1>2, <1>3, <1>4 DEF RoutedOnce, TablePart!RoutedOnce

(* routerserver/src/SvrQos.cpp: the node map and the tables of routes      *)
(* behind it stay one, however the files change.                           *)
THEOREM RoutedOnceCorrect == BaseSpec => []RoutedOnce
  <1>1. BaseInit => TableInv
    BY TableInitInv DEF BaseInit
  <1>2. TableInv /\ [BaseNext]_baseVars => TableInv'
    BY BaseStep, TableNextInv
  <1>3. TableInv => RoutedOnce
    BY TableInvRouted
  <1> QED BY <1>1, <1>2, <1>3, PTL DEF BaseSpec

-----------------------------------------------------------------------------
(* The memory pool (MemPool).  What was given out ends at mLast at most,   *)
(* and mLast is past the end only when trouble says so.                    *)
PiecesPlaced ==
    \A a \in pieces :
        /\ a.from \in Nat /\ a.size \in Nat /\ a.from >= mStart /\ a.from % ALIGNMENT = 0
        /\ a.from + a.size <= mLast
PoolInv ==
    /\ mLast \in Nat /\ mLast >= mStart /\ trouble \subseteq {"outside", "twice"}
    /\ \E N : mExtra \subseteq [nth : N, size : Nat, freed : BOOLEAN]
    /\ PiecesPlaced
    /\ \A a, b \in pieces : a # b => a.from + a.size <= b.from \/ b.from + b.size <= a.from
    /\ "outside" \notin trouble => mLast <= mEnd

(* ALIGN_PTR rounds up to a multiple of ALIGNMENT.                         *)
LEMMA Aligned ==
    ASSUME NEW p \in Nat
    PROVE  /\ PoolPart!ALIGN_PTR(p) \in Nat /\ PoolPart!ALIGN_PTR(p) >= p
           /\ PoolPart!ALIGN_PTR(p) % ALIGNMENT = 0
  <1>1. ALIGNMENT \in Nat /\ ALIGNMENT > 0
    BY MemPoolAssumption
  <1> DEFINE x == p + ALIGNMENT - 1
             q == x \div ALIGNMENT
  <1>2. x \in Int
    BY <1>1
  <1> HIDE DEF x
  <1>3. x = ALIGNMENT * q + (x % ALIGNMENT) /\ x % ALIGNMENT \in 0 .. ALIGNMENT - 1 /\ q \in Int
    BY <1>1, <1>2, DivMod
  <1> HIDE DEF q
  <1>4. q * ALIGNMENT \in Int /\ q * ALIGNMENT = ALIGNMENT * q + 0
    BY <1>1, <1>3
  <1>5. q * ALIGNMENT >= p
    <2> DEFINE z == ALIGNMENT * q
               r == x % ALIGNMENT
    <2>1. z \in Int /\ r \in 0 .. ALIGNMENT - 1 /\ x = z + r
      <3>1. z \in Int BY <1>1, <1>3
      <3> QED BY <1>3, <3>1
    <2> HIDE DEF z, r
    <2>2. z >= p
      BY <1>1, <2>1 DEF x
    <2>3. q * ALIGNMENT = z
      BY <1>1, <1>3 DEF z
    <2> QED BY <2>2, <2>3
  <1>6. (q * ALIGNMENT) % ALIGNMENT = 0
    BY <1>1, <1>3, <1>4, ModIs
  <1> QED BY <1>4, <1>5, <1>6 DEF PoolPart!ALIGN_PTR, q, x

LEMMA PoolInitInv == ASSUME PoolPart!Init PROVE PoolInv
  BY MemPoolAssumption DEF PoolPart!Init, PoolInv, PiecesPlaced

LEMMA PoolNextInv == ASSUME PoolInv, [PoolPart!Next]_poolState PROVE PoolInv'
  <1>1. CASE UNCHANGED poolState
    BY <1>1 DEF poolState, PoolInv, PiecesPlaced
  <1>2. ASSUME NEW size \in Asked, PoolPart!Alloc(size) PROVE PoolInv'
    <2>1. CASE ~PoolPart!InPool(0, size)
      <3>1. PICK x : mExtra' = mExtra \cup {[nth |-> x, size |-> size, freed |-> FALSE]}
        BY <1>2, <2>1 DEF PoolPart!Alloc
      <3>2. UNCHANGED <<mLast, pieces, trouble>>
        BY <1>2, <2>1 DEF PoolPart!Alloc
      <3>3. PICK N : mExtra \subseteq [nth : N, size : Nat, freed : BOOLEAN]
        BY DEF PoolInv
      <3>4. size \in Nat
        BY MemPoolAssumption
      <3>5. mExtra' \subseteq [nth : N \cup {x}, size : Nat, freed : BOOLEAN]
        <4>1. [nth |-> x, size |-> size, freed |-> FALSE] \in [nth : N \cup {x}, size : Nat, freed : BOOLEAN]
          BY <3>4
        <4>2. [nth : N, size : Nat, freed : BOOLEAN] \subseteq [nth : N \cup {x}, size : Nat, freed : BOOLEAN]
          OBVIOUS
        <4> QED BY <3>1, <3>3, <4>1, <4>2
      <3> QED BY <3>2, <3>5 DEF PoolInv, PiecesPlaced
    <2>2. CASE PoolPart!InPool(0, size)
      <3> DEFINE m == PoolPart!ALIGN_PTR(mLast)
                 piece == [from |-> m, size |-> size]
      <3>1. m \in Nat /\ m >= mLast /\ m % ALIGNMENT = 0 /\ mLast \in Nat /\ mLast >= mStart
        BY Aligned DEF PoolInv
      <3>2. size \in Nat /\ mStart \in Nat /\ mEnd \in Nat
        BY MemPoolAssumption
      <3>3. /\ pieces' = pieces \cup {piece} /\ mLast' = m + size /\ mExtra' = mExtra
            /\ trouble' = IF m + size > mEnd THEN trouble \cup {"outside"} ELSE trouble
        BY <1>2, <2>2 DEF PoolPart!Alloc, PoolPart!LastAfter
      <3> HIDE DEF m
      <3>4. mLast' \in Nat /\ mLast' >= mStart /\ trouble' \subseteq {"outside", "twice"}
        BY <3>1, <3>2, <3>3 DEF PoolInv
      <3>5. PiecesPlaced'
        BY <3>1, <3>2, <3>3 DEF PoolInv, PiecesPlaced
      <3>6. ASSUME NEW a \in pieces', NEW b \in pieces', a # b
            PROVE  a.from + a.size <= b.from \/ b.from + b.size <= a.from
        BY <3>1, <3>2, <3>3, <3>6 DEF PoolInv, PiecesPlaced
      <3>7. "outside" \notin trouble' => mLast' <= mEnd
        BY <3>1, <3>2, <3>3
      <3>8. \E N : mExtra' \subseteq [nth : N, size : Nat, freed : BOOLEAN]
        BY <3>3 DEF PoolInv
      <3> QED BY <3>4, <3>5, <3>6, <3>7, <3>8, Zenon DEF PoolInv
    <2> QED BY <2>1, <2>2
  <1>3. CASE PoolPart!Reset
    <2>1. /\ mLast' = mStart /\ pieces' = {} /\ mExtra' = {[e EXCEPT !.freed = TRUE] : e \in mExtra}
          /\ trouble' = trouble \/ trouble' = trouble \cup {"twice"}
      BY <1>3 DEF PoolPart!Reset
    <2>2. PICK N : mExtra \subseteq [nth : N, size : Nat, freed : BOOLEAN]
      BY <1>3 DEF PoolInv
    <2>3. mExtra' \subseteq [nth : N, size : Nat, freed : BOOLEAN]
      BY <2>1, <2>2
    <2>4. PiecesPlaced' /\ \A a, b \in pieces' : a # b => a.from + a.size <= b.from \/ b.from + b.size <= a.from
      BY <2>1 DEF PiecesPlaced
    <2>5. mLast' \in Nat /\ mLast' >= mStart /\ mLast' <= mEnd /\ trouble' \subseteq {"outside", "twice"}
      BY <2>1, MemPoolAssumption DEF PoolInv
    <2> QED BY <2>3, <2>4, <2>5 DEF PoolInv
  <1> QED BY <1>1, <1>2, <1>3 DEF PoolPart!Next

LEMMA PoolInvPieces == ASSUME PoolInv PROVE PoolPart!TypeOK /\ PoolPart!Pieces
  BY MemPoolAssumption DEF PoolInv, PiecesPlaced, PoolPart!Pieces, PoolPart!TypeOK

-----------------------------------------------------------------------------
(* Shared memory and its lock (Shm).  The identifiers are the first        *)
(* numbers; what a process has mapped is a segment; only a mapping has a   *)
(* lock in it.                                                             *)
ShmView ==
    [seg : Nat, mShmId : Nat, head : {"none", "mapped", "dangling"}, space : Process \cup {0},
     locks : BOOLEAN]
ShmTypes ==
    /\ \E n \in Nat : DOMAIN segments = 1 .. n
    /\ segments \in [ShmPart!Ids -> ShmPart!Segment]
    /\ keyId \in ShmPart!Ids \cup {0}
    /\ view \in [Process -> ShmView]
    /\ \A p \in Process : view[p].head = "mapped" => view[p].seg \in ShmPart!Ids
    /\ \A p \in Process : view[p].locks => view[p].head = "mapped"
    /\ holders \subseteq Process /\ mishaps \subseteq ShmPart!Mishap

(* Of every segment the bytes from the head to used have been given out,   *)
(* and no others; until somebody releases a lock that is not his, every    *)
(* lock is as it was made.                                                 *)
UsedWithin == \A id \in ShmPart!Ids : segments[id].used \in HeadSize .. segments[id].size
GivenBelowUsed ==
    "recreated" \notin mishaps =>
        /\ \A a \in given :
              /\ a.seg \in ShmPart!Ids /\ a.from \in Nat /\ a.size \in Nat
              /\ a.from >= HeadSize /\ a.from + a.size <= segments[a.seg].used
        /\ \A a, b \in given :
              a.seg = b.seg /\ a # b => a.from + a.size <= b.from \/ b.from + b.size <= a.from
LocksTaken == "stray" \notin mishaps => holders = {} /\ \A id \in ShmPart!Ids : segments[id].sem <= 0
ShmInv == ShmTypes /\ UsedWithin /\ GivenBelowUsed /\ LocksTaken

LEMMA ShmInitInv == ASSUME ShmPart!Init PROVE ShmInv
  <1>1. DOMAIN segments = {} /\ DOMAIN segments = 1 .. 0
    BY DEF ShmPart!Init
  <1>2. \A p \in Process : view[p] \in ShmView /\ view[p].locks = FALSE /\ view[p].head = "none"
    BY DEF ShmPart!Init, ShmPart!NoView, ShmView
  <1>3. view \in [Process -> ShmView] /\ segments \in [{} -> ShmPart!Segment]
    BY <1>1, <1>2 DEF ShmPart!Init
  <1> QED BY <1>1, <1>2, <1>3
      DEF ShmPart!Init, ShmInv, ShmTypes, UsedWithin, GivenBelowUsed, LocksTaken, ShmPart!Ids

LEMMA SegmentTypes ==
    ASSUME ShmTypes, NEW id \in ShmPart!Ids
    PROVE  /\ segments[id] \in ShmPart!Segment /\ segments[id].size \in Nat /\ segments[id].size > HeadSize
           /\ segments[id].used \in Nat /\ segments[id].sem \in Int /\ HeadSize \in Nat
  <1>1. segments[id] \in ShmPart!Segment
    BY DEF ShmTypes
  <1>2. /\ segments[id].size \in Sizes /\ segments[id].used \in Nat /\ segments[id].sem \in Int
    BY <1>1 DEF ShmPart!Segment
  <1> QED BY <1>1, <1>2, ShmAssumption

(* What Mapped and AttachShm make of a view.                               *)
IsMapped(v, id) == v \in ShmView /\ v.seg = id /\ v.head = "mapped" /\ v.locks = FALSE

LEMMA Views ==
    ASSUME NEW p \in Process, NEW id \in Nat
    PROVE  /\ IsMapped(ShmPart!Mapped(p, id), id)
           /\ IsMapped([ShmPart!Mapped(p, id) EXCEPT !.mShmId = 0], id)
  <1> DEFINE m == ShmPart!Mapped(p, id)
  <1>1. ShmPart!NoView \in ShmView /\ ShmPart!NoView.locks = FALSE
    BY DEF ShmPart!NoView, ShmView
  <1>2. m = [[[[ShmPart!NoView EXCEPT !.seg = id] EXCEPT !.mShmId = id] EXCEPT !.head = "mapped"] EXCEPT !.space = p]
    BY Zenon DEF ShmPart!Mapped
  <1>3. IsMapped(m, id)
    BY <1>1, <1>2 DEF ShmView, IsMapped
  <1> HIDE DEF m
  <1>4. IsMapped([m EXCEPT !.mShmId = 0], id)
    BY <1>3 DEF ShmView, IsMapped
  <1> QED BY <1>3, <1>4 DEF m

(* A segment that the kernel makes has the next identifier.                *)
LEMMA ShmIds == ASSUME ShmTypes PROVE ShmPart!Cardinality(ShmPart!Ids) + 1 \notin ShmPart!Ids
                                   /\ ShmPart!Cardinality(ShmPart!Ids) \in Nat
                                   /\ ShmPart!Ids = 1 .. ShmPart!Cardinality(ShmPart!Ids)
  <1>1. PICK n \in Nat : ShmPart!Ids = 1 .. n
    BY DEF ShmTypes, ShmPart!Ids
  <1>2. Cardinality(1 .. n) = n
    <2>1. Cardinality(1 .. n) = IF 1 > n THEN 0 ELSE n - 1 + 1
      BY FS_Interval
    <2> QED BY <2>1
  <1>3. ShmPart!Cardinality(ShmPart!Ids) = Cardinality(ShmPart!Ids)
    BY Zenon DEF ShmPart!Cardinality, Cardinality
  <1> QED BY <1>1, <1>2, <1>3

(* CreateShm makes a segment: nothing of it has been given out.            *)
LEMMA CreateNewInv ==
    ASSUME ShmInv, NEW p \in Process, NEW n \in Sizes, ShmPart!CreateNew(p, n)
    PROVE  ShmInv'
  <1> DEFINE k == keyId'
  <1>1. /\ k \in Nat \ {0} /\ k \notin ShmPart!Ids /\ ShmPart!Ids \cup {k} = 1 .. k
        /\ segments' = [id \in ShmPart!Ids \cup {k} |->
                           IF id = k THEN ShmPart!NewSegment(p, n) ELSE segments[id]]
        /\ view' = [view EXCEPT ![p] = ShmPart!Mapped(p, k)]
        /\ UNCHANGED <<given, holders, mishaps>>
    BY ShmIds DEF ShmPart!CreateNew, ShmInv
  <1> HIDE DEF k
  <1>2. /\ ShmPart!NewSegment(p, n) \in ShmPart!Segment /\ ShmPart!NewSegment(p, n).size = n
        /\ ShmPart!NewSegment(p, n).used = HeadSize /\ ShmPart!NewSegment(p, n).sem = 0
        /\ HeadSize \in Nat /\ n \in Nat /\ HeadSize <= n
    BY ShmAssumption DEF ShmPart!NewSegment, ShmPart!Segment
  <1>3. ShmPart!Ids' = ShmPart!Ids \cup {k}
    BY <1>1 DEF ShmPart!Ids
  <1>4. ShmTypes'
    <2>1. \E m \in Nat : DOMAIN segments' = 1 .. m
      BY <1>1
    <2>2. segments' \in [ShmPart!Ids' -> ShmPart!Segment]
      BY <1>1, <1>2, <1>3 DEF ShmInv, ShmTypes
    <2>3. IsMapped(ShmPart!Mapped(p, k), k)
      BY <1>1, Views
    <2>4. k \in ShmPart!Ids' /\ ShmPart!Ids \subseteq ShmPart!Ids'
      BY <1>3
    <2> QED BY <1>1, <2>1, <2>2, <2>3, <2>4 DEF k, ShmInv, ShmTypes, IsMapped
  <1>5. UsedWithin'
    BY <1>1, <1>2, <1>3 DEF ShmInv, UsedWithin
  <1>6. GivenBelowUsed'
    BY <1>1, <1>3 DEF ShmInv, GivenBelowUsed
  <1>7. LocksTaken'
    BY <1>1, <1>2, <1>3 DEF ShmInv, LocksTaken
  <1> QED BY <1>4, <1>5, <1>6, <1>7 DEF ShmInv

(* CreateShm finds a segment: from then on nothing is promised of pieces.  *)
LEMMA CreateFoundInv ==
    ASSUME ShmInv, NEW p \in Process, NEW n \in Sizes, ShmPart!CreateFound(p, n)
    PROVE  ShmInv'
  <1>1. /\ keyId \in ShmPart!Ids
        /\ segments' = [segments EXCEPT ![keyId].used = HeadSize, ![keyId].writer = p]
        /\ view' = [view EXCEPT ![p] = ShmPart!Mapped(p, keyId)]
        /\ mishaps' = mishaps \cup {"recreated"} /\ UNCHANGED <<keyId, given, holders>>
    BY DEF ShmPart!CreateFound, ShmInv, ShmTypes
  <1>2. \A id \in ShmPart!Ids :
            /\ segments[id] \in ShmPart!Segment /\ segments[id].size \in Nat /\ segments[id].size > HeadSize
            /\ HeadSize \in Nat
    BY SegmentTypes DEF ShmInv
  <1>3. ShmPart!Ids' = ShmPart!Ids
    BY <1>1 DEF ShmPart!Ids
  <1>4. /\ segments' \in [ShmPart!Ids -> ShmPart!Segment]
        /\ \A id \in ShmPart!Ids : /\ segments'[id].size = segments[id].size
                                   /\ segments'[id].sem = segments[id].sem
                                   /\ segments'[id].used \in {HeadSize, segments[id].used}
    BY <1>1, <1>2 DEF ShmInv, ShmTypes, ShmPart!Segment
  <1>5. ShmTypes'
    <2>1. \E m \in Nat : DOMAIN segments' = 1 .. m
      BY <1>1 DEF ShmInv, ShmTypes
    <2>2. keyId \in Nat
      BY <1>1 DEF ShmInv, ShmTypes, ShmPart!Ids
    <2>3. IsMapped(ShmPart!Mapped(p, keyId), keyId)
      BY <2>2, Views
    <2> QED BY <1>1, <1>3, <1>4, <2>1, <2>2, <2>3 DEF ShmInv, ShmTypes, IsMapped, ShmPart!Mishap
  <1>6. UsedWithin'
    BY <1>2, <1>3, <1>4 DEF ShmInv, UsedWithin
  <1>7. GivenBelowUsed'
    BY <1>1 DEF GivenBelowUsed
  <1>8. LocksTaken'
    BY <1>1, <1>3, <1>4 DEF ShmInv, LocksTaken
  <1> QED BY <1>5, <1>6, <1>7, <1>8 DEF ShmInv

(* What AllocShm and CreateMutex give out begins where used was.           *)
LEMMA GivesOut ==
    ASSUME ShmInv, NEW id \in ShmPart!Ids, NEW n \in Nat, ShmPart!FitsIn(id, n),
           NEW v \in ShmPart!Segment, v.size = segments[id].size, v.used = segments[id].used + n,
           v.sem = segments[id].sem \/ v.sem = 0, segments' = [segments EXCEPT ![id] = v],
           given' = given \cup {[seg |-> id, from |-> segments[id].used, size |-> n]},
           UNCHANGED <<holders, mishaps>>
    PROVE  /\ segments' \in [ShmPart!Ids -> ShmPart!Segment] /\ ShmPart!Ids' = ShmPart!Ids
           /\ DOMAIN segments' = DOMAIN segments
           /\ UsedWithin' /\ GivenBelowUsed' /\ LocksTaken'
  <1> DEFINE u == segments[id].used
             a == [seg |-> id, from |-> u, size |-> n]
  <1>1. /\ u \in Nat /\ HeadSize \in Nat /\ HeadSize <= u /\ segments[id].size \in Nat
        /\ u + n < segments[id].size
    BY SegmentTypes DEF ShmInv, UsedWithin, ShmPart!FitsIn
  <1>2. ShmPart!Ids' = ShmPart!Ids /\ DOMAIN segments' = DOMAIN segments
    BY DEF ShmPart!Ids
  <1>3. /\ segments' \in [ShmPart!Ids -> ShmPart!Segment]
        /\ \A i \in ShmPart!Ids : segments'[i].size = segments[i].size
        /\ segments'[id].used = u + n /\ segments'[id].sem = v.sem
        /\ \A i \in ShmPart!Ids : i # id => segments'[i] = segments[i]
    BY DEF ShmInv, ShmTypes
  <1>4. UsedWithin'
    BY <1>1, <1>2, <1>3 DEF ShmInv, UsedWithin
  <1>5. \A i \in ShmPart!Ids : segments[i].used \in Nat /\ segments'[i].used \in Nat
                               /\ segments[i].used <= segments'[i].used
    <2>1. \A i \in ShmPart!Ids : segments[i].used \in Nat
      BY SegmentTypes DEF ShmInv
    <2> QED BY <1>1, <1>3, <2>1
  <1> HIDE DEF u
  <1>6. given' = given \cup {a}
    BY DEF u
  <1>7. GivenBelowUsed'
    <2> SUFFICES ASSUME "recreated" \notin mishaps
                 PROVE  GivenBelowUsed!2'
      BY DEF GivenBelowUsed
    <2>1. /\ \A b \in given :
                /\ b.seg \in ShmPart!Ids /\ b.from \in Nat /\ b.size \in Nat
                /\ b.from >= HeadSize /\ b.from + b.size <= segments[b.seg].used
          /\ \A b, c \in given :
                b.seg = c.seg /\ b # c => b.from + b.size <= c.from \/ c.from + c.size <= b.from
      BY DEF ShmInv, GivenBelowUsed
    <2>2. ASSUME NEW b \in given'
          PROVE  /\ b.seg \in ShmPart!Ids /\ b.from \in Nat /\ b.size \in Nat
                 /\ b.from >= HeadSize /\ b.from + b.size <= segments'[b.seg].used
      <3>1. CASE b \in given
        <4>1. /\ b.seg \in ShmPart!Ids /\ b.from \in Nat /\ b.size \in Nat
              /\ b.from >= HeadSize /\ b.from + b.size <= segments[b.seg].used
          BY <2>1, <3>1
        <4>2. segments[b.seg].used \in Nat /\ segments'[b.seg].used \in Nat
              /\ segments[b.seg].used <= segments'[b.seg].used
          BY <1>5, <4>1
        <4> QED BY <4>1, <4>2
      <3>2. CASE b = a
        BY <1>1, <1>3, <3>2
      <3> QED BY <1>6, <3>1, <3>2
    <2>3. ASSUME NEW b \in given', NEW c \in given', b.seg = c.seg, b # c
          PROVE  b.from + b.size <= c.from \/ c.from + c.size <= b.from
      <3>1. CASE b \in given /\ c \in given
        BY <2>1, <2>3, <3>1
      <3>2. CASE b \in given /\ c = a
        BY <2>1, <2>3, <3>2 DEF u
      <3>3. CASE c \in given /\ b = a
        BY <2>1, <2>3, <3>3 DEF u
      <3> QED BY <1>6, <2>3, <3>1, <3>2, <3>3
    <2> QED BY <1>2, <2>2, <2>3
  <1>8. LocksTaken'
    BY <1>2, <1>3 DEF ShmInv, LocksTaken
  <1> QED BY <1>2, <1>3, <1>4, <1>7, <1>8

LEMMA AllocShmInv ==
    ASSUME ShmInv, NEW p \in Process, ShmPart!AllocShm(p, 2)
    PROVE  ShmInv'
  <1>1. CASE ~ShmPart!Follows(p)
    <2>1. UNCHANGED <<keyId, segments, view, given, holders>> /\ mishaps' = mishaps \cup {"foreign"}
      BY <1>1 DEF ShmPart!AllocShm
    <2> QED BY <2>1 DEF ShmInv, ShmTypes, UsedWithin, GivenBelowUsed, LocksTaken, ShmPart!Ids, ShmPart!Mishap
  <1>2. CASE ShmPart!Follows(p)
    <2> DEFINE id == view[p].seg
    <2>1. id \in ShmPart!Ids
      BY DEF ShmPart!AllocShm, ShmInv, ShmTypes
    <2>2. /\ ShmPart!FitsIn(id, 2) /\ segments' = [segments EXCEPT ![id].used = @ + 2]
          /\ given' = given \cup {[seg |-> id, from |-> segments[id].used, size |-> 2]}
          /\ UNCHANGED <<keyId, view, holders, mishaps>>
      BY <1>2 DEF ShmPart!AllocShm
    <2>3. segments[id] \in ShmPart!Segment /\ segments[id].sem \in Int
      BY <2>1, SegmentTypes DEF ShmInv
    <2> DEFINE v == [segments[id] EXCEPT !.used = @ + 2]
    <2>4. /\ v \in ShmPart!Segment /\ v.size = segments[id].size /\ v.used = segments[id].used + 2
          /\ v.sem = segments[id].sem
      BY <2>3 DEF ShmPart!Segment
    <2>6. segments' = [segments EXCEPT ![id] = v]
      BY <2>2
    <2> HIDE DEF id, v
    <2>5. /\ segments' \in [ShmPart!Ids -> ShmPart!Segment] /\ ShmPart!Ids' = ShmPart!Ids
          /\ DOMAIN segments' = DOMAIN segments
          /\ UsedWithin' /\ GivenBelowUsed' /\ LocksTaken'
      BY <2>1, <2>2, <2>4, <2>6, GivesOut
    <2> QED BY <2>2, <2>5 DEF ShmInv, ShmTypes
  <1> QED BY <1>1, <1>2

LEMMA CreateMutexInv ==
    ASSUME ShmInv, NEW p \in Process, ShmPart!CreateMutex(p)
    PROVE  ShmInv'
  <1> DEFINE id == view[p].seg
  <1>1. id \in ShmPart!Ids
    BY DEF ShmPart!CreateMutex, ShmInv, ShmTypes
  <1>2. segments[id] \in ShmPart!Segment
    BY <1>1, SegmentTypes DEF ShmInv
  <1> DEFINE v == [segments[id] EXCEPT !.used = @ + 1, !.sem = 0]
  <1>3. /\ ShmPart!FitsIn(id, 1) /\ segments' = [segments EXCEPT ![id] = v]
        /\ given' = given \cup {[seg |-> id, from |-> segments[id].used, size |-> 1]}
        /\ view[p].head = "mapped" /\ view' = [view EXCEPT ![p].locks = TRUE]
        /\ UNCHANGED <<keyId, holders, mishaps>>
    <2>1. segments' = [segments EXCEPT ![id].used = @ + 1, ![id].sem = 0]
      BY DEF ShmPart!CreateMutex, ShmPart!mValue
    <2>2. segments' = [segments EXCEPT ![id] = v]
      BY <1>1, <2>1 DEF ShmInv, ShmTypes
    <2> QED BY <2>2 DEF ShmPart!CreateMutex
  <1>6. /\ v \in ShmPart!Segment /\ v.size = segments[id].size /\ v.used = segments[id].used + 1
        /\ v.sem = 0
    <2> DEFINE w == [segments[id] EXCEPT !.used = @ + 1]
    <2>1. w \in ShmPart!Segment /\ w.size = segments[id].size /\ w.used = segments[id].used + 1
      BY <1>2 DEF ShmPart!Segment
    <2>2. v = [w EXCEPT !.sem = 0]
      OBVIOUS
    <2> HIDE DEF v, w
    <2> QED BY <2>1, <2>2 DEF ShmPart!Segment
  <1> HIDE DEF id, v
  <1>4. /\ segments' \in [ShmPart!Ids -> ShmPart!Segment] /\ ShmPart!Ids' = ShmPart!Ids
        /\ DOMAIN segments' = DOMAIN segments
        /\ UsedWithin' /\ GivenBelowUsed' /\ LocksTaken'
    BY <1>1, <1>3, <1>6, GivesOut
  <1>5. view' \in [Process -> ShmView]
    BY <1>3 DEF ShmInv, ShmTypes, ShmView
  <1> QED BY <1>3, <1>4, <1>5 DEF ShmInv, ShmTypes

(* wShm.cpp, wShmtx.cpp: no step of a process lets two pieces overlap, and *)
(* none lets a process in behind a lock that nobody has released.          *)
LEMMA ShmNextInv == ASSUME ShmInv, [ShmPart!Next]_shmState PROVE ShmInv'
  <1>1. CASE UNCHANGED shmState
    BY <1>1 DEF shmState, ShmInv, ShmTypes, UsedWithin, GivenBelowUsed, LocksTaken, ShmPart!Ids
  <1>2. ASSUME NEW p \in Process, ShmPart!CreateShm(p) PROVE ShmInv'
    BY <1>2, CreateNewInv, CreateFoundInv DEF ShmPart!CreateShm
  <1>3. ASSUME NEW p \in Process, ShmPart!AttachShm(p) PROVE ShmInv'
    <2>1. keyId \in ShmPart!Ids /\ keyId \in Nat /\ UNCHANGED <<keyId, segments, given, holders, mishaps>>
      BY <1>3 DEF ShmPart!AttachShm, ShmInv, ShmTypes, ShmPart!Ids
    <2> DEFINE v == [ShmPart!Mapped(p, keyId) EXCEPT !.mShmId = 0]
    <2>2. IsMapped(v, keyId) /\ view' = [view EXCEPT ![p] = v]
      BY <1>3, <2>1, Views DEF ShmPart!AttachShm
    <2> HIDE DEF v
    <2> QED BY <2>1, <2>2 DEF ShmInv, ShmTypes, UsedWithin, GivenBelowUsed, LocksTaken, ShmPart!Ids, IsMapped
  <1>4. ASSUME NEW p \in Process, NEW q \in Process, ShmPart!Fork(p, q) PROVE ShmInv'
    BY <1>4 DEF ShmPart!Fork, ShmInv, ShmTypes, UsedWithin, GivenBelowUsed, LocksTaken, ShmPart!Ids
  <1>5. ASSUME NEW p \in Process, ShmPart!FreeShm(p) PROVE ShmInv'
    <2>1. UNCHANGED <<segments, given, holders>> /\ mishaps \subseteq mishaps' /\ mishaps' \subseteq ShmPart!Mishap
      BY <1>5 DEF ShmPart!FreeShm, ShmInv, ShmTypes, ShmPart!Mishap
    <2>2. view' \in [Process -> ShmView] /\ keyId' \in {0, keyId}
          /\ \A q \in Process : view'[q] = view[q] \/ (view'[q].head = "dangling" /\ ~view'[q].locks)
      BY <1>5 DEF ShmPart!FreeShm, ShmInv, ShmTypes, ShmView
    <2>4. ShmTypes'
      BY <2>1, <2>2 DEF ShmInv, ShmTypes, ShmPart!Ids
    <2>3. UsedWithin' /\ GivenBelowUsed' /\ LocksTaken'
      BY <2>1 DEF ShmInv, UsedWithin, GivenBelowUsed, LocksTaken, ShmPart!Ids
    <2> QED BY <2>3, <2>4 DEF ShmInv
  <1>6. ASSUME NEW p \in Process, ShmPart!Lock(p) \/ ShmPart!Unlock(p) PROVE ShmInv'
    <2> DEFINE id == view[p].seg
    <2>0. id \in ShmPart!Ids
      BY <1>6 DEF ShmPart!Lock, ShmPart!Unlock, ShmInv, ShmTypes
    <2>1. id \in ShmPart!Ids /\ segments[id].sem \in Int
      BY <2>0, SegmentTypes DEF ShmInv
    <2> DEFINE z == IF ShmPart!Lock(p) THEN segments[id].sem - 1 ELSE segments[id].sem + 1
    <2>2. z \in Int /\ segments' = [segments EXCEPT ![id].sem = z]
      BY <1>6, <2>1 DEF ShmPart!Lock, ShmPart!Unlock
    <2>3. UNCHANGED <<keyId, view, given>> /\ mishaps \subseteq mishaps' /\ mishaps' \subseteq ShmPart!Mishap
          /\ holders' \subseteq Process
      BY <1>6 DEF ShmPart!Lock, ShmPart!Unlock, ShmInv, ShmTypes, ShmPart!Mishap
    <2>4. "stray" \in mishaps'
      BY <1>6, <2>1 DEF ShmPart!Lock, ShmPart!Unlock, ShmInv, LocksTaken
    <2> HIDE DEF id, z
    <2>5. /\ segments' \in [ShmPart!Ids -> ShmPart!Segment] /\ DOMAIN segments' = DOMAIN segments
          /\ ShmPart!Ids' = ShmPart!Ids
          /\ \A i \in ShmPart!Ids : segments'[i].size = segments[i].size /\ segments'[i].used = segments[i].used
      BY <2>1, <2>2 DEF ShmInv, ShmTypes, ShmPart!Segment, ShmPart!Ids
    <2>6. ShmTypes'
      BY <2>3, <2>5 DEF ShmInv, ShmTypes
    <2>7. UsedWithin' /\ GivenBelowUsed' /\ LocksTaken'
      BY <2>3, <2>4, <2>5 DEF ShmInv, UsedWithin, GivenBelowUsed, LocksTaken
    <2> QED BY <2>6, <2>7 DEF ShmInv
  <1> QED BY <1>1, <1>2, <1>3, <1>4, <1>5, <1>6, AllocShmInv, CreateMutexInv DEF ShmPart!Next

LEMMA ShmInvApart == ASSUME ShmInv PROVE ShmPart!TypeOK /\ ShmPart!Disjoint /\ ShmPart!BeginsTaken
  <1>1. ShmPart!TypeOK
    BY DEF ShmInv, ShmTypes, ShmPart!TypeOK
  <1>2. ShmPart!BeginsTaken
    BY DEF ShmInv, LocksTaken, ShmPart!BeginsTaken
  <1>3. ShmPart!Disjoint
    <2> SUFFICES ASSUME "recreated" \notin mishaps, NEW a \in given, NEW b \in given
                 PROVE  /\ a.from >= HeadSize /\ a.from + a.size <= segments[a.seg].size
                        /\ a.seg = b.seg /\ a # b =>
                              a.from + a.size <= b.from \/ b.from + b.size <= a.from
      BY DEF ShmPart!Disjoint
    <2>1. a.seg \in ShmPart!Ids /\ a.from \in Nat /\ a.size \in Nat /\ a.from + a.size <= segments[a.seg].used
      BY DEF ShmInv, GivenBelowUsed
    <2>2. segments[a.seg].used <= segments[a.seg].size /\ segments[a.seg].used \in Nat /\ segments[a.seg].size \in Nat
      BY <2>1, SegmentTypes DEF ShmInv, UsedWithin
    <2>3. a.from >= HeadSize /\ HeadSize \in Nat
      BY ShmAssumption DEF ShmInv, GivenBelowUsed
    <2> QED BY <2>1, <2>2, <2>3 DEF ShmInv, GivenBelowUsed
  <1> QED BY <1>1, <1>2, <1>3

(* wShm.cpp, wShmtx.cpp, wMemPool.cpp: no piece of memory is given out     *)
(* twice until a segment is created anew, and a lock that is put into one  *)
(* keeps everybody out until somebody releases it.                         *)
THEOREM PiecesApartCorrect == BaseSpec => []PiecesApart
  <1>1. BaseInit => ShmInv /\ PoolInv
    BY ShmInitInv, PoolInitInv DEF BaseInit
  <1>2. (ShmInv /\ PoolInv) /\ [BaseNext]_baseVars => (ShmInv /\ PoolInv)'
    BY BaseStep, ShmNextInv, PoolNextInv
  <1>3. ShmInv /\ PoolInv => PiecesApart
    BY ShmInvApart, PoolInvPieces DEF PiecesApart
  <1> QED BY <1>1, <1>2, <1>3, PTL DEF BaseSpec

-----------------------------------------------------------------------------
(* The threads (Thread).                                                   *)
LEMMA ThreadInitTypes == ASSUME ThreadPart!Init PROVE ThreadPart!TypeOK
  <1>1. caller \in [Caller -> {"idle", "waking", "stopping", "joining"}]
    BY Zenon DEF ThreadPart!Init
  <1>2. calls \in 0 .. MaxCalls
    BY ThreadAssumption DEF ThreadPart!Init
  <1> QED BY <1>1, <1>2 DEF ThreadPart!Init, ThreadPart!TypeOK

LEMMA ThreadNextTypes ==
    ASSUME ThreadPart!TypeOK, [ThreadPart!Next]_threadState
    PROVE  ThreadPart!TypeOK'
  <1> USE DEF ThreadPart!TypeOK
  <1>1. CASE UNCHANGED threadState
    BY <1>1 DEF threadState
  <1>2. ASSUME NEW join \in BOOLEAN, ThreadPart!StartThread(join) PROVE ThreadPart!TypeOK'
    BY <1>2 DEF ThreadPart!StartThread
  <1>3. CASE ThreadPart!Runs \/ ThreadPart!Spurious
    BY <1>3 DEF ThreadPart!Runs, ThreadPart!Spurious, ThreadPart!ThreadProc, ThreadPart!CondBlock,
                ThreadPart!Exit, ThreadPart!Block, ThreadPart!TakeWork
  <1>4. ASSUME NEW c \in Caller, NEW at \in {"waking", "stopping"}, ThreadPart!Call(c, at)
        PROVE  /\ calls' \in 0 .. MaxCalls
               /\ caller' \in [Caller -> {"idle", "waking", "stopping", "joining"}]
    <2>1. calls < MaxCalls /\ caller' = [caller EXCEPT ![c] = at] /\ calls' = calls + 1
      BY <1>4 DEF ThreadPart!Call
    <2>2. calls' \in 0 .. MaxCalls
      BY <2>1, ThreadAssumption
    <2> QED BY <2>1, <2>2
  <1>5. ASSUME NEW c \in Caller, ThreadPart!GiveWork(c) \/ ThreadPart!CallStop(c)
        PROVE  ThreadPart!TypeOK'
    BY <1>4, <1>5 DEF ThreadPart!GiveWork, ThreadPart!CallStop
  <1>6. ASSUME NEW c \in Caller, ThreadPart!Returns(c) \/ ThreadPart!NullMutex(c)
        PROVE  ThreadPart!TypeOK'
    BY <1>6 DEF ThreadPart!Returns, ThreadPart!Wakeup, ThreadPart!StopThread, ThreadPart!Joined,
                ThreadPart!NullMutex, ThreadPart!Signalled, ThreadPart!StopSignal
  <1> QED BY <1>1, <1>2, <1>3, <1>5, <1>6 DEF ThreadPart!Next

-----------------------------------------------------------------------------
(* The heartbeats (Heartbeat).  Live(o): nothing is known of the end o for *)
(* which its peer might give the connection up.                            *)
BeatTypes ==
    /\ mIsCheckTimer \in [BeatPart!End -> BOOLEAN] /\ connected \in [BeatPart!End -> BOOLEAN]
    /\ coming \in [BeatPart!End -> BOOLEAN] /\ hung \in [BeatPart!End -> BOOLEAN]
    /\ spoke \in [BeatPart!End -> BOOLEAN]
    /\ mTimer \in [BeatPart!End -> 1 .. KEEPALIVE_TIME]
    /\ idle \in [BeatPart!End -> 0 .. KEEPALIVE_TIME]
    /\ mHeartbeatTimes \in [BeatPart!End -> Nat]

Live(o) == connected[o] /\ mIsCheckTimer[o] /\ ~hung[o] /\ ~spoke[o]

(* An end that counts too many has given up, and only one with the timer   *)
(* set counts.                                                             *)
Counted(e) ==
    /\ connected[e] => mHeartbeatTimes[e] <= KEEPALIVE_CNT
    /\ mHeartbeatTimes[e] <= KEEPALIVE_CNT + 1
    /\ ~connected[e] => mIsCheckTimer[e]

(* While o is live it sends a heartbeat whenever its timer ends, but for   *)
(* the first time perhaps, and by then e has sent none; so a heartbeat of  *)
(* o comes between any two of e.                                           *)
Answered(e, o) ==
    Live(o) =>
        /\ connected[e] /\ mHeartbeatTimes[e] <= 1
        /\ \/ idle[o] + mTimer[o] >= KEEPALIVE_TIME
           \/ idle[e] <= idle[o] /\ mHeartbeatTimes[e] = 0
        /\ mHeartbeatTimes[e] = 1 /\ ~coming[e] /\ ~hung[e] => mTimer[o] < mTimer[e]

BeatInv ==
    /\ BeatTypes
    /\ \A e \in BeatPart!End : Counted(e) /\ Answered(e, BeatPart!Other(e))

LEMMA Ends ==
    /\ BeatPart!End = {"server", "client"}
    /\ \A e \in BeatPart!End : /\ BeatPart!Other(e) \in BeatPart!End
                               /\ BeatPart!Other(e) # e
                               /\ BeatPart!Other(BeatPart!Other(e)) = e
    /\ \A e, f \in BeatPart!End : f = e \/ f = BeatPart!Other(e)
  BY DEF BeatPart!End, BeatPart!Other

LEMMA BeatInitInv == ASSUME BeatPart!Init PROVE BeatInv
  <1> USE HeartbeatAssumption
  <1>1. BeatTypes
    BY DEF BeatPart!Init, BeatTypes
  <1>2. ASSUME NEW e \in BeatPart!End PROVE Counted(e) /\ Answered(e, BeatPart!Other(e))
    BY Ends DEF BeatPart!Init, Counted, Answered, Live
  <1> QED BY <1>1, <1>2 DEF BeatInv

LEMMA TickInv == ASSUME BeatInv, BeatPart!Tick PROVE BeatInv'
  <1> USE HeartbeatAssumption
  <1>1. BeatTypes /\ \A e \in BeatPart!End : Counted(e) /\ Answered(e, BeatPart!Other(e))
    BY DEF BeatInv
  <1>2. /\ \A e \in BeatPart!End : coming[e] => hung[e] \/ ~connected[e]
        /\ \A e \in BeatPart!End :
              /\ mTimer'[e] = IF hung[e] THEN mTimer[e] ELSE BeatPart!TimerAfter(e)
              /\ mHeartbeatTimes'[e] = mHeartbeatTimes[e] + IF BeatPart!Beats(e) THEN 1 ELSE 0
              /\ idle'[e] = IF BeatPart!Beats(e) THEN 0 ELSE BeatPart!Longer(e)
              /\ connected'[e] = (connected[e] /\ ~(BeatPart!Beats(e) /\ BeatPart!HeartbeatOutTimes(e)))
              /\ coming'[e] = (coming[e] \/ (BeatPart!Beats(BeatPart!Other(e)) /\ connected[e]))
        /\ UNCHANGED <<mIsCheckTimer, hung, spoke>>
    BY DEF BeatPart!Tick
  <1>3. \A e \in BeatPart!End :
           /\ mTimer[e] \in 1 .. KEEPALIVE_TIME /\ idle[e] \in 0 .. KEEPALIVE_TIME
           /\ mHeartbeatTimes[e] \in Nat
           /\ mIsCheckTimer[e] \in BOOLEAN /\ connected[e] \in BOOLEAN
           /\ coming[e] \in BOOLEAN /\ hung[e] \in BOOLEAN /\ spoke[e] \in BOOLEAN
    BY <1>1 DEF BeatTypes
  <1>4. BeatTypes'
    <2>1. \A e \in BeatPart!End :
             /\ (IF hung[e] THEN mTimer[e] ELSE BeatPart!TimerAfter(e)) \in 1 .. KEEPALIVE_TIME
             /\ mHeartbeatTimes[e] + (IF BeatPart!Beats(e) THEN 1 ELSE 0) \in Nat
             /\ (IF BeatPart!Beats(e) THEN 0 ELSE BeatPart!Longer(e)) \in 0 .. KEEPALIVE_TIME
      BY <1>3 DEF BeatPart!TimerAfter, BeatPart!TimerEnds, BeatPart!Longer
    <2> QED BY <1>1, <1>2, <2>1 DEF BeatTypes, BeatPart!Tick
  <1>5. ASSUME NEW e \in BeatPart!End PROVE Counted(e)'
    BY <1>1, <1>2, <1>3 DEF Counted, BeatPart!Beats, BeatPart!HeartbeatOutTimes
  <1>6. ASSUME NEW e \in BeatPart!End PROVE Answered(e, BeatPart!Other(e))'
    <2> DEFINE o == BeatPart!Other(e)
    <2>1. o \in BeatPart!End /\ BeatPart!Other(o) = e
      BY Ends
    <2> HIDE DEF o
    <2> SUFFICES ASSUME Live(o)' PROVE
             /\ connected'[e] /\ mHeartbeatTimes'[e] <= 1
             /\ \/ idle'[o] + mTimer'[o] >= KEEPALIVE_TIME
                \/ idle'[e] <= idle'[o] /\ mHeartbeatTimes'[e] = 0
             /\ mHeartbeatTimes'[e] = 1 /\ ~coming'[e] /\ ~hung'[e] => mTimer'[o] < mTimer'[e]
      BY DEF Answered, o
    <2>2. Live(o)
      BY <1>2, <2>1 DEF Live
    <2>3. /\ connected[e] /\ mHeartbeatTimes[e] <= 1
          /\ \/ idle[o] + mTimer[o] >= KEEPALIVE_TIME
             \/ idle[e] <= idle[o] /\ mHeartbeatTimes[e] = 0
          /\ mHeartbeatTimes[e] = 1 /\ ~coming[e] /\ ~hung[e] => mTimer[o] < mTimer[e]
      BY <1>1, <2>2 DEF Answered, o
    <2>4. connected[o] /\ mIsCheckTimer[o] /\ ~hung[o]
      BY <2>2 DEF Live
    <2>5. BeatPart!Beats(e) =>
             /\ mTimer[e] = 1 /\ ~hung[e] /\ ~coming[e] /\ idle[e] + 1 >= KEEPALIVE_TIME
             /\ mHeartbeatTimes[e] = 0
      <3> SUFFICES ASSUME BeatPart!Beats(e)
                   PROVE  /\ mTimer[e] = 1 /\ ~hung[e] /\ ~coming[e] /\ idle[e] + 1 >= KEEPALIVE_TIME
                          /\ mHeartbeatTimes[e] = 0
        OBVIOUS
      <3>1. mTimer[e] = 1 /\ ~hung[e] /\ connected[e] /\ idle[e] + 1 >= KEEPALIVE_TIME
        BY <1>3 DEF BeatPart!Beats, BeatPart!TimerEnds, BeatPart!Longer
      <3>2. ~coming[e]
        BY <1>2, <3>1
      <3>3. ~(mTimer[o] < mTimer[e])
        BY <1>3, <2>1, <3>1
      <3> QED BY <1>3, <2>3, <3>1, <3>2, <3>3
    <2>6. BeatPart!Beats(o) <=> mTimer[o] = 1 /\ idle[o] + 1 >= KEEPALIVE_TIME
      BY <1>3, <2>1, <2>4 DEF BeatPart!Beats, BeatPart!TimerEnds, BeatPart!Longer
    <2>7. connected'[e]
      BY <1>2, <1>3, <2>3, <2>5 DEF BeatPart!HeartbeatOutTimes
    <2>8. mHeartbeatTimes'[e] <= 1
      BY <1>2, <1>3, <2>3, <2>5
    <2>9. coming'[e] = (coming[e] \/ BeatPart!Beats(o))
      BY <1>2, <2>3 DEF o
    <2>10. mTimer'[o] = IF mTimer[o] = 1 THEN KEEPALIVE_TIME ELSE mTimer[o] - 1
      BY <1>2, <1>3, <2>1, <2>4 DEF BeatPart!TimerAfter, BeatPart!TimerEnds
    <2>11. ~hung[e] => mTimer'[e] = IF mTimer[e] = 1 THEN KEEPALIVE_TIME ELSE mTimer[e] - 1
      BY <1>2, <1>3 DEF BeatPart!TimerAfter, BeatPart!TimerEnds
    <2>12. /\ idle'[o] = IF BeatPart!Beats(o) THEN 0
                         ELSE IF idle[o] < KEEPALIVE_TIME THEN idle[o] + 1 ELSE idle[o]
           /\ idle'[e] = IF BeatPart!Beats(e) THEN 0
                         ELSE IF idle[e] < KEEPALIVE_TIME THEN idle[e] + 1 ELSE idle[e]
      BY <1>2, <2>1 DEF BeatPart!Longer
    <2>13. mHeartbeatTimes'[e] = mHeartbeatTimes[e] + IF BeatPart!Beats(e) THEN 1 ELSE 0
      BY <1>2
    <2>14. \/ idle'[o] + mTimer'[o] >= KEEPALIVE_TIME
           \/ idle'[e] <= idle'[o] /\ mHeartbeatTimes'[e] = 0
      BY <1>3, <2>1, <2>3, <2>5, <2>6, <2>10, <2>12, <2>13
    <2>15. ASSUME mHeartbeatTimes'[e] = 1, ~coming'[e], ~hung'[e] PROVE mTimer'[o] < mTimer'[e]
      <3>1. ~hung[e] /\ ~coming[e] /\ ~BeatPart!Beats(o)
        BY <1>2, <1>3, <2>9, <2>15
      <3>2. CASE BeatPart!Beats(e)
        BY <1>3, <2>1, <2>3, <2>5, <2>6, <2>10, <2>11, <3>1, <3>2
      <3>3. CASE ~BeatPart!Beats(e)
        <4>1. mHeartbeatTimes[e] = 1
          BY <1>3, <2>13, <2>15, <3>3
        <4>2. mTimer[o] < mTimer[e] /\ idle[o] + mTimer[o] >= KEEPALIVE_TIME
          BY <2>3, <3>1, <4>1
        <4> QED BY <1>3, <2>1, <2>6, <2>10, <2>11, <3>1, <4>2
      <3> QED BY <3>2, <3>3
    <2> QED BY <2>7, <2>8, <2>14, <2>15
  <1> QED BY <1>4, <1>5, <1>6 DEF BeatInv

LEMMA BeatNextInv == ASSUME BeatInv, [BeatPart!Next]_beatState PROVE BeatInv'
  <1> USE HeartbeatAssumption
  <1>1. BeatTypes /\ \A e \in BeatPart!End : Counted(e) /\ Answered(e, BeatPart!Other(e))
    BY DEF BeatInv
  <1>2. CASE UNCHANGED beatState
    BY <1>1, <1>2 DEF beatState, BeatInv, BeatTypes, Counted, Answered, Live
  <1>3. CASE BeatPart!Tick
    BY <1>3, TickInv
  <1>4. ASSUME NEW a \in BeatPart!End, BeatPart!Arrives(a) PROVE BeatInv'
    <2>1. BeatTypes'
      BY <1>1, <1>4 DEF BeatTypes, BeatPart!Arrives, BeatPart!Cleared
    <2>2. ASSUME NEW e \in BeatPart!End PROVE Counted(e)' /\ Answered(e, BeatPart!Other(e))'
      BY <1>1, <1>4, Ends DEF BeatTypes, BeatPart!Arrives, BeatPart!Cleared, Counted, Answered, Live
    <2> QED BY <2>1, <2>2 DEF BeatInv
  <1>5. ASSUME NEW a \in BeatPart!End, BeatPart!Sends(a) PROVE BeatInv'
    <2>1. BeatTypes'
      BY <1>1, <1>5 DEF BeatTypes, BeatPart!Sends
    <2>2. ASSUME NEW e \in BeatPart!End PROVE Counted(e)' /\ Answered(e, BeatPart!Other(e))'
      BY <1>1, <1>5, Ends DEF BeatTypes, BeatPart!Sends, Counted, Answered, Live
    <2> QED BY <2>1, <2>2 DEF BeatInv
  <1>6. ASSUME NEW a \in BeatPart!End, BeatPart!Hangs(a) PROVE BeatInv'
    <2>1. BeatTypes'
      BY <1>1, <1>6 DEF BeatTypes, BeatPart!Hangs
    <2>2. ASSUME NEW e \in BeatPart!End PROVE Counted(e)' /\ Answered(e, BeatPart!Other(e))'
      BY <1>1, <1>6, Ends DEF BeatTypes, BeatPart!Hangs, Counted, Answered, Live
    <2> QED BY <2>1, <2>2 DEF BeatInv
  <1> QED BY <1>2, <1>3, <1>4, <1>5, <1>6 DEF BeatPart!Next

LEMMA BeatInvLeft ==
    ASSUME BeatInv
    PROVE  BeatPart!TypeOK /\ \A e \in BeatPart!End : BeatPart!LeftForCause(e)
  <1> USE HeartbeatAssumption
  <1>1. BeatTypes /\ \A e \in BeatPart!End : Counted(e) /\ Answered(e, BeatPart!Other(e))
    BY DEF BeatInv
  <1>2. \A e \in BeatPart!End : mHeartbeatTimes[e] \in 0 .. KEEPALIVE_CNT + 1
    BY <1>1 DEF BeatTypes, Counted
  <1>3. BeatPart!TypeOK
    BY <1>1, <1>2 DEF BeatTypes, BeatPart!TypeOK
  <1>4. \A e \in BeatPart!End : BeatPart!LeftForCause(e)
    BY <1>1, Ends DEF BeatPart!LeftForCause, Counted, Answered, Live
  <1> QED BY <1>3, <1>4

LEMMA BeatInvariant == BaseSpec => []BeatInv
  <1>1. BaseInit => BeatInv
    BY BeatInitInv DEF BaseInit
  <1>2. BeatInv /\ [BaseNext]_baseVars => BeatInv'
    BY BaseStep, BeatNextInv
  <1> QED BY <1>1, <1>2, PTL DEF BaseSpec

(* wTask.cpp, wServer.inl, wTcpClient.inl: TaskRecv gives up a connection  *)
(* only after a fault, and no buffer's wrap is met before the connection   *)
(* has carried a buffer full of bytes, unless a send was cut short; and an *)
(* end does not give it up while its peer goes on sending heartbeats.      *)
THEOREM FaultsOnlyCorrect == BaseSpec => []FaultsOnly
  <1>1. TaskInv /\ StreamInv /\ BeatInv => FaultsOnly
    BY StreamInvFaults, BeatInvLeft DEF FaultsOnly
  <1> QED BY <1>1, TaskInvariant, BeatInvariant, PTL

-----------------------------------------------------------------------------
(* The variables of all parts have their types, and in the buffers of a    *)
(* connection the pointers and the length agree.                           *)
THEOREM WellFormedCorrect == BaseSpec => []WellFormed
  <1> DEFINE AllInv == /\ InstInv /\ SockInv /\ TableInv /\ PoolInv /\ ShmInv /\ BeatInv
                       /\ ThreadPart!TypeOK /\ TaskInv /\ QueueInv
  <1>1. BaseInit => AllInv
    BY InstInitInv, SockInitInv, TableInitInv, PoolInitInv, ShmInitInv, BeatInitInv, TaskInitInv,
       QueueInitInv, ThreadInitTypes DEF BaseInit
  <1>2. AllInv /\ [BaseNext]_baseVars => AllInv'
    BY BaseStep, InstNextInv, SockNextInv, TableNextInv, PoolNextInv, ShmNextInv, BeatNextInv,
       ThreadNextTypes, TaskNextInv, QueueNextInv
  <1>3. AllInv => WellFormed
    BY InstInvOneDaemon, SockInvAgree, TableInvRouted, PoolInvPieces, ShmInvApart, BeatInvLeft,
       TaskInvRings, QueueInvTypes DEF WellFormed, SockInv, SockTypes
  <1> QED BY <1>1, <1>2, <1>3, PTL DEF BaseSpec
=============================================================================
