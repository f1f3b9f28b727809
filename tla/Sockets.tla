------------------------------ MODULE Sockets -------------------------------
(***************************************************************************)
(* The sockets of one process (wSocket, wTcpSocket, wUnixSocket) over the  *)
(* descriptors the kernel gives it.  Every call is a list of kernel calls, *)
(* any of which may fail; who made the object deletes it after a failure,  *)
(* except the API, which forgets it.  A wTcpClient that gives up its       *)
(* connection keeps the object and forgets the descriptor.                 *)
(***************************************************************************)
EXTENDS Integers, FiniteSetsExt

CONSTANTS
    Sock,           \* the objects
    MaxFd           \* bound: descriptors a call can be given

FD_UNKNOWN == -1
Fd == 1 .. MaxFd                      \* the process has its own up to 2
Proto == {"TCP", "UNIX"}

VARIABLES
    sock,           \* by object: what it is, mFD, and what its calls have told
    kernel,         \* by descriptor: what the kernel has there
    names,          \* the names in the file system that are bound
    leaked,         \* history: descriptors that no object has any more
    joined          \* history: connections made over Unix sockets

sockVars == <<sock, kernel, names, leaked, joined>>

Gone == [proto |-> "none", mFD |-> FD_UNKNOWN, told |-> "nothing"]
New(p) == [proto |-> p, mFD |-> FD_UNKNOWN, told |-> "nothing"]

Init ==
    /\ sock = [s \in Sock |-> Gone] /\ kernel = [f \in Fd |-> "free"]
    /\ names = {} /\ leaked = {} /\ joined = 0

(* The kernel gives the least descriptor that is free.                     *)
Free == {f \in Fd : kernel[f] = "free"}
NextFd == Min(Free)

\* Mutant: Close() does not reset mFD.
CloseKept(o) == [o EXCEPT !.told = "nothing"]

(* Close() of an object; Released is what it does to the kernel.           *)
Close(o) == [o EXCEPT !.told = "nothing", !.mFD = FD_UNKNOWN]
Released(o) == IF o.mFD = FD_UNKNOWN THEN kernel ELSE [kernel EXCEPT ![o.mFD] = "free"]

(* One call of s: it makes the calls in order until one fails.  Then the   *)
(* socket is closed, and the result is negative.                           *)
Fails(s) ==
    /\ sock' = [sock EXCEPT ![s] = Close(@)] /\ kernel' = Released(sock[s])
Becomes(s, state, told) ==
    /\ sock' = [sock EXCEPT ![s].told = told]
    /\ kernel' = [kernel EXCEPT ![sock[s].mFD] = state]

Unopened(s) == sock[s].proto # "none" /\ sock[s].mFD = FD_UNKNOWN
Opened(s) == sock[s].mFD # FD_UNKNOWN /\ kernel[sock[s].mFD] = "open"

-----------------------------------------------------------------------------
Create(s) ==
    /\ sock[s] = Gone
    /\ \E p \in Proto : sock' = [sock EXCEPT ![s] = New(p)]
    /\ UNCHANGED <<kernel, names, leaked, joined>>

(* Open: socket() and, for TCP, the options.  A failed SetKeepAlive leaves *)
(* the socket open; the result is negative all the same.                   *)
Open(s) ==
    /\ Unopened(s) /\ Free # {}
    /\ \E failed \in {"none", "socket"} \cup IF sock[s].proto = "TCP" THEN {"keepalive"} ELSE {} :
         IF failed = "socket" THEN UNCHANGED <<sock, kernel>>
         ELSE /\ sock' = [sock EXCEPT ![s].mFD = NextFd,
                                      ![s].told = IF failed = "none" THEN "open" ELSE "failed"]
              /\ kernel' = [kernel EXCEPT ![NextFd] = "open"]
    /\ UNCHANGED <<names, leaked, joined>>

(* bind() of a Unix socket makes a name, which nothing ever removes.       *)
Binds(s, name) == names' = IF sock[s].proto = "UNIX" THEN names \cup {name} ELSE names
Taken(s, name) == sock[s].proto = "UNIX" /\ name \in names

Listen(s) ==
    /\ Opened(s) /\ sock[s].told = "open"
    /\ \/ Fails(s) /\ UNCHANGED names                  \* bind() failed
       \/ ~Taken(s, "listener") /\ Fails(s) /\ Binds(s, "listener")
       \/ /\ ~Taken(s, "listener") /\ Binds(s, "listener")
          /\ Becomes(s, "listening", "listening")
    /\ UNCHANGED <<leaked, joined>>

(* Connect: what poll() and SO_ERROR say, and when, comes to one outcome.  *)
(* Without a timeout the result of connect() is not looked at.             *)
Reached(s, fTimeout) ==
    \/ Becomes(s, "connected", "connected")
    \/ IF fTimeout > 0 THEN Fails(s) ELSE Becomes(s, "open", "believed")

ConnectTcp(s, fTimeout) ==
    /\ Opened(s) /\ sock[s].told = "open" /\ sock[s].proto = "TCP"
    /\ Fails(s) \/ Reached(s, fTimeout)               \* setsockopt() may fail
    /\ UNCHANGED <<names, leaked, joined>>

(* A Unix socket is bound to "unix_<pid>.sock" first.                      *)
ConnectUnix(s, fTimeout) ==
    /\ Opened(s) /\ sock[s].told = "open" /\ sock[s].proto = "UNIX"
    /\ \/ Fails(s) /\ UNCHANGED <<names, joined>>      \* bind() failed
       \/ /\ ~Taken(s, "client") /\ Binds(s, "client")
          /\ Reached(s, fTimeout)
          /\ joined' = IF sock'[s].told = "connected" THEN joined + 1 ELSE joined
    /\ UNCHANGED leaked

(* Accept and AcceptConn: a new object takes the descriptor.  When the     *)
(* send buffer of a TCP connection cannot be set, nobody does.             *)
Accepted(s, t) ==
    /\ sock[s].told = "listening" /\ sock[t] = Gone /\ Free # {}
    /\ kernel' = [kernel EXCEPT ![NextFd] = "connected"]
    /\ UNCHANGED <<names, joined>>
Takes(t, p) ==
    sock' = [sock EXCEPT ![t] = [proto |-> p, mFD |-> NextFd, told |-> "accepted"]]

AcceptTcp(s, t) ==
    /\ sock[s].proto = "TCP" /\ Accepted(s, t)
    /\ \/ Takes(t, "TCP") /\ UNCHANGED leaked
       \/ leaked' = leaked \cup {NextFd} /\ UNCHANGED sock

AcceptUnix(s, t) ==
    sock[s].proto = "UNIX" /\ Accepted(s, t) /\ Takes(t, "UNIX") /\ UNCHANGED leaked

(* The destructor closes the socket.                                       *)
Delete(s) ==
    /\ sock[s] # Gone
    /\ sock' = [sock EXCEPT ![s] = IF Close(@).mFD = FD_UNKNOWN THEN Gone ELSE Close(@)]
    /\ kernel' = Released(sock[s])
    /\ UNCHANGED <<names, leaked, joined>>

(* ConnectAgent does not delete the object of a call that has failed.      *)
Forget(s) ==
    /\ sock[s].told = "failed" \/ (Unopened(s) /\ sock[s].told = "nothing")
    /\ leaked' = IF sock[s].mFD = FD_UNKNOWN THEN leaked ELSE leaked \cup {sock[s].mFD}
    /\ sock' = [sock EXCEPT ![s] = Gone]
    /\ UNCHANGED <<kernel, names, joined>>

(* Recv of wMTcpClient, when TaskRecv or TaskSend fails, and CheckTimeout  *)
(* of wTcpClient, when the heartbeats run out: FD() = FD_UNKNOWN, although *)
(* the descriptor is open.                                                 *)
Disown(s) ==
    /\ sock[s].proto = "TCP" /\ sock[s].told \in {"connected", "believed"}
    /\ leaked' = leaked \cup {sock[s].mFD}
    /\ sock' = [sock EXCEPT ![s].mFD = FD_UNKNOWN, ![s].told = "nothing"]
    /\ UNCHANGED <<kernel, names, joined>>

Next ==
    \E s \in Sock :
        \/ Create(s) \/ Open(s) \/ Listen(s) \/ Delete(s) \/ Forget(s) \/ Disown(s)
        \/ \E f \in {0, 30} : ConnectTcp(s, f) \/ ConnectUnix(s, f)
        \/ \E t \in Sock : AcceptTcp(s, t) \/ AcceptUnix(s, t)

Spec == Init /\ [][Next]_sockVars

-----------------------------------------------------------------------------
(* SetSendTimeout and SetRecvTimeout, in microseconds.  They never ask the *)
(* kernel for 0, which means no timeout.                                   *)
Timeval(fTimeout) == IF fTimeout <= 0 THEN 30000000 ELSE fTimeout

TypeOK ==
    /\ sock \in [Sock -> [proto : Proto \cup {"none"}, mFD : Fd \cup {FD_UNKNOWN},
            told : {"nothing", "open", "failed", "listening", "connected", "accepted", "believed"}]]
    /\ kernel \in [Fd -> {"free", "open", "listening", "connected"}]
    /\ names \subseteq {"listener", "client"} /\ leaked \subseteq Fd

(* Every open descriptor is held by one object and no other, but for the   *)
(* ones that Accept, the API and clients that give up their connections    *)
(* lose; none of those is ever held again, or closed.  What a call has     *)
(* told is so, but for a Connect without a timeout.  A process connects    *)
(* over a Unix socket at most once.                                        *)
ToldOf(told) == IF told = "accepted" THEN "connected" ELSE told
Held(f) == {s \in Sock : sock[s].mFD = f}
SocketsAgree ==
    /\ \A f \in Fd : CASE kernel[f] = "free" -> Held(f) = {} /\ f \notin leaked
                       [] f \in leaked -> Held(f) = {}
                       [] OTHER -> \E s \in Sock : Held(f) = {s}
    /\ \A s \in Sock : sock[s].told \in {"listening", "connected", "accepted"} =>
            kernel[sock[s].mFD] = ToldOf(sock[s].told)
    /\ joined <= 1
=============================================================================
