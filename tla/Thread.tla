------------------------------- MODULE Thread -------------------------------
(***************************************************************************)
(* A thread object (wThread.cpp) with its mutex and condition (wMutex.h),  *)
(* the thread that runs it, and the threads that give it work, wake it and *)
(* stop it.  What the work is belongs to a class derived from it: here     *)
(* IsBlocked() says that there is none, and Run() calls CondBlock() and    *)
(* takes the work in turns.                                                *)
(***************************************************************************)
EXTENDS Integers

CONSTANTS
    Caller,         \* the threads that use the object
    MaxCalls        \* bound: calls they make

VARIABLES
    mRunStatus,
    mMutex,         \* who holds it: "thread", "nobody"; "null" if there is none
    thread,         \* where the thread is
    work,           \* IsBlocked() is FALSE
    caller,         \* where each caller is
    calls           \* how many calls have begun

threadVars == <<mRunStatus, mMutex, thread, work, caller, calls>>

Init ==
    /\ mRunStatus = "THREAD_BLOCKED"        \* so says the constructor
    /\ mMutex = "null" /\ thread = "none" /\ work = FALSE
    /\ caller = [c \in Caller |-> "idle"] /\ calls = 0

(* StartThread(join): only a thread that can be joined has a mutex.  The   *)
(* status is set before the thread exists.                                 *)
StartThread(join) ==
    /\ thread = "none"
    /\ mMutex' = IF join THEN "nobody" ELSE "null"
    /\ mRunStatus' = "THREAD_RUNNING" /\ thread' = "begun"
    /\ UNCHANGED <<work, caller, calls>>

(* ThreadProc: a PrepareRun() that does not return 0 ends it.              *)
ThreadProc ==
    /\ thread = "begun" /\ thread' \in {"running", "exited"}
    /\ UNCHANGED <<mRunStatus, mMutex, work, caller, calls>>

(* CondBlock, from its Lock(), and again from the return of Wait().  With  *)
(* no mutex it follows a null pointer.                                     *)
CondBlock ==
    /\ thread \in {"running", "woken"}
    /\ \/ mMutex = "nobody" /\ mMutex' = "thread" /\ thread' = "testing"
       \/ mMutex = "null" /\ thread' = "crashed" /\ UNCHANGED mMutex
    /\ UNCHANGED <<mRunStatus, work, caller, calls>>

(* A stopped thread exits with the mutex locked.                           *)
Exit ==
    /\ thread = "testing" /\ mRunStatus = "THREAD_STOPPED"
    /\ thread' = "exited"
    /\ UNCHANGED <<mRunStatus, mMutex, work, caller, calls>>

Block ==
    /\ thread = "testing" /\ mRunStatus # "THREAD_STOPPED" /\ ~work
    /\ mRunStatus' = "THREAD_BLOCKED" /\ thread' = "waiting" /\ mMutex' = "nobody"
    /\ UNCHANGED <<work, caller, calls>>

(* CondBlock returns, and Run() takes the work.                            *)
TakeWork ==
    /\ thread = "testing" /\ mRunStatus # "THREAD_STOPPED" /\ work
    /\ mRunStatus' = "THREAD_RUNNING" /\ thread' = "running" /\ mMutex' = "nobody"
    /\ work' = FALSE
    /\ UNCHANGED <<caller, calls>>

(* pthread_cond_wait() may return without a signal.                        *)
Spurious ==
    /\ thread = "waiting" /\ thread' = "woken"
    /\ UNCHANGED <<mRunStatus, mMutex, work, caller, calls>>

-----------------------------------------------------------------------------
Call(c, at) ==
    /\ caller[c] = "idle" /\ calls < MaxCalls /\ thread # "none"
    /\ caller' = [caller EXCEPT ![c] = at] /\ calls' = calls + 1

GiveWork(c) ==
    /\ Call(c, "waking") /\ work' = TRUE
    /\ UNCHANGED <<mRunStatus, mMutex, thread>>

CallStop(c) == Call(c, "stopping") /\ UNCHANGED <<mRunStatus, mMutex, thread, work>>

Signalled == IF thread = "waiting" THEN "woken" ELSE thread

(* Wakeup, in one step: it holds the mutex from its start to its end.      *)
Wakeup(c) ==
    /\ caller[c] = "waking" /\ mMutex = "nobody"
    /\ thread' = IF work /\ mRunStatus = "THREAD_BLOCKED" THEN Signalled ELSE thread
    /\ caller' = [caller EXCEPT ![c] = "idle"]
    /\ UNCHANGED <<mRunStatus, mMutex, work, calls>>

\* Mutant: StopThread does not signal.
StopsUnheard == thread

(* What StopThread does to the thread.                                     *)
StopSignal == Signalled

(* StopThread up to pthread_join(), and the rest.                          *)
StopThread(c) ==
    /\ caller[c] = "stopping" /\ mMutex = "nobody"
    /\ mRunStatus' = "THREAD_STOPPED" /\ thread' = StopSignal
    /\ caller' = [caller EXCEPT ![c] = "joining"]
    /\ UNCHANGED <<mMutex, work, calls>>

Joined(c) ==
    /\ caller[c] = "joining" /\ thread = "exited"
    /\ caller' = [caller EXCEPT ![c] = "idle"]
    /\ UNCHANGED <<mRunStatus, mMutex, thread, work, calls>>

(* Wakeup and StopThread of a thread that was started detached.            *)
NullMutex(c) ==
    /\ caller[c] \in {"waking", "stopping"} /\ mMutex = "null" /\ thread # "crashed"
    /\ thread' = "crashed"
    /\ UNCHANGED <<mRunStatus, mMutex, work, caller, calls>>

Runs == ThreadProc \/ CondBlock \/ Exit \/ Block \/ TakeWork
Returns(c) == Wakeup(c) \/ StopThread(c) \/ Joined(c)

Next ==
    \/ \E join \in BOOLEAN : StartThread(join)
    \/ Runs \/ Spurious
    \/ \E c \in Caller : GiveWork(c) \/ CallStop(c) \/ Returns(c) \/ NullMutex(c)

Spec == Init /\ [][Next]_threadVars

(* A thread that can run does, and so does one whose mutex is free: there  *)
(* are finitely many calls, so it is not taken away for ever.              *)
FairSpec == Spec /\ WF_threadVars(Runs) /\ \A c \in Caller : WF_threadVars(Returns(c))

-----------------------------------------------------------------------------
TypeOK ==
    /\ mRunStatus \in {"THREAD_BLOCKED", "THREAD_RUNNING", "THREAD_STOPPED"}
    /\ mMutex \in {"thread", "nobody", "null"}
    /\ thread \in {"none", "begun", "running", "testing", "waiting", "woken", "exited", "crashed"}
    /\ work \in BOOLEAN /\ calls \in 0 .. MaxCalls
    /\ caller \in [Caller -> {"idle", "waking", "stopping", "joining"}]

(* No wake-up and no stop is lost: the thread goes on to take the work it  *)
(* was woken for, and who waits for its end does not wait for ever.  Only  *)
(* a thread that has ended, or was begun detached, leaves work behind.     *)
NothingLost ==
    /\ []<>(work => mRunStatus = "THREAD_STOPPED" \/ thread \in {"none", "exited", "crashed"})
    /\ []<>(\A c \in Caller : caller[c] # "joining")
=============================================================================
