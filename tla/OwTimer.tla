------------------------------ MODULE OwTimer ------------------------------
(***************************************************************************)
(* OwTimer: a one-shot timer with a thread of its own.  The owner calls    *)
(* start(), cancel() and the destructor; the thread waits on mSemaphore    *)
(* for a start, then on mTimerCond for the timeout or a cancel, and runs   *)
(* handleTimeout with mMutex held.                                         *)
(*                                                                         *)
(* mbIsStarted, suspended and running are written and read by both sides   *)
(* without a common lock, so every access is a step.                       *)
(***************************************************************************)
EXTENDS Integers

CONSTANTS
    Nobody, Owner, TimerThread,  \* who holds a mutex
    MaxPosts              \* bound: starts not yet seen by the thread

ASSUME TimerAssumption ==
    /\ Nobody # Owner /\ Nobody # TimerThread /\ Owner # TimerThread
    /\ MaxPosts \in Nat

VARIABLES
    mSemaphore,         \* posts of start() and the destructor
    mMutex,             \* who holds it
    mbIsStarted,
    mbThreadIsCreated,
    suspended,
    running,
    tpc,                \* where the thread is
    opc,                \* where the owner is inside a call
    cancelled           \* history: the last call was a cancel that has returned

flags == <<mbIsStarted, suspended, running>>
timerVars == <<mSemaphore, mMutex, mbIsStarted, mbThreadIsCreated, suspended,
               running, tpc, opc, cancelled>>

(* The constructor leaves suspended and running unset. *)
TimerInit ==
    /\ mSemaphore = 0
    /\ mMutex = Nobody
    /\ mbIsStarted = FALSE
    /\ mbThreadIsCreated = FALSE
    /\ suspended \in BOOLEAN /\ running \in BOOLEAN
    /\ tpc = "none"
    /\ opc = "idle"
    /\ cancelled = FALSE

-----------------------------------------------------------------------------
(* The thread, threadStart(). *)

SemWait ==
    /\ tpc = "sem" /\ mSemaphore > 0
    /\ mSemaphore' = mSemaphore - 1
    /\ tpc' = "check"
    /\ UNCHANGED <<mMutex, flags, mbThreadIsCreated, opc, cancelled>>

(* The else branch sets shutdown to false: back to the semaphore. *)
CheckStarted ==
    /\ tpc = "check"
    /\ tpc' = IF mbThreadIsCreated /\ mbIsStarted THEN "lock" ELSE "sem"
    /\ UNCHANGED <<mSemaphore, mMutex, flags, mbThreadIsCreated, opc, cancelled>>

(* Takes mMutex and lets it go in pthread_cond_timedwait. *)
TimedWait ==
    /\ tpc = "lock" /\ mMutex = Nobody
    /\ tpc' = "wait"
    /\ UNCHANGED <<mSemaphore, mMutex, flags, mbThreadIsCreated, opc, cancelled>>

(* Timing: the timeouts and sleeps of this code, 100 ms at least, outlast  *)
(* the owner's way through the assignments of start().                     *)
NotInStart == opc \notin {"unsuspend", "notrunning", "post"}

(* The deadline passes; the mutex is still to be taken back. *)
Deadline ==
    /\ tpc = "wait" /\ NotInStart
    /\ tpc' = "late"
    /\ UNCHANGED <<mSemaphore, mMutex, flags, mbThreadIsCreated, opc, cancelled>>

(* timedwait returns ETIMEDOUT *)
TimedOut ==
    /\ tpc = "late" /\ mMutex = Nobody
    /\ mMutex' = TimerThread
    /\ tpc' = "expired"
    /\ UNCHANGED <<mSemaphore, flags, mbThreadIsCreated, opc, cancelled>>

(* timedwait returns 0: the cancel branch, then unlock *)
WokenByCancel ==
    /\ tpc = "woken" /\ mMutex = Nobody
    /\ tpc' = "sem"
    /\ UNCHANGED <<mSemaphore, mMutex, flags, mbThreadIsCreated, opc, cancelled>>

ExpireStarted ==
    /\ tpc = "expired"
    /\ mbIsStarted' = FALSE
    /\ tpc' = "setrunning"
    /\ UNCHANGED <<mSemaphore, mMutex, suspended, running, mbThreadIsCreated, opc, cancelled>>

ExpireRunning ==
    /\ tpc = "setrunning"
    /\ running' = TRUE
    /\ tpc' = "handler"
    /\ UNCHANGED <<mSemaphore, mMutex, mbIsStarted, suspended, mbThreadIsCreated, opc, cancelled>>

(* handleTimeout() returns and the mutex is released. *)
HandlerReturns ==
    /\ tpc = "handler"
    /\ mMutex' = Nobody
    /\ tpc' = "sem"
    /\ UNCHANGED <<mSemaphore, flags, mbThreadIsCreated, opc, cancelled>>

ThreadStep ==
    \/ SemWait \/ CheckStarted \/ TimedWait \/ Deadline \/ TimedOut
    \/ WokenByCancel \/ ExpireStarted \/ ExpireRunning

-----------------------------------------------------------------------------
(* The owner's calls, one at a time. *)

(* start(): creates the thread on the first call; NOT_READY if started. *)
Start ==
    /\ opc = "idle"
    /\ cancelled' = FALSE
    /\ mbThreadIsCreated' = TRUE
    /\ tpc' = IF mbThreadIsCreated THEN tpc ELSE "sem"
    /\ IF mbIsStarted THEN UNCHANGED <<mbIsStarted, opc>>
                      ELSE mbIsStarted' = TRUE /\ opc' = "unsuspend"
    /\ UNCHANGED <<mSemaphore, mMutex, suspended, running>>

StartUnsuspends ==
    /\ opc = "unsuspend"
    /\ suspended' = FALSE
    /\ opc' = "notrunning"
    /\ UNCHANGED <<mSemaphore, mMutex, mbIsStarted, running, mbThreadIsCreated, tpc, cancelled>>

StartNotRunning ==
    /\ opc = "notrunning"
    /\ running' = FALSE
    /\ opc' = "post"
    /\ UNCHANGED <<mSemaphore, mMutex, mbIsStarted, suspended, mbThreadIsCreated, tpc, cancelled>>

(* Mutant of StartPosts: the thread is not signalled. *)
StartForgetsPost ==
    /\ opc = "post"
    /\ opc' = "idle"
    /\ UNCHANGED <<mSemaphore, mMutex, flags, mbThreadIsCreated, tpc, cancelled>>

StartPosts ==
    /\ opc = "post"
    /\ mSemaphore' = mSemaphore + 1
    /\ opc' = "idle"
    /\ UNCHANGED <<mMutex, flags, mbThreadIsCreated, tpc, cancelled>>

(* Mutant of Cancel: a started timer is left alone. *)
CancelDoesNothing ==
    /\ opc = "idle"
    /\ cancelled' = TRUE
    /\ UNCHANGED <<mSemaphore, mMutex, flags, mbThreadIsCreated, tpc, opc>>

(* cancel(): nothing to do unless started. *)
Cancel ==
    /\ opc = "idle"
    /\ IF mbIsStarted THEN opc' = "cancel" /\ UNCHANGED cancelled
                      ELSE cancelled' = TRUE /\ UNCHANGED opc
    /\ UNCHANGED <<mSemaphore, mMutex, flags, mbThreadIsCreated, tpc>>

(* Under mMutex: clear the flag and signal a thread that waits. *)
CancelSignals ==
    /\ opc = "cancel" /\ mMutex = Nobody
    /\ mbIsStarted' = FALSE
    /\ tpc' = IF tpc = "wait" THEN "woken" ELSE tpc
    /\ opc' = "idle"
    /\ cancelled' = TRUE
    /\ UNCHANGED <<mSemaphore, mMutex, suspended, running, mbThreadIsCreated>>

Suspend ==
    /\ opc = "idle"
    /\ suspended' = TRUE
    /\ UNCHANGED <<mSemaphore, mMutex, mbIsStarted, running, mbThreadIsCreated, tpc, opc, cancelled>>

CallStep == StartUnsuspends \/ StartNotRunning \/ StartPosts \/ CancelSignals

-----------------------------------------------------------------------------
(* A timer by itself: an owner that calls start() and cancel() in any      *)
(* order, and a handler that returns at once.                              *)

OwnerCalls == (mSemaphore < MaxPosts /\ Start) \/ Cancel

TimerNext == ThreadStep \/ HandlerReturns \/ CallStep \/ OwnerCalls

TimerSpec == TimerInit /\ [][TimerNext]_timerVars

TimerTypeOK ==
    /\ mSemaphore \in Nat
    /\ mMutex \in {Nobody, TimerThread}
    /\ mbIsStarted \in BOOLEAN /\ mbThreadIsCreated \in BOOLEAN
    /\ suspended \in BOOLEAN /\ running \in BOOLEAN
    /\ tpc \in {"none", "sem", "check", "lock", "wait", "late", "woken", "expired",
                "setrunning", "handler"}
    /\ opc \in {"idle", "unsuspend", "notrunning", "post", "cancel"}
    /\ cancelled \in BOOLEAN

(* "This function cancels a timer" (OwTimer.h, of cancel): from its return *)
(* to the next start, the timeout does not elapse.                         *)
CancelCancels ==
    [][cancelled /\ cancelled' => ~ (tpc = "wait" /\ tpc' = "late")]_timerVars
=============================================================================
