------------------------------ MODULE PwmGate ------------------------------
(***************************************************************************)
(* PWM: the task that opens the gate servo for every semaphoreGive() and   *)
(* lets an OwTimer close it PWM_DOCLOSE_TIMEOUT later.  Opening runs in    *)
(* the PWM task, closing in the timer's thread (handleTimeout, with the    *)
(* timer's mMutex held); m_hMutex keeps the two movements apart.           *)
(***************************************************************************)
EXTENDS OwTimer

CONSTANTS
    MIN_DUTY, MAX_DUTY, Step,  \* servo range and step
    MaxGives                   \* bound: open requests of the executor

ASSUME PwmAssumption ==
    /\ MIN_DUTY \in Nat /\ MAX_DUTY \in Nat /\ Step \in Nat \ {0}
    /\ Step <= MIN_DUTY /\ MIN_DUTY <= MAX_DUTY
    /\ MaxGives \in Nat

VARIABLES
    m_hSem,      \* open requests not yet taken
    m_hMutex,    \* who moves the servo
    duty,
    mpc,         \* where the PWM task is
    hpc,         \* where do_close is, in the timer's thread
    gives        \* open requests so far

pwmVars == <<m_hSem, m_hMutex, duty, mpc, hpc, gives>>
gateVars == <<timerVars, pwmVars>>

(* The semaphore starts at 1; main opens once before its loop. *)
GateInit ==
    /\ TimerInit
    /\ m_hSem = 1
    /\ m_hMutex = Nobody
    /\ duty = MIN_DUTY
    /\ mpc = "boot"
    /\ hpc = "out"
    /\ gives = 0

-----------------------------------------------------------------------------
(* PWM::semaphoreGive(), from iAgent_CallBack. *)
SemaphoreGive ==
    /\ gives < MaxGives
    /\ gives' = gives + 1
    /\ m_hSem' = m_hSem + 1
    /\ UNCHANGED <<timerVars, m_hMutex, duty, mpc, hpc>>

(* Mutant of SemaphoreTake: the task does not wait for a request. *)
SemaphoreTakeNoWait ==
    /\ mpc = "take"
    /\ m_hSem' = m_hSem - 1
    /\ mpc' = "cancel"
    /\ UNCHANGED <<timerVars, m_hMutex, duty, hpc, gives>>

SemaphoreTake ==
    /\ mpc = "take" /\ m_hSem > 0
    /\ m_hSem' = m_hSem - 1
    /\ mpc' = "cancel"
    /\ UNCHANGED <<timerVars, m_hMutex, duty, hpc, gives>>

CancelTimer ==
    /\ mpc = "cancel"
    /\ Cancel
    /\ mpc' = "hasrun"
    /\ UNCHANGED <<m_hSem, m_hMutex, duty, hpc, gives>>

(* hasRun(), once cancel() has returned *)
HasRun ==
    /\ mpc = "hasrun" /\ opc = "idle"
    /\ mpc' = IF running THEN "suspend" ELSE "open"
    /\ UNCHANGED <<timerVars, m_hSem, m_hMutex, duty, hpc, gives>>

SuspendTimer ==
    /\ mpc = "suspend"
    /\ Suspend
    /\ mpc' = "open"
    /\ UNCHANGED <<m_hSem, m_hMutex, duty, hpc, gives>>

(* do_open(): PWMTakeMutex, the loop, PWMGiveMutex *)
OpenTake ==
    /\ mpc \in {"boot", "open"} /\ m_hMutex = Nobody
    /\ m_hMutex' = Owner
    /\ mpc' = IF mpc = "boot" THEN "bootopening" ELSE "opening"
    /\ UNCHANGED <<timerVars, m_hSem, duty, hpc, gives>>

(* Mutant of OpenStep: the loop steps once more than its test allows. *)
OpenStepTooFar ==
    /\ mpc \in {"bootopening", "opening"} /\ duty <= MAX_DUTY + Step
    /\ duty' = duty + Step
    /\ UNCHANGED <<timerVars, m_hSem, m_hMutex, mpc, hpc, gives>>

OpenStep ==
    /\ mpc \in {"bootopening", "opening"} /\ duty <= MAX_DUTY
    /\ duty' = duty + Step
    /\ UNCHANGED <<timerVars, m_hSem, m_hMutex, mpc, hpc, gives>>

OpenGive ==
    /\ mpc \in {"bootopening", "opening"} /\ duty > MAX_DUTY
    /\ m_hMutex' = Nobody
    /\ mpc' = IF mpc = "opening" THEN "start" ELSE "take"
    /\ UNCHANGED <<timerVars, m_hSem, duty, hpc, gives>>

(* pmDoCloseTimer->start(), whose result is not looked at *)
StartTimer ==
    /\ mpc = "start"
    /\ Start
    /\ mpc' = "started"
    /\ UNCHANGED <<m_hSem, m_hMutex, duty, hpc, gives>>

NextRequest ==
    /\ mpc = "started" /\ opc = "idle"
    /\ mpc' = "take"
    /\ UNCHANGED <<timerVars, m_hSem, m_hMutex, duty, hpc, gives>>

-----------------------------------------------------------------------------
(* handleTimeout() -> do_close(), in the timer's thread. *)

(* Mutant of CloseTake: do_close does not take the mutex. *)
CloseWithoutMutex ==
    /\ tpc = "handler" /\ hpc = "out"
    /\ hpc' = "closing"
    /\ UNCHANGED <<timerVars, m_hSem, m_hMutex, duty, mpc, gives>>

CloseTake ==
    /\ tpc = "handler" /\ hpc = "out" /\ m_hMutex = Nobody
    /\ m_hMutex' = TimerThread
    /\ hpc' = "closing"
    /\ UNCHANGED <<timerVars, m_hSem, duty, mpc, gives>>

CloseStep ==
    /\ hpc = "closing" /\ duty >= MIN_DUTY
    /\ duty' = duty - Step
    /\ hpc' = "suspended?"
    /\ UNCHANGED <<timerVars, m_hSem, m_hMutex, mpc, gives>>

(* after the sleep(100) that follows the step *)
HasSuspended ==
    /\ hpc = "suspended?" /\ NotInStart
    /\ hpc' = IF suspended THEN "break" ELSE "closing"
    /\ UNCHANGED <<timerVars, m_hSem, m_hMutex, duty, mpc, gives>>

(* Mutant of CloseGive: a close that was suspended keeps the mutex. *)
SuspendedKeepsMutex ==
    /\ hpc = "break" \/ (hpc = "closing" /\ duty < MIN_DUTY)
    /\ m_hMutex' = IF hpc = "break" THEN m_hMutex ELSE Nobody
    /\ hpc' = "done"
    /\ UNCHANGED <<timerVars, m_hSem, duty, mpc, gives>>

CloseGive ==
    /\ hpc = "break" \/ (hpc = "closing" /\ duty < MIN_DUTY)
    /\ m_hMutex' = Nobody
    /\ hpc' = "done"
    /\ UNCHANGED <<timerVars, m_hSem, duty, mpc, gives>>

CloseReturns ==
    /\ hpc = "done"
    /\ HandlerReturns
    /\ hpc' = "out"
    /\ UNCHANGED <<m_hSem, m_hMutex, duty, mpc, gives>>

-----------------------------------------------------------------------------
OpenTask ==
    \/ SemaphoreTake \/ CancelTimer \/ HasRun \/ SuspendTimer \/ OpenTake
    \/ OpenStep \/ OpenGive \/ StartTimer \/ NextRequest
    \/ CallStep /\ UNCHANGED pwmVars

TimerTask ==
    \/ ThreadStep /\ UNCHANGED pwmVars
    \/ CloseTake \/ CloseStep \/ HasSuspended \/ CloseGive \/ CloseReturns

GateNext == SemaphoreGive \/ OpenTask \/ TimerTask

GateSpec == GateInit /\ [][GateNext]_gateVars

(* Both are threads that the scheduler runs, and deadlines pass.  Each     *)
(* lets a mutex go for a while after it used it, so weak fairness of each  *)
(* thread is enough.                                                       *)
GateFairSpec == GateSpec /\ WF_gateVars(OpenTask) /\ WF_gateVars(TimerTask)

-----------------------------------------------------------------------------
GateTypeOK ==
    /\ TimerTypeOK
    /\ m_hSem \in Nat
    /\ m_hMutex \in {Nobody, Owner, TimerThread}
    /\ duty \in Int
    /\ mpc \in {"boot", "bootopening", "take", "cancel", "hasrun", "suspend", "open",
                "opening", "start", "started"}
    /\ hpc \in {"out", "closing", "suspended?", "break", "done"}
    /\ gives \in Nat

(* Only one of do_open and do_close moves the servo: duty += step and      *)
(* duty -= step are not atomic in the code, so they must not overlap.      *)
MoversExclude ==
    ~ (mpc \in {"bootopening", "opening"} /\ hpc \in {"closing", "suspended?", "break"})

(* The servo is never driven more than a step beyond its range, however    *)
(* opens, closes and suspended closes follow each other.                   *)
DutyInRange == MIN_DUTY - Step <= duty /\ duty <= MAX_DUTY + Step

(* main() ignores what start() returns: it is never NOT_READY, since the   *)
(* cancel() before it has left the timer not started.                      *)
NoRefusedStart == mpc = "start" => ~ mbIsStarted

(* Once the PWM task runs, every request to open ends with the gate fully  *)
(* open, also when a close is under way.                                   *)
OpensOnRequest == mpc # "boot" /\ m_hSem > 0 ~> duty > MAX_DUTY

(* Once the PWM task runs, the gate closes after the last request and      *)
(* stays closed, whichever cancels, suspends and late timeouts there were. *)
GateCloses == mpc # "boot" ~> [](duty < MIN_DUTY)

(* A started timer expires or is cancelled: it never stays started, which  *)
(* would refuse every later start.                                         *)
TimerNotStuck == mbIsStarted ~> ~ mbIsStarted
=============================================================================
