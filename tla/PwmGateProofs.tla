--------------------------- MODULE PwmGateProofs ---------------------------
(***************************************************************************)
(* Proofs about PwmGate, for every servo range and step and for any number *)
(* of requests: the type invariant, that opening and closing exclude each  *)
(* other, that the servo stays in its range, and that main() is never      *)
(* refused the start of the close timer.                                   *)
(***************************************************************************)
EXTENDS PwmGate, TLAPS

(* The Boolean variables of the timer. *)
FlagsOK ==
    /\ mbIsStarted \in BOOLEAN /\ mbThreadIsCreated \in BOOLEAN
    /\ suspended \in BOOLEAN /\ running \in BOOLEAN
    /\ cancelled \in BOOLEAN

LEMMA GateInitType == ASSUME PwmAssumption, GateInit PROVE GateTypeOK
<1> USE DEF GateInit, TimerInit
<1>1. FlagsOK
  BY Zenon DEF FlagsOK
<1>2. /\ mSemaphore \in Nat /\ m_hSem \in Nat /\ gives \in Nat
      /\ duty \in Int
  BY DEF PwmAssumption
<1> QED
  BY <1>1, <1>2, Zenon DEF GateTypeOK, TimerTypeOK, FlagsOK

(* The timer's own steps and the owner's calls keep the timer's types. *)
LEMMA TimerType ==
    ASSUME TimerTypeOK, ThreadStep \/ HandlerReturns \/ CallStep \/ Start \/ Cancel \/ Suspend
    PROVE  TimerTypeOK'
<1> USE DEF TimerTypeOK, flags
<1>1. CASE ThreadStep
  <2>1. FlagsOK'
    BY <1>1, Zenon DEF FlagsOK, ThreadStep, SemWait, CheckStarted, TimedWait, Deadline, TimedOut,
                WokenByCancel, ExpireStarted, ExpireRunning
  <2>2. /\ mSemaphore' \in Nat
        /\ mMutex' \in {Nobody, TimerThread}
        /\ opc' = opc
    BY <1>1 DEF ThreadStep, SemWait, CheckStarted, TimedWait, Deadline, TimedOut,
                WokenByCancel, ExpireStarted, ExpireRunning
  <2>3. tpc' \in {"sem", "check", "lock", "wait", "late", "expired", "setrunning", "handler"}
    BY <1>1, Zenon DEF ThreadStep, SemWait, CheckStarted, TimedWait, Deadline, TimedOut,
                WokenByCancel, ExpireStarted, ExpireRunning
  <2> QED
    BY <2>1, <2>2, <2>3 DEF FlagsOK
<1>2. CASE HandlerReturns
  BY <1>2 DEF HandlerReturns
<1>3. CASE CallStep
  <2>1. FlagsOK'
    BY <1>3, Zenon DEF FlagsOK, CallStep, StartUnsuspends, StartNotRunning, StartPosts, CancelSignals
  <2>2. /\ mSemaphore' \in Nat
        /\ mMutex' \in {Nobody, TimerThread}
    BY <1>3 DEF CallStep, StartUnsuspends, StartNotRunning, StartPosts, CancelSignals
  <2>3. /\ opc' \in {"idle", "notrunning", "post"}
        /\ tpc' \in {tpc, "woken"}
    BY <1>3, Zenon DEF CallStep, StartUnsuspends, StartNotRunning, StartPosts, CancelSignals
  <2> QED
    BY <2>1, <2>2, <2>3 DEF FlagsOK
<1>4. CASE Start
  BY <1>4 DEF Start
<1>5. CASE Cancel
  BY <1>5 DEF Cancel
<1>6. CASE Suspend
  BY <1>6 DEF Suspend
<1> QED
  BY <1>1, <1>2, <1>3, <1>4, <1>5, <1>6

LEMMA GateNextType == ASSUME PwmAssumption, GateTypeOK, [GateNext]_gateVars PROVE GateTypeOK'
<1> USE DEF GateTypeOK, PwmAssumption
<1>1. CASE SemaphoreGive
  BY <1>1 DEF SemaphoreGive, timerVars, TimerTypeOK
<1>2. CASE OpenTask
  <2>1. CASE SemaphoreTake \/ HasRun \/ OpenTake \/ OpenStep \/ OpenGive \/ NextRequest
    BY <2>1 DEF SemaphoreTake, HasRun, OpenTake, OpenStep, OpenGive, NextRequest,
                timerVars, TimerTypeOK
  <2>2. CASE CancelTimer
    BY <2>2, TimerType DEF CancelTimer
  <2>3. CASE SuspendTimer
    BY <2>3, TimerType DEF SuspendTimer
  <2>4. CASE StartTimer
    BY <2>4, TimerType DEF StartTimer
  <2>5. CASE CallStep /\ UNCHANGED pwmVars
    BY <2>5, TimerType DEF pwmVars
  <2> QED
    BY <1>2, <2>1, <2>2, <2>3, <2>4, <2>5 DEF OpenTask
<1>3. CASE TimerTask
  <2>1. CASE CloseTake \/ CloseStep \/ HasSuspended \/ CloseGive
    BY <2>1 DEF CloseTake, CloseStep, HasSuspended, CloseGive, timerVars, TimerTypeOK
  <2>2. CASE CloseReturns
    BY <2>2, TimerType DEF CloseReturns
  <2>3. CASE ThreadStep /\ UNCHANGED pwmVars
    BY <2>3, TimerType DEF pwmVars
  <2> QED
    BY <1>3, <2>1, <2>2, <2>3 DEF TimerTask
<1>4. CASE UNCHANGED gateVars
  BY <1>4 DEF gateVars, timerVars, pwmVars, TimerTypeOK
<1> QED
  BY <1>1, <1>2, <1>3, <1>4 DEF GateNext

(* The types of the gate and its timer hold for ever. *)
THEOREM GateTypeCorrect == ASSUME PwmAssumption PROVE GateSpec => []GateTypeOK
<1>1. GateInit => GateTypeOK
  BY GateInitType
<1>2. GateTypeOK /\ [GateNext]_gateVars => GateTypeOK'
  BY GateNextType
<1> QED
  BY <1>1, <1>2, PTL DEF GateSpec

-----------------------------------------------------------------------------
(* Who is in the loop of do_open or do_close has m_hMutex. *)
MoverHoldsMutex ==
    /\ mpc \in {"bootopening", "opening"} => m_hMutex = Owner
    /\ hpc \in {"closing", "suspended?", "break"} => m_hMutex = TimerThread

LEMMA MoverHoldsMutexStep ==
    ASSUME TimerAssumption, MoverHoldsMutex, [GateNext]_gateVars PROVE MoverHoldsMutex'
<1> USE DEF MoverHoldsMutex, TimerAssumption
<1>1. CASE SemaphoreGive
  BY <1>1 DEF SemaphoreGive
<1>2. CASE OpenTask
  BY <1>2 DEF OpenTask, SemaphoreTake, CancelTimer, HasRun, SuspendTimer, OpenTake, OpenStep,
              OpenGive, StartTimer, NextRequest, pwmVars
<1>3. CASE TimerTask
  BY <1>3 DEF TimerTask, CloseTake, CloseStep, HasSuspended, CloseGive, CloseReturns, pwmVars
<1>4. CASE UNCHANGED gateVars
  BY <1>4 DEF gateVars, pwmVars
<1> QED
  BY <1>1, <1>2, <1>3, <1>4 DEF GateNext

(* PWM::do_open and PWM::do_close never overlap, whatever cancels,         *)
(* suspends and expiries there are: duty is changed by one thread at a     *)
(* time.                                                                   *)
THEOREM OpenCloseExclude == ASSUME TimerAssumption PROVE GateSpec => []MoversExclude
<1>1. GateInit => MoverHoldsMutex
  BY DEF GateInit, MoverHoldsMutex
<1>2. MoverHoldsMutex /\ [GateNext]_gateVars => MoverHoldsMutex'
  BY MoverHoldsMutexStep
<1>3. MoverHoldsMutex => MoversExclude
  BY DEF MoverHoldsMutex, MoversExclude, TimerAssumption
<1> QED
  BY <1>1, <1>2, <1>3, PTL DEF GateSpec

-----------------------------------------------------------------------------
LEMMA DutyStep ==
    ASSUME PwmAssumption, GateTypeOK, DutyInRange, [GateNext]_gateVars PROVE DutyInRange'
<1> USE DEF DutyInRange, PwmAssumption, GateTypeOK
<1>1. CASE OpenStep
  BY <1>1 DEF OpenStep
<1>2. CASE CloseStep
  BY <1>2 DEF CloseStep
<1>3. CASE UNCHANGED duty
  BY <1>3
<1>4. OpenStep \/ CloseStep \/ UNCHANGED duty
  BY Zenon DEF GateNext, SemaphoreGive, OpenTask, SemaphoreTake, CancelTimer, HasRun, SuspendTimer,
     OpenTake, OpenGive, StartTimer, NextRequest, TimerTask, CloseTake, HasSuspended, CloseGive,
     CloseReturns, gateVars, pwmVars
<1> QED
  BY <1>1, <1>2, <1>3, <1>4

(* The servo is never driven more than a step beyond its range, for every  *)
(* range and step and every sequence of opens and suspended closes.        *)
THEOREM ServoInRange == ASSUME PwmAssumption PROVE GateSpec => []DutyInRange
<1>1. GateInit => DutyInRange
  BY DEF GateInit, DutyInRange, PwmAssumption
<1>2. GateTypeOK /\ DutyInRange /\ [GateNext]_gateVars => DutyInRange'
  BY DutyStep
<1> QED
  BY <1>1, <1>2, GateTypeCorrect, PTL DEF GateSpec

-----------------------------------------------------------------------------
(* Where PWM's main is while one of its calls to the timer goes on, and    *)
(* that the timer is not started from the return of cancel() to start().   *)
CancelledBeforeStart ==
    /\ opc = "cancel" => mpc = "hasrun"
    /\ opc \in {"unsuspend", "notrunning", "post"} => mpc = "started"
    /\ mpc = "hasrun" => opc \in {"idle", "cancel"}
    /\ mpc = "hasrun" /\ opc = "idle" => ~ mbIsStarted
    /\ mpc \in {"suspend", "open", "opening", "start"} => ~ mbIsStarted

LEMMA CancelledBeforeStartStep ==
    ASSUME GateTypeOK, CancelledBeforeStart, [GateNext]_gateVars PROVE CancelledBeforeStart'
<1> USE DEF CancelledBeforeStart, GateTypeOK, TimerTypeOK, flags
<1>1. CASE SemaphoreGive
  BY <1>1 DEF SemaphoreGive, timerVars
<1>2. CASE OpenTask
  <2>1. CASE SemaphoreTake \/ HasRun \/ OpenTake \/ OpenStep \/ OpenGive \/ NextRequest
    BY <2>1 DEF SemaphoreTake, HasRun, OpenTake, OpenStep, OpenGive, NextRequest, timerVars
  <2>2. CASE CancelTimer
    BY <2>2 DEF CancelTimer, Cancel
  <2>3. CASE SuspendTimer
    BY <2>3 DEF SuspendTimer, Suspend
  <2>4. CASE StartTimer
    BY <2>4 DEF StartTimer, Start
  <2>5. CASE CallStep /\ UNCHANGED pwmVars
    BY <2>5 DEF pwmVars, CallStep, StartUnsuspends, StartNotRunning, StartPosts, CancelSignals
  <2> QED
    BY <1>2, <2>1, <2>2, <2>3, <2>4, <2>5 DEF OpenTask
<1>3. CASE TimerTask
  <2>1. CASE CloseTake \/ CloseStep \/ HasSuspended \/ CloseGive
    BY <2>1 DEF CloseTake, CloseStep, HasSuspended, CloseGive, timerVars
  <2>2. CASE CloseReturns
    BY <2>2 DEF CloseReturns, HandlerReturns
  <2>3. CASE ThreadStep /\ UNCHANGED pwmVars
    BY <2>3 DEF pwmVars, ThreadStep, SemWait, CheckStarted, TimedWait, Deadline, TimedOut,
                WokenByCancel, ExpireStarted, ExpireRunning
  <2> QED
    BY <1>3, <2>1, <2>2, <2>3 DEF TimerTask
<1>4. CASE UNCHANGED gateVars
  BY <1>4 DEF gateVars, timerVars, pwmVars
<1> QED
  BY <1>1, <1>2, <1>3, <1>4 DEF GateNext

(* PWM::main ignores the result of start(): it is never NOT_READY, because *)
(* the cancel() before has left the timer not started and nobody else      *)
(* starts it.                                                              *)
THEOREM StartNeverRefused == ASSUME PwmAssumption PROVE GateSpec => []NoRefusedStart
<1>1. GateInit => CancelledBeforeStart
  BY DEF GateInit, TimerInit, CancelledBeforeStart
<1>2. GateTypeOK /\ CancelledBeforeStart /\ [GateNext]_gateVars => CancelledBeforeStart'
  BY CancelledBeforeStartStep
<1>3. CancelledBeforeStart => NoRefusedStart
  BY DEF CancelledBeforeStart, NoRefusedStart
<1> QED
  BY <1>1, <1>2, <1>3, GateTypeCorrect, PTL DEF GateSpec
=============================================================================
