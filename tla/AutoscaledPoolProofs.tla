------------------------ MODULE AutoscaledPoolProofs ------------------------
(***************************************************************************)
(* Type correctness and the safety invariants of the pool, for every       *)
(* choice of limits, window, work and faults.                              *)
(***************************************************************************)
EXTENDS AutoscaledPool, TLAPS

(* A step of autoscaling is a natural number.                              *)
LEMMA StepType ==
    ASSUME NEW n \in Nat, NEW percent \in 0 .. 100
    PROVE  (n * percent + 99) \div 100 \in Nat
<1>1. n * percent \in Nat
  OBVIOUS
<1> DEFINE m == n * percent
<1>2. m \in Nat
  BY <1>1
<1> HIDE DEF m
<1>3. (m + 99) \div 100 \in Nat
  BY <1>2
<1> QED
  BY <1>3 DEF m

(* The invariant holds initially.                                          *)
LEMMA InitInv == PoolInit => TypeOK /\ PoolInv
<1> SUFFICES ASSUME PoolInit PROVE TypeOK /\ PoolInv
  OBVIOUS
<1> USE DEF PoolInit
<1>0. /\ MinConcurrency \in Nat \ {0} /\ MaxConcurrency \in Nat
      /\ DesiredConcurrency \in Nat /\ DesiredConcurrency <= MaxConcurrency
      /\ MaxWork \in Nat
  BY PoolAssumption
<1>1. LimitsTypeOK
  <2>1. MaxConcurrency <= MaxConcurrency /\ MaxConcurrency \in Settable \cup {MaxConcurrency}
    BY <1>0
  <2>2. AllowedConcurrency(maxConcurrency) /\ AllowedConcurrency(desiredConcurrency)
    BY <1>0, <2>1 DEF AllowedConcurrency
  <2> QED
    BY <1>0, <2>2 DEF LimitsTypeOK
<1>2. StateTypeOK /\ CountsTypeOK
  <2>1. work \in Nat /\ existed \in Nat
    BY <1>0
  <2>2. StateTypeOK
    BY DEF StateTypeOK
  <2>3. CountsTypeOK
    BY <2>1 DEF CountsTypeOK
  <2> QED
    BY <2>2, <2>3
<1>3. OneAsk /\ AskedWithRoom
  <2>1. \A c \in Callers : ~Asking(c)
    BY DEF Asking
  <2>2. "interval" \in Callers /\ ~queryingIsTaskReady
    BY DEF Callers
  <2> QED
    BY <2>1, <2>2 DEF OneAsk, AskedWithRoom
<1>4. NeverOverMax /\ RunningCounted
  BY <1>0 DEF NeverOverMax, AllowedConcurrency, RunningCounted
<1>5. DrainedWhenFinished /\ PausedQuiet
  BY DEF DrainedWhenFinished, PausedQuiet
<1> QED
  BY <1>1, <1>2, <1>3, <1>4, <1>5 DEF TypeOK, PoolInv

(* Starting, ending, stopping and resuming the pool.                       *)
LEMMA RunStep ==
    ASSUME TypeOK, PoolInv,
           Run \/ Started \/ RunEnds \/ Abort \/ Pause \/ PauseEnds \/ Resume
    PROVE  TypeOK' /\ PoolInv'
<1> USE DEF TypeOK, PoolInv
<1>1. /\ UNCHANGED <<limitVars, currentConcurrency, askVars, finishVars, immediates,
                     tasksPerMinute, taskVars>>
      /\ promise' = promise \/ promise' \in {"pending", "aborted"}
      /\ live' \in BOOLEAN /\ intervals' \in BOOLEAN /\ isStopped' \in BOOLEAN
      /\ run' \in {"new", "starting", "running", "done"}
      /\ pauses' \in Nat
      /\ \/ pausing' = pausing /\ (isStopped' = isStopped \/ isStopped')
         \/ pausing' = "none"
         \/ pausing' = "waiting" /\ isStopped'
         \/ pausing' = "rejected" /\ pausing = "waiting" /\ isStopped' = isStopped
         \/ pausing' = "resolved" /\ pausing = "waiting" /\ isStopped' = isStopped
               /\ currentConcurrency <= 0
  <2> USE DEF StateTypeOK, CountsTypeOK
  <2>1. CASE Run
    BY <2>1 DEF Run, stopVars
  <2>2. CASE Started
    BY <2>2 DEF Started, stopVars
  <2>3. CASE RunEnds
    BY <2>3 DEF RunEnds, stopVars
  <2>4. CASE Abort
    BY <2>4 DEF Abort, Settle
  <2>5. CASE Pause \/ Resume
    <3>1. /\ UNCHANGED <<limitVars, currentConcurrency, askVars, finishVars,
                          immediates, tasksPerMinute, runVars, taskVars>>
          /\ isStopped' \in BOOLEAN
          /\ pausing' = "none" \/ (pausing' = "waiting" /\ isStopped')
      BY <2>5 DEF Pause, Resume
    <3>2. pauses' \in Nat
      BY <2>5 DEF Pause, Resume
    <3> QED
      BY <3>1, <3>2 DEF runVars
  <2>6. CASE PauseEnds
    BY <2>6 DEF PauseEnds, runVars
  <2> QED
    BY <2>1, <2>2, <2>3, <2>4, <2>5, <2>6
<1>2. TypeOK'
  BY <1>1 DEF LimitsTypeOK, StateTypeOK, CountsTypeOK, limitVars, askVars, finishVars,
     taskVars
<1>3. (OneAsk /\ RunningCounted /\ AskedWithRoom /\ NeverOverMax)'
  BY <1>1 DEF OneAsk, RunningCounted, AskedWithRoom, NeverOverMax, Asking,
     AllowedConcurrency, askVars, taskVars
<1>4. DrainedWhenFinished'
  BY <1>1 DEF DrainedWhenFinished, Drained, finishVars, taskVars
<1>5. PausedQuiet'
  BY <1>1 DEF PausedQuiet, Asking, askVars, StateTypeOK, LimitsTypeOK
<1> QED
  BY <1>2, <1>3, <1>4, <1>5

(* Changing the limits.                                                    *)
LEMMA LimitsStep ==
    ASSUME TypeOK, PoolInv,
           SetConcurrency \/ Autoscale \/ IncrementTasksDonePerSecond
    PROVE  TypeOK' /\ PoolInv'
<1> USE DEF TypeOK, PoolInv
<1>1. UNCHANGED <<currentConcurrency, askVars, finishVars, immediates, runVars, stopVars,
                  taskVars>>
  BY DEF SetConcurrency, Autoscale, IncrementTasksDonePerSecond
<1>2. PoolInv'
  BY <1>1 DEF OneAsk, RunningCounted, AskedWithRoom, NeverOverMax, DrainedWhenFinished,
     Drained, PausedQuiet, Asking, AllowedConcurrency, askVars, finishVars, runVars,
     stopVars, taskVars
<1>3. tasksPerMinute' \in [1 .. Seconds -> Nat]
  <2>1. CASE IncrementTasksDonePerSecond
    BY <2>1, PoolAssumption DEF IncrementTasksDonePerSecond, CountsTypeOK
  <2>2. CASE SetConcurrency \/ Autoscale
    BY <2>2 DEF SetConcurrency, Autoscale, CountsTypeOK
  <2> QED
    BY <2>1, <2>2
<1>4. LimitsTypeOK'
  <2>1. CASE IncrementTasksDonePerSecond
    BY <2>1 DEF IncrementTasksDonePerSecond, limitVars, LimitsTypeOK, AllowedConcurrency
  <2>2. CASE SetConcurrency
    <3>1. \A v \in Settable : v \in Nat \ {0} /\ AllowedConcurrency(v)
      BY PoolAssumption DEF AllowedConcurrency
    <3> QED
      BY <1>1, <2>2, <3>1 DEF SetConcurrency, LimitsTypeOK
  <2>3. CASE Autoscale
    <3>1. /\ UNCHANGED <<minConcurrency, maxConcurrency, currentConcurrency>>
          /\ \/ ScaleUp
             \/ desiredConcurrency > minConcurrency /\ ScaleDown
      BY <2>3 DEF Autoscale
    <3>2. /\ desiredConcurrency \in Nat /\ maxConcurrency \in Nat
          /\ minConcurrency \in Nat
      BY DEF LimitsTypeOK, AllowedConcurrency
    <3>3. StepOf(ScaleUpPercent) \in Nat /\ StepOf(ScaleDownPercent) \in Nat
      BY <3>2, StepType, PoolAssumption DEF StepOf
    <3>4. \/ desiredConcurrency' = maxConcurrency
          \/ desiredConcurrency' \in Nat
             /\ (desiredConcurrency' <= desiredConcurrency
                  \/ desiredConcurrency' <= maxConcurrency)
      BY <3>1, <3>2, <3>3 DEF ScaleUp, ScaleDown
    <3>5. Settable \cup {MaxConcurrency} \subseteq Nat
      BY PoolAssumption
    <3>6. AllowedConcurrency(desiredConcurrency')
      BY <3>2, <3>4, <3>5 DEF LimitsTypeOK, AllowedConcurrency
    <3> QED
      BY <3>1, <3>6 DEF LimitsTypeOK
  <2> QED
    BY <2>1, <2>2, <2>3
<1>5. StateTypeOK' /\ CountsTypeOK'
  BY <1>1, <1>3 DEF StateTypeOK, CountsTypeOK, askVars, finishVars, runVars, stopVars,
     taskVars
<1> QED
  BY <1>2, <1>4, <1>5

(* Looking for a task.                                                     *)
LEMMA AskStep ==
    ASSUME TypeOK, PoolInv, NEW c \in Callers,
           MaybeRunTask(c) \/ IsTaskReadyFunction(c) \/ NoTaskReady(c)
    PROVE  TypeOK' /\ PoolInv'
<1> USE DEF TypeOK, PoolInv
<1>0. asks \in [Callers -> {"none", "asked", "ready", "notReady", "failed"}]
  BY DEF StateTypeOK
<1>1. CASE MaybeRunTask(c)
  <2>1. UNCHANGED <<limitVars, currentConcurrency, finishVars, tasksPerMinute, runVars,
                    stopVars, taskVars>>
    BY <1>1 DEF MaybeRunTask
  <2>2. immediates' \in Nat
    BY <1>1 DEF MaybeRunTask, CountsTypeOK
  <2>3. \/ UNCHANGED askVars
        \/ /\ queryingIsTaskReady' = TRUE /\ asks' = [asks EXCEPT ![c] = "asked"]
           /\ ~isStopped /\ ~queryingIsTaskReady
           /\ currentConcurrency < desiredConcurrency
    BY <1>1 DEF MaybeRunTask, MayAsk
  <2>4. TypeOK'
    <3>1. LimitsTypeOK' /\ CountsTypeOK'
      BY <2>1, <2>2 DEF LimitsTypeOK, AllowedConcurrency, CountsTypeOK, limitVars,
         stopVars, taskVars
    <3>2. queryingIsTaskReady' \in BOOLEAN
      BY <2>3 DEF StateTypeOK, askVars
    <3>3. asks' \in [Callers -> {"none", "asked", "ready", "notReady", "failed"}]
      BY <1>0, <2>3 DEF askVars
    <3>4. StateTypeOK'
      BY <2>1, <3>2, <3>3 DEF StateTypeOK, finishVars, runVars, stopVars
    <3> QED
      BY <3>1, <3>4
  <2>5. (OneAsk /\ AskedWithRoom /\ PausedQuiet)'
    <3>1. CASE UNCHANGED askVars
      BY <2>1, <3>1 DEF OneAsk, Asking, AskedWithRoom, PausedQuiet, AllowedConcurrency,
         askVars, stopVars
    <3>2. CASE ~UNCHANGED askVars
      <4>1. /\ queryingIsTaskReady' = TRUE /\ asks' = [asks EXCEPT ![c] = "asked"]
            /\ ~isStopped /\ ~queryingIsTaskReady
            /\ currentConcurrency < desiredConcurrency
        BY <2>3, <3>2
      <4>2. OneAsk'
        <5>1. \A d \in Callers : asks[d] = "none"
          BY <4>1 DEF OneAsk, Asking
        <5>2. asks'[c] = "asked" /\ \A d \in Callers \ {c} : asks'[d] = "none"
          BY <1>0, <4>1, <5>1
        <5> QED
          BY <4>1, <5>2 DEF OneAsk, Asking, Callers
      <4>3. AllowedConcurrency(currentConcurrency + 1)
        <5>1. /\ currentConcurrency \in Nat /\ desiredConcurrency \in Nat
              /\ currentConcurrency + 1 <= desiredConcurrency
          BY <4>1 DEF LimitsTypeOK, AllowedConcurrency
        <5>2. PICK m \in Settable \cup {MaxConcurrency} : desiredConcurrency <= m
          BY DEF LimitsTypeOK, AllowedConcurrency
        <5>3. m \in Nat
          BY PoolAssumption
        <5> QED
          BY <5>1, <5>2, <5>3 DEF AllowedConcurrency
      <4>4. AskedWithRoom'
        BY <2>1, <4>3 DEF AskedWithRoom, AllowedConcurrency
      <4>5. PausedQuiet'
        BY <2>1, <4>1 DEF PausedQuiet, stopVars
      <4> QED
        BY <4>2, <4>4, <4>5
    <3> QED
      BY <3>1, <3>2
  <2>6. (RunningCounted /\ NeverOverMax /\ DrainedWhenFinished)'
    BY <2>1 DEF RunningCounted, NeverOverMax, AllowedConcurrency, DrainedWhenFinished,
       Drained, finishVars, runVars, taskVars
  <2> QED
    BY <2>4, <2>5, <2>6
<1>2. CASE IsTaskReadyFunction(c)
  <2>1. UNCHANGED <<limitVars, currentConcurrency, queryingIsTaskReady, finishVars,
                    immediates, tasksPerMinute, runVars, stopVars, taskVars>>
    BY <1>2 DEF IsTaskReadyFunction
  <2>2. /\ asks' \in [Callers -> {"none", "asked", "ready", "notReady", "failed"}]
        /\ \A d \in Callers : Asking(d)' <=> Asking(d)
    BY <1>0, <1>2 DEF IsTaskReadyFunction, Asking
  <2>3. TypeOK'
    BY <2>1, <2>2 DEF LimitsTypeOK, StateTypeOK, CountsTypeOK, limitVars,
       finishVars, runVars, stopVars, taskVars
  <2>4. "interval" \in Callers /\ "immediate" \in Callers
    BY DEF Callers
  <2>5. (OneAsk /\ AskedWithRoom /\ PausedQuiet)'
    BY <2>1, <2>2, <2>4 DEF OneAsk, AskedWithRoom, PausedQuiet, AllowedConcurrency,
       stopVars
  <2>6. (RunningCounted /\ NeverOverMax /\ DrainedWhenFinished)'
    BY <2>1 DEF RunningCounted, NeverOverMax, AllowedConcurrency, DrainedWhenFinished,
       Drained, finishVars, runVars, taskVars
  <2> QED
    BY <2>3, <2>5, <2>6
<1>3. CASE NoTaskReady(c)
  <2>1. /\ UNCHANGED <<limitVars, currentConcurrency, immediates, tasksPerMinute, live,
                       run, intervals, stopVars, taskVars>>
        /\ asks' = [asks EXCEPT ![c] = "none"] /\ queryingIsTaskReady' = FALSE
        /\ asks[c] # "none"
        /\ promise' \in {promise, "failed"}
        /\ \/ UNCHANGED finishVars
           \/ queryingIsFinished' = TRUE /\ finishAsk' = "asked"
    BY <1>3 DEF NoTaskReady, StopsAsking, MaybeFinish, Settle
  <2>2. TypeOK'
    <3>1. LimitsTypeOK' /\ CountsTypeOK'
      BY <2>1 DEF LimitsTypeOK, AllowedConcurrency, CountsTypeOK, limitVars, stopVars,
         taskVars
    <3>2. queryingIsFinished' \in BOOLEAN
      BY <2>1 DEF StateTypeOK, finishVars
    <3>3. finishAsk' \in {"none", "asked", "yes", "no", "failed"}
      BY <2>1 DEF StateTypeOK, finishVars
    <3>4. StateTypeOK'
      BY <1>0, <2>1, <3>2, <3>3 DEF StateTypeOK, stopVars
    <3> QED
      BY <3>1, <3>4
  <2>3. \A d \in Callers : ~Asking(d)'
    BY <1>0, <2>1 DEF OneAsk, Asking, Callers
  <2>4. (OneAsk /\ AskedWithRoom /\ PausedQuiet)'
    <3>1. OneAsk'
      BY <2>1, <2>3 DEF OneAsk, Callers
    <3>2. AskedWithRoom' /\ PausedQuiet'
      BY <2>1, <2>3 DEF AskedWithRoom, PausedQuiet, stopVars
    <3> QED
      BY <3>1, <3>2
  <2>5. (RunningCounted /\ NeverOverMax /\ DrainedWhenFinished)'
    BY <2>1 DEF RunningCounted, NeverOverMax, AllowedConcurrency, DrainedWhenFinished,
       Drained, finishVars, taskVars
  <2> QED
    BY <2>2, <2>4, <2>5
<1> QED
  BY <1>1, <1>2, <1>3

(* Starting, running and ending tasks.                                     *)
LEMMA TaskReadyStep ==
    ASSUME TypeOK, PoolInv, NEW c \in Callers, TaskReady(c)
    PROVE  TypeOK' /\ PoolInv'
<1> USE DEF TypeOK, PoolInv
<1>0. asks \in [Callers -> {"none", "asked", "ready", "notReady", "failed"}]
  BY DEF StateTypeOK
<1>1. /\ asks' = [asks EXCEPT ![c] = "none"] /\ queryingIsTaskReady' = FALSE
      /\ asks[c] # "none"
      /\ UNCHANGED <<limitVars, finishVars, runVars, stopVars, work, busy, existed>>
  BY DEF TaskReady, StopsAsking
<1>2. \/ UNCHANGED <<currentConcurrency, tasksPerMinute, immediates, fresh>>
      \/ /\ currentConcurrency' = currentConcurrency + 1
         /\ fresh' = fresh + 1
         /\ immediates' = immediates + 1
         /\ \/ tasksPerMinute' = tasksPerMinute
            \/ tasksPerMinute' = [tasksPerMinute EXCEPT ![1] = @ + 1]
  BY DEF TaskReady
<1>3. \A d \in Callers : ~Asking(d)'
  BY <1>0, <1>1 DEF OneAsk, Asking, Callers
<1>4. TypeOK'
  <2>1. StateTypeOK'
    BY <1>0, <1>1 DEF StateTypeOK, finishVars, runVars, stopVars
  <2>2. LimitsTypeOK'
    BY <1>1, <1>2 DEF LimitsTypeOK, AllowedConcurrency, limitVars
  <2>3. CountsTypeOK'
    <3>1. tasksPerMinute' \in [1 .. Seconds -> Nat]
      BY <1>2, PoolAssumption DEF CountsTypeOK
    <3> QED
      BY <1>1, <1>2, <3>1 DEF CountsTypeOK, stopVars
  <2> QED
    BY <2>1, <2>2, <2>3
<1>5. OneAsk' /\ AskedWithRoom'
  BY <1>1, <1>3 DEF OneAsk, AskedWithRoom, Callers
<1>6. NeverOverMax'
  <2>1. AllowedConcurrency(currentConcurrency + 1)
    BY <1>1 DEF AskedWithRoom, Asking
  <2> QED
    BY <1>2, <2>1 DEF NeverOverMax, AllowedConcurrency
<1>7. RunningCounted'
  BY <1>1, <1>2 DEF RunningCounted, CountsTypeOK, LimitsTypeOK
<1>8. DrainedWhenFinished'
  BY <1>1 DEF DrainedWhenFinished, Drained, finishVars, runVars
<1>9. PausedQuiet'
  <2>1. pausing = "resolved" => currentConcurrency = 0
    BY <1>1 DEF PausedQuiet, Asking
  <2> QED
    BY <1>1, <1>2, <1>3, <2>1 DEF PausedQuiet, stopVars
<1> QED
  BY <1>4, <1>5, <1>6, <1>7, <1>8, <1>9

(* Every step of a task keeps the invariant.                               *)
LEMMA TaskStep ==
    ASSUME TypeOK, PoolInv, TaskTakesWork \/ TaskAddsWork \/ TaskDone
    PROVE  TypeOK' /\ PoolInv'
<1> USE DEF TypeOK, PoolInv
<1>1. /\ UNCHANGED <<limitVars, askVars, finishVars, tasksPerMinute, live, run,
                     intervals, stopVars>>
      /\ promise' \in {promise, "failed"}
      /\ {work, fresh, busy, existed} \subseteq Nat
      /\ {work', fresh', busy', existed'} \subseteq Nat
  BY DEF TaskTakesWork, TaskAddsWork, TaskDone, TaskEnds, Settle, CountsTypeOK, runVars
<1>2. \/ /\ currentConcurrency' = currentConcurrency
         /\ immediates' = immediates
         /\ fresh' + busy' <= fresh + busy
      \/ /\ currentConcurrency' = currentConcurrency - 1
         /\ immediates' = immediates + 1
         /\ fresh + busy > 0
         /\ fresh' + busy' = fresh + busy - 1
  BY DEF TaskTakesWork, TaskAddsWork, TaskDone, TaskEnds, CountsTypeOK
<1>3. currentConcurrency \in Nat /\ currentConcurrency' \in Nat /\ immediates' \in Nat
      /\ currentConcurrency' <= currentConcurrency
  BY <1>1, <1>2 DEF LimitsTypeOK, CountsTypeOK, RunningCounted
<1>4. TypeOK'
  <2>1. LimitsTypeOK'
    BY <1>1, <1>3 DEF LimitsTypeOK, AllowedConcurrency, limitVars
  <2>2. StateTypeOK'
    BY <1>1 DEF StateTypeOK, askVars, finishVars, stopVars
  <2>3. CountsTypeOK'
    BY <1>1, <1>3 DEF CountsTypeOK, stopVars
  <2> QED
    BY <2>1, <2>2, <2>3
<1>5. \A d \in Callers : Asking(d)' <=> Asking(d)
  BY <1>1 DEF Asking, askVars
<1>6. Settable \cup {MaxConcurrency} \subseteq Nat
  BY PoolAssumption
<1>7. OneAsk'
  BY <1>1 DEF OneAsk, Asking, askVars
<1>8. NeverOverMax' /\ AskedWithRoom'
  <2>1. \A n, k \in Nat : n <= k /\ AllowedConcurrency(k) => AllowedConcurrency(n)
    BY <1>6 DEF AllowedConcurrency
  <2>2. AllowedConcurrency(currentConcurrency')
    BY <1>3, <2>1 DEF NeverOverMax
  <2>3. AllowedConcurrency(currentConcurrency + 1) => AllowedConcurrency(currentConcurrency' + 1)
    BY <1>3, <2>1
  <2> QED
    BY <1>1, <1>5, <2>2, <2>3 DEF NeverOverMax, AskedWithRoom, AllowedConcurrency, limitVars
<1>9. RunningCounted'
  BY <1>1, <1>2, <1>3 DEF RunningCounted
<1>10. PausedQuiet'
  BY <1>1, <1>3, <1>5 DEF PausedQuiet, stopVars
<1>11. DrainedWhenFinished'
  <2>1. Drained => Drained'
    BY <1>1 DEF Drained, TaskTakesWork, TaskAddsWork, TaskDone
  <2> QED
    BY <1>1, <2>1 DEF DrainedWhenFinished, finishVars
<1> QED
  BY <1>4, <1>7, <1>8, <1>9, <1>10, <1>11

(* Asking whether all is done, and finishing.                              *)
LEMMA FinishStep ==
    ASSUME TypeOK, PoolInv, IsFinishedFunction \/ FinishAnswered
    PROVE  TypeOK' /\ PoolInv'
<1> USE DEF TypeOK, PoolInv
<1>1. /\ UNCHANGED <<limitVars, currentConcurrency, askVars, immediates, tasksPerMinute,
                     live, run, intervals, stopVars, taskVars>>
      /\ queryingIsFinished' \in BOOLEAN
      /\ finishAsk' \in {"none", "yes", "no", "failed"}
      /\ finishAsk' = "yes" => Drained
      /\ promise' \in {promise, "finished", "failed"}
      /\ promise' = "finished" => promise = "finished" \/ finishAsk = "yes"
  <2>1. CASE IsFinishedFunction
    BY <2>1 DEF IsFinishedFunction, StateTypeOK, Drained, runVars
  <2>2. CASE FinishAnswered
    BY <2>2 DEF FinishAnswered, FinishesIf, Settle
  <2> QED
    BY <2>1, <2>2
<1>2. TypeOK'
  BY <1>1 DEF LimitsTypeOK, StateTypeOK, CountsTypeOK, limitVars, askVars, stopVars,
     taskVars
<1>3. DrainedWhenFinished'
  BY <1>1 DEF DrainedWhenFinished, Drained, taskVars
<1>4. (OneAsk /\ RunningCounted /\ AskedWithRoom /\ NeverOverMax /\ PausedQuiet)'
  BY <1>1 DEF OneAsk, RunningCounted, AskedWithRoom, NeverOverMax, PausedQuiet, Asking,
     AllowedConcurrency, askVars, stopVars, taskVars
<1> QED
  BY <1>2, <1>3, <1>4

(* Every step of the pool keeps the invariant.                             *)
LEMMA PoolStep ==
    ASSUME TypeOK, PoolInv, [Next]_vars
    PROVE  TypeOK' /\ PoolInv'
<1>1. CASE Next
  BY <1>1, RunStep, LimitsStep, AskStep, TaskReadyStep, TaskStep, FinishStep
     DEF Next, UserCalls, UserFunctions
<1>2. CASE UNCHANGED vars
  BY <1>2 DEF vars, limitVars, askVars, finishVars, runVars, stopVars, taskVars, TypeOK,
     PoolInv, LimitsTypeOK, StateTypeOK, CountsTypeOK, OneAsk, RunningCounted,
     AskedWithRoom, NeverOverMax, DrainedWhenFinished, Drained, PausedQuiet, Asking,
     AllowedConcurrency
<1> QED
  BY <1>1, <1>2

(* The pool keeps its types and the inductive invariant: one question out  *)
(* at a time, asked only when there is room for the task it may start.     *)
THEOREM PoolInvHolds == Spec => [](TypeOK /\ PoolInv)
<1>1. TypeOK /\ PoolInv /\ [Next]_vars => (TypeOK /\ PoolInv)'
  BY PoolStep
<1> QED
  BY <1>1, InitInv, PTL DEF Spec

(* However the limits move, there are never more tasks running than the    *)
(* largest limit anyone set.                                               *)
THEOREM NeverOverMaxHolds == Spec => []NeverOverMax
<1>1. PoolInv => NeverOverMax
  BY DEF PoolInv
<1> QED
  BY <1>1, PoolInvHolds, PTL

(* A pool that finishes has no work left, and no task that has any.        *)
THEOREM FinishedMeansDoneHolds == Spec => []FinishedMeansDone
<1>1. PoolInv => FinishedMeansDone
  BY DEF PoolInv, DrainedWhenFinished, Drained, FinishedMeansDone
<1> QED
  BY <1>1, PoolInvHolds, PTL

(* At most one task runs in a pool whose pause resolved.                   *)
THEOREM PausedNearlyIdleHolds == Spec => []PausedNearlyIdle
<1>1. TypeOK /\ PoolInv => PausedNearlyIdle
  BY DEF TypeOK, LimitsTypeOK, CountsTypeOK, PoolInv, PausedQuiet, RunningCounted,
     PausedNearlyIdle
<1> QED
  BY <1>1, PoolInvHolds, PTL

=============================================================================
