--------------------------- MODULE AutoscaledPool ---------------------------
(***************************************************************************)
(* AutoscaledPool of packages/core: runs tasks while there are some ready, *)
(* as many at a time as the system copes with, until the user's            *)
(* isFinishedFunction says that there is nothing left to do.               *)
(*                                                                         *)
(* An action is the code between two awaits.  _maybeRunTask is called by   *)
(* an interval, which waits for its callback before it ticks again, and by *)
(* setImmediate.  The user's three functions stand at the end: tasks take  *)
(* the work that is ready, one piece each, and only a task that has a      *)
(* piece may add more, as the requests of a crawler do.                    *)
(***************************************************************************)
EXTENDS Integers, Functions

CONSTANTS
    MinConcurrency, MaxConcurrency, DesiredConcurrency,   \* the options
    Settable,             \* values the setters of these three may be given
    ScaleUpPercent,       \* 100 * scaleUpStepRatio
    ScaleDownPercent,     \* 100 * scaleDownStepRatio
    DesiredPercent,       \* 100 * desiredConcurrencyRatio
    MaxTasksPerMinute,    \* the option, or Infinity
    Infinity,
    Seconds,              \* length of the window of maxTasksPerMinute, 60
    MaxWork,              \* bound: pieces of work that ever exist
    MaxPauses,            \* bound: calls of pause
    Faults                \* what may throw: "isTaskReady", "isFinished", "runTask"

ASSUME PoolAssumption ==
    /\ {MinConcurrency, MaxConcurrency, DesiredConcurrency} \subseteq Nat \ {0}
    /\ MinConcurrency <= DesiredConcurrency
    /\ DesiredConcurrency <= MaxConcurrency
    /\ Settable \subseteq Nat \ {0}
    /\ {ScaleUpPercent, ScaleDownPercent, DesiredPercent} \subseteq 0 .. 100
    /\ MaxTasksPerMinute \in (Nat \ {0}) \cup {Infinity}
    /\ Seconds \in Nat \ {0}
    /\ MaxWork \in Nat
    /\ MaxPauses \in Nat
    /\ Faults \subseteq {"isTaskReady", "isFinished", "runTask"}

VARIABLES
    minConcurrency, maxConcurrency, desiredConcurrency,
    currentConcurrency,   \* tasks started and not finished, or failed
    isStopped,
    queryingIsTaskReady,
    queryingIsFinished,
    asks,                 \* caller -> its isTaskReadyFunction call
    finishAsk,            \* the isFinishedFunction call
    immediates,           \* setImmediate(_maybeRunTask) not run yet
    intervals,            \* TRUE: the three intervals are set
    tasksPerMinute,       \* second of the window -> tasks started
    promise,              \* how poolPromise is settled
    live,                 \* this.resolve and this.reject are not null
    run,                  \* where run() is
    pausing,              \* the promise of pause, while it lasts
    pauses,               \* counter of the bound
    work, fresh, busy,    \* pieces of work ready, tasks without and with one
    existed               \* pieces of work that have existed

limitVars == <<minConcurrency, maxConcurrency, desiredConcurrency>>
askVars == <<queryingIsTaskReady, asks>>
finishVars == <<queryingIsFinished, finishAsk>>
runVars == <<promise, live, run, intervals>>
stopVars == <<isStopped, pausing, pauses>>
taskVars == <<work, fresh, busy, existed>>
vars == <<limitVars, currentConcurrency, askVars, finishVars, immediates,
          tasksPerMinute, runVars, stopVars, taskVars>>

Callers == {"interval", "immediate"}

PoolInit ==
    /\ minConcurrency = MinConcurrency
    /\ maxConcurrency = MaxConcurrency
    /\ desiredConcurrency = DesiredConcurrency
    /\ currentConcurrency = 0
    /\ isStopped = FALSE
    /\ queryingIsTaskReady = FALSE
    /\ queryingIsFinished = FALSE
    /\ asks = [c \in Callers |-> "none"]
    /\ finishAsk = "none"
    /\ immediates = 0
    /\ intervals = FALSE
    /\ tasksPerMinute = [s \in 1 .. Seconds |-> 0]
    /\ promise = "none"
    /\ live = FALSE
    /\ run = "new"
    /\ pausing = "none"
    /\ pauses = 0
    /\ work \in 0 .. MaxWork
    /\ existed = work
    /\ fresh = 0
    /\ busy = 0

-----------------------------------------------------------------------------
(* this.resolve or this.reject, if there: the first call settles.          *)
Settle(how) == promise' = IF live /\ promise = "pending" THEN how ELSE promise

(* run() up to its first await, the start of the snapshotter.              *)
Run ==
    /\ run = "new"
    /\ run' = "starting"
    /\ promise' = "pending"
    /\ live' = TRUE
    /\ UNCHANGED <<limitVars, currentConcurrency, askVars, finishVars, immediates,
                   tasksPerMinute, intervals, stopVars, taskVars>>

(* The snapshotter runs, whatever happened meanwhile.                      *)
Started ==
    /\ run = "starting"
    /\ run' = "running"
    /\ intervals' = TRUE
    /\ UNCHANGED <<limitVars, currentConcurrency, askVars, finishVars, immediates,
                   tasksPerMinute, promise, live, stopVars, taskVars>>

(* poolPromise is settled, and run() destroys the pool unless abort did.   *)
RunEnds ==
    /\ run = "running"
    /\ promise # "pending"
    /\ run' = "done"
    /\ live' = FALSE
    /\ intervals' = IF live THEN FALSE ELSE intervals
    /\ UNCHANGED <<limitVars, currentConcurrency, askVars, finishVars, immediates,
                   tasksPerMinute, promise, stopVars, taskVars>>

Abort ==
    /\ isStopped' = TRUE
    /\ Settle("aborted")
    /\ live' = FALSE
    /\ intervals' = IF live THEN FALSE ELSE intervals
    /\ UNCHANGED <<limitVars, currentConcurrency, askVars, finishVars, immediates,
                   tasksPerMinute, run, pausing, pauses, taskVars>>

(* A stopped pool is left as it is.  The promise is followed until the     *)
(* pool is resumed.                                                        *)
Pause ==
    /\ ~isStopped
    /\ pauses < MaxPauses
    /\ pauses' = pauses + 1
    /\ isStopped' = TRUE
    /\ pausing' = "waiting"
    /\ UNCHANGED <<limitVars, currentConcurrency, askVars, finishVars, immediates,
                   tasksPerMinute, runVars, taskVars>>

(* The interval of pause finds no task running, or its timeout is first.   *)
PauseEnds ==
    /\ pausing = "waiting"
    /\ \/ currentConcurrency <= 0 /\ pausing' = "resolved"
       \/ pausing' = "rejected"
    /\ UNCHANGED <<limitVars, currentConcurrency, askVars, finishVars, immediates,
                   tasksPerMinute, runVars, isStopped, pauses, taskVars>>

Resume ==
    /\ isStopped
    /\ isStopped' = FALSE
    /\ pausing' = "none"
    /\ UNCHANGED <<limitVars, currentConcurrency, askVars, finishVars, immediates,
                   tasksPerMinute, runVars, pauses, taskVars>>

(* The setters check nothing.                                              *)
SetConcurrency ==
    /\ \E v \in Settable :
        \/ minConcurrency' = v /\ UNCHANGED <<maxConcurrency, desiredConcurrency>>
        \/ maxConcurrency' = v /\ UNCHANGED <<minConcurrency, desiredConcurrency>>
        \/ desiredConcurrency' = v /\ UNCHANGED <<minConcurrency, maxConcurrency>>
    /\ UNCHANGED <<currentConcurrency, askVars, finishVars, immediates, tasksPerMinute,
                   runVars, stopVars, taskVars>>

-----------------------------------------------------------------------------
(* The tasks started in the window, against the limit.                     *)
IsOverMaxRequestLimit ==
    /\ MaxTasksPerMinute # Infinity
    /\ FoldFunction(LAMBDA m, n : m + n, 0, tasksPerMinute) >= MaxTasksPerMinute

(* A second passes: the oldest leaves the window.  Nobody counts without   *)
(* a limit.                                                                *)
IncrementTasksDonePerSecond ==
    /\ intervals
    /\ MaxTasksPerMinute # Infinity
    /\ tasksPerMinute' = [s \in 1 .. Seconds |-> IF s = 1 THEN 0 ELSE tasksPerMinute[s - 1]]
    /\ UNCHANGED <<limitVars, currentConcurrency, askVars, finishVars, immediates,
                   runVars, stopVars, taskVars>>

(* _maybeRunTask may look for a task.  Mutant: it is not looked whether    *)
(* another call does.                                                      *)
MayAskTwice(isSystemIdle) ==
    /\ ~isStopped
    /\ currentConcurrency < desiredConcurrency
    /\ isSystemIdle \/ currentConcurrency < minConcurrency

(* Mutant: it is not looked whether the pool is stopped.                   *)
MayAskStopped(isSystemIdle) ==
    /\ ~queryingIsTaskReady
    /\ currentConcurrency < desiredConcurrency
    /\ isSystemIdle \/ currentConcurrency < minConcurrency

MayAsk(isSystemIdle) ==
    /\ ~isStopped
    /\ ~queryingIsTaskReady
    /\ currentConcurrency < desiredConcurrency
    /\ isSystemIdle \/ currentConcurrency < minConcurrency

(***************************************************************************)
(* _maybeRunTask up to its await: it returns, or asks whether a task is    *)
(* ready.  The status of the system may be anything.                       *)
(***************************************************************************)
MaybeRunTask(c) ==
    /\ IF c = "interval" THEN intervals /\ asks[c] = "none" /\ UNCHANGED immediates
                         ELSE immediates > 0 /\ immediates' = immediates - 1
    /\ \E isSystemIdle \in BOOLEAN :
         IF MayAsk(isSystemIdle)
         THEN queryingIsTaskReady' = TRUE /\ asks' = [asks EXCEPT ![c] = "asked"]
         ELSE UNCHANGED askVars
    /\ UNCHANGED <<limitVars, currentConcurrency, finishVars, tasksPerMinute, runVars,
                   stopVars, taskVars>>

(* The call is over and the next may ask.  Mutant: none ever may again.    *)
KeepsAsking(c) == asks' = [asks EXCEPT ![c] = "none"] /\ UNCHANGED queryingIsTaskReady

StopsAsking(c) == asks' = [asks EXCEPT ![c] = "none"] /\ queryingIsTaskReady' = FALSE

(* _maybeFinish up to its await.                                           *)
MaybeFinish ==
    IF queryingIsFinished \/ currentConcurrency > 0
    THEN UNCHANGED finishVars
    ELSE queryingIsFinished' = TRUE /\ finishAsk' = "asked"

(* isTaskReadyFunction answered or threw: nothing is ready.                *)
NoTaskReady(c) ==
    /\ \/ asks[c] = "notReady" /\ UNCHANGED promise
       \/ asks[c] = "failed" /\ Settle("failed")
    /\ StopsAsking(c)
    /\ MaybeFinish
    /\ UNCHANGED <<limitVars, currentConcurrency, immediates, tasksPerMinute, live, run,
                   intervals, stopVars, taskVars>>

(* A task is ready: unless too many were started lately, it is started.    *)
TaskReady(c) ==
    /\ asks[c] = "ready"
    /\ StopsAsking(c)
    /\ IF IsOverMaxRequestLimit
       THEN UNCHANGED <<currentConcurrency, tasksPerMinute, immediates, fresh>>
       ELSE /\ currentConcurrency' = currentConcurrency + 1
            /\ tasksPerMinute' = IF MaxTasksPerMinute = Infinity THEN tasksPerMinute
                                 ELSE [tasksPerMinute EXCEPT ![1] = @ + 1]
            /\ immediates' = immediates + 1
            /\ fresh' = fresh + 1
    /\ UNCHANGED <<limitVars, finishVars, runVars, stopVars, work, busy, existed>>

(***************************************************************************)
(* What the pool makes of the answer of isFinishedFunction.  Mutant: that  *)
(* no task was ready is enough.                                            *)
(***************************************************************************)
FinishesAnyway ==
    IF finishAsk = "failed" THEN Settle("failed") ELSE Settle("finished")

FinishesIf ==
    IF finishAsk = "no" THEN UNCHANGED promise
    ELSE Settle(IF finishAsk = "yes" THEN "finished" ELSE "failed")

FinishAnswered ==
    /\ finishAsk \in {"yes", "no", "failed"}
    /\ FinishesIf
    /\ queryingIsFinished' = FALSE
    /\ finishAsk' = "none"
    /\ UNCHANGED <<limitVars, currentConcurrency, askVars, immediates, tasksPerMinute,
                   live, run, intervals, stopVars, taskVars>>

(* A task ends, or throws (or runs longer than taskTimeoutSecs): a failed  *)
(* one fails the pool and keeps its place in currentConcurrency.           *)
TaskEnds ==
    \/ /\ currentConcurrency' = currentConcurrency - 1
       /\ immediates' = immediates + 1
       /\ UNCHANGED promise
    \/ /\ "runTask" \in Faults
       /\ Settle("failed")
       /\ UNCHANGED <<currentConcurrency, immediates>>

-----------------------------------------------------------------------------
(* _autoscale, with steps of at least one.                                 *)
StepOf(percent) == (desiredConcurrency * percent + 99) \div 100

ScaleUp ==
    LET wanted == desiredConcurrency + StepOf(ScaleUpPercent)
    IN desiredConcurrency' = IF wanted < maxConcurrency THEN wanted ELSE maxConcurrency

ScaleDown ==
    LET wanted == desiredConcurrency - StepOf(ScaleDownPercent)
    IN desiredConcurrency' = IF wanted > minConcurrency THEN wanted ELSE minConcurrency

Autoscale ==
    /\ intervals
    /\ ~isStopped
    /\ ~IsOverMaxRequestLimit
    /\ \/ /\ desiredConcurrency < maxConcurrency
          /\ currentConcurrency >= (desiredConcurrency * DesiredPercent) \div 100
          /\ ScaleUp
       \/ /\ desiredConcurrency > minConcurrency
          /\ ScaleDown
    /\ UNCHANGED <<minConcurrency, maxConcurrency, currentConcurrency, askVars,
                   finishVars, immediates, tasksPerMinute, runVars, stopVars, taskVars>>

-----------------------------------------------------------------------------
(***************************************************************************)
(* The user's functions.  Their answers are right when they are given, and *)
(* may be out of date when the pool resumes with them.                     *)
(***************************************************************************)
IsTaskReadyFunction(c) ==
    /\ asks[c] = "asked"
    /\ \/ asks' = [asks EXCEPT ![c] = IF work > 0 THEN "ready" ELSE "notReady"]
       \/ "isTaskReady" \in Faults /\ asks' = [asks EXCEPT ![c] = "failed"]
    /\ UNCHANGED <<limitVars, currentConcurrency, queryingIsTaskReady, finishVars,
                   immediates, tasksPerMinute, runVars, stopVars, taskVars>>

IsFinishedFunction ==
    /\ finishAsk = "asked"
    /\ \/ finishAsk' = IF work = 0 /\ busy = 0 THEN "yes" ELSE "no"
       \/ "isFinished" \in Faults /\ finishAsk' = "failed"
    /\ UNCHANGED <<limitVars, currentConcurrency, askVars, queryingIsFinished,
                   immediates, tasksPerMinute, runVars, stopVars, taskVars>>

(* A task takes a piece of work, and ends at once if there is none.        *)
TaskTakesWork ==
    /\ fresh > 0
    /\ fresh' = fresh - 1
    /\ IF work > 0
       THEN /\ work' = work - 1
            /\ busy' = busy + 1
            /\ UNCHANGED <<currentConcurrency, immediates, promise>>
       ELSE TaskEnds /\ UNCHANGED <<work, busy>>
    /\ UNCHANGED <<limitVars, askVars, finishVars, tasksPerMinute, live, run, intervals,
                   stopVars, existed>>

TaskAddsWork ==
    /\ busy > 0
    /\ existed < MaxWork
    /\ work' = work + 1
    /\ existed' = existed + 1
    /\ UNCHANGED <<limitVars, currentConcurrency, askVars, finishVars, immediates,
                   tasksPerMinute, runVars, stopVars, fresh, busy>>

TaskDone ==
    /\ busy > 0
    /\ busy' = busy - 1
    /\ TaskEnds
    /\ UNCHANGED <<limitVars, askVars, finishVars, tasksPerMinute, live, run, intervals,
                   stopVars, work, fresh, existed>>

-----------------------------------------------------------------------------
UserCalls == Run \/ Abort \/ Pause \/ Resume \/ SetConcurrency

UserFunctions ==
    \/ \E c \in Callers : IsTaskReadyFunction(c)
    \/ IsFinishedFunction
    \/ TaskTakesWork
    \/ TaskAddsWork
    \/ TaskDone

Next ==
    \/ UserCalls
    \/ Started
    \/ RunEnds
    \/ PauseEnds
    \/ \E c \in Callers : MaybeRunTask(c) \/ NoTaskReady(c) \/ TaskReady(c)
    \/ FinishAnswered
    \/ Autoscale
    \/ IncrementTasksDonePerSecond
    \/ UserFunctions

Spec == PoolInit /\ [][Next]_vars

(***************************************************************************)
(* Fairness: the event loop runs what is due, intervals tick, the user's   *)
(* functions answer and tasks end; the user runs the pool and resumes a    *)
(* stopped one.                                                            *)
(***************************************************************************)
Fairness ==
    /\ WF_vars(Run) /\ WF_vars(Resume)
    /\ WF_vars(Started) /\ WF_vars(RunEnds)
    /\ \A c \in Callers : /\ WF_vars(MaybeRunTask(c))
                           /\ WF_vars(NoTaskReady(c) \/ TaskReady(c))
                           /\ WF_vars(IsTaskReadyFunction(c))
    /\ WF_vars(FinishAnswered) /\ WF_vars(IsFinishedFunction)
    /\ WF_vars(IncrementTasksDonePerSecond)
    /\ WF_vars(TaskTakesWork) /\ WF_vars(TaskDone)

FairSpec == Spec /\ Fairness

-----------------------------------------------------------------------------
(* The most that was ever allowed to run at a time.                        *)
AllowedConcurrency(n) == n \in Nat /\ \E m \in Settable \cup {MaxConcurrency} : n <= m

LimitsTypeOK ==
    /\ minConcurrency \in Nat \ {0}
    /\ AllowedConcurrency(maxConcurrency)
    /\ AllowedConcurrency(desiredConcurrency)
    /\ currentConcurrency \in Nat

StateTypeOK ==
    /\ isStopped \in BOOLEAN
    /\ queryingIsTaskReady \in BOOLEAN
    /\ asks \in [Callers -> {"none", "asked", "ready", "notReady", "failed"}]
    /\ queryingIsFinished \in BOOLEAN
    /\ finishAsk \in {"none", "asked", "yes", "no", "failed"}
    /\ promise \in {"none", "pending", "finished", "aborted", "failed"}
    /\ live \in BOOLEAN
    /\ run \in {"new", "starting", "running", "done"}
    /\ intervals \in BOOLEAN
    /\ pausing \in {"none", "waiting", "resolved", "rejected"}

CountsTypeOK ==
    /\ immediates \in Nat
    /\ tasksPerMinute \in [1 .. Seconds -> Nat]
    /\ {pauses, work, fresh, busy, existed} \subseteq Nat

TypeOK == LimitsTypeOK /\ StateTypeOK /\ CountsTypeOK

Asking(c) == asks[c] # "none"

(* At most one isTaskReadyFunction call is out, and the flag says so; the  *)
(* promise is there to settle exactly while someone may; currentConcurrency*)
(* counts the running tasks.                                               *)
OneAsk ==
    /\ queryingIsTaskReady <=> \E c \in Callers : Asking(c)
    /\ ~(Asking("interval") /\ Asking("immediate"))

RunningCounted == fresh + busy <= currentConcurrency

AskedWithRoom ==
    (\E c \in Callers : Asking(c)) => AllowedConcurrency(currentConcurrency + 1)

Drained == work = 0 /\ busy = 0

DrainedWhenFinished ==
    /\ finishAsk = "yes" => Drained
    /\ promise = "finished" => Drained

PausedQuiet ==
    /\ pausing \in {"waiting", "resolved", "rejected"} => isStopped
    /\ pausing = "resolved" =>
        /\ currentConcurrency <= 1
        /\ (\E c \in Callers : Asking(c)) => currentConcurrency = 0

(***************************************************************************)
(* However desiredConcurrency moves while a task is looked for, there are  *)
(* never more tasks running than the largest limit anyone set.             *)
(***************************************************************************)
NeverOverMax == AllowedConcurrency(currentConcurrency)

(***************************************************************************)
(* run() resolves as finished only when no work is ready and no task has   *)
(* any, however old the answers it acts on are.                            *)
(***************************************************************************)
FinishedMeansDone == promise = "finished" => work = 0 /\ busy = 0

(***************************************************************************)
(* After pause() resolved and until the pool is resumed, at most one task  *)
(* runs: the one that was being looked for when the pool was stopped.      *)
(***************************************************************************)
PausedNearlyIdle == pausing = "resolved" => fresh + busy <= 1

(* After abort or pause no new task is started ("no more new tasks will be *)
(* spawned").  The code does not keep this: see the README.                *)
NoStartWhenStopped == [][currentConcurrency' > currentConcurrency => ~isStopped]_vars

(* run() returns in the end: finished, aborted or failed.                  *)
RunSettles == <>(promise \in {"finished", "aborted", "failed"})

PoolInv ==
    /\ OneAsk
    /\ RunningCounted
    /\ AskedWithRoom
    /\ NeverOverMax
    /\ DrainedWhenFinished
    /\ PausedQuiet

=============================================================================
