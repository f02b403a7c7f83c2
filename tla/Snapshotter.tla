---------------------------- MODULE Snapshotter ----------------------------
(***************************************************************************)
(* What AutoscaledPool asks the system for: the snapshots that Snapshotter *)
(* takes of memory, event loop, CPU and storage client, and what           *)
(* SystemStatus makes of them.  Times are natural numbers, and a ratio is  *)
(* a number of hundredths, so that no average is rounded.  AutoscaledPool  *)
(* itself leaves the answer open: any status may follow any other.         *)
(***************************************************************************)
EXTENDS Integers, Sequences, SequencesExt

(* The options of Snapshotter.                                             *)
CONSTANTS
    SnapshotHistory,        \* snapshotHistorySecs
    EventLoopInterval,      \* eventLoopSnapshotIntervalSecs
    MaxBlocked,             \* maxBlockedMillis
    MaxUsedMemory,          \* maxUsedMemoryRatio of the memory
    MaxClientErrors         \* maxClientErrors

ASSUME SnapshotterAssumption ==
    {SnapshotHistory, EventLoopInterval, MaxBlocked, MaxUsedMemory, MaxClientErrors} \subseteq Nat

(* Whether the system is overloaded at a time; count is the number of rate *)
(* limit errors the client has seen by then.                               *)
Snapshot(now, overloaded) == [createdAt |-> now, isOverloaded |-> overloaded]

(* Snapshots at the front that are too old are dropped, up to the first    *)
(* that is not.                                                            *)
PruneSnapshots(snapshots, now) ==
    LET kept == {i \in DOMAIN snapshots : now - snapshots[i].createdAt <= SnapshotHistory}
    IN SubSeq(snapshots, Min(kept \cup {Len(snapshots) + 1}), Len(snapshots))

SnapshotMemory(snapshots, now, usedBytes) ==
    Append(PruneSnapshots(snapshots, now), Snapshot(now, usedBytes > MaxUsedMemory))

SnapshotCpu(snapshots, now, isCpuOverloaded) ==
    Append(PruneSnapshots(snapshots, now), Snapshot(now, isCpuOverloaded))

(* The first snapshot there is, or is left, has nothing to be compared     *)
(* with.                                                                   *)
SnapshotEventLoop(snapshots, now) ==
    LET kept == PruneSnapshots(snapshots, now)
        blocked == kept # <<>> /\ now - Last(kept).createdAt - EventLoopInterval > MaxBlocked
    IN Append(kept, Snapshot(now, blocked))

SnapshotClient(snapshots, now, errors) ==
    LET kept == PruneSnapshots(snapshots, now)
        limited == kept # <<>> /\ errors - Last(kept).rateLimitErrorCount > MaxClientErrors
    IN Append(kept, [createdAt |-> now, isOverloaded |-> limited, rateLimitErrorCount |-> errors])

(* The latest snapshots, back to the first that is too old; all of them    *)
(* without a duration.                                                     *)
GetSample(snapshots, duration) ==
    LET tooOld == {i \in DOMAIN snapshots :
                      Last(snapshots).createdAt - snapshots[i].createdAt > duration}
    IN IF duration = 0 THEN snapshots
       ELSE SubSeq(snapshots, Max(tooOld \cup {0}) + 1, Len(snapshots))

(* A snapshot counts with the time since the one before it; the first one  *)
(* does not count, and two at one time count as if one unit were between.  *)
Weight(sample, i) ==
    LET passed == sample[i].createdAt - sample[i - 1].createdAt
    IN IF passed = 0 THEN 1 ELSE passed

TotalWeight(sample, counted) == MapThenSumSet(LAMBDA i : Weight(sample, i), counted)

(* weightedAvg > ratio; the average of no snapshots is NaN, which is not   *)
(* greater than anything.                                                  *)
IsSampleOverloaded(sample, ratio) ==
    LET overloaded == {i \in 2 .. Len(sample) : sample[i].isOverloaded}
    IN 100 * TotalWeight(sample, overloaded) > ratio * TotalWeight(sample, 2 .. Len(sample))

Resources == {"mem", "eventLoop", "cpu", "client"}
IsSystemIdle(snapshots, ratios, duration) ==
    \A r \in Resources : ~IsSampleOverloaded(GetSample(snapshots[r], duration), ratios[r])

GetCurrentStatus(snapshots, ratios, currentHistory) == IsSystemIdle(snapshots, ratios, currentHistory)
GetHistoricalStatus(snapshots, ratios) == IsSystemIdle(snapshots, ratios, 0)
=============================================================================
