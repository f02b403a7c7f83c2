------------------------------- MODULE MCPool -------------------------------
(* Small pools, and the status of the system they ask for, calculated for  *)
(* every short series of readings.                                         *)
EXTENDS AutoscaledPool, Snapshotter

JustOne == {1}

NothingSet == {}

AllFaults == {"isTaskReady", "isFinished", "runTask"}

-----------------------------------------------------------------------------
(* Readings of the CPU and of the event loop, some time apart.             *)
Readings == UNION {[1 .. n -> [gap : 0 .. 3, overloaded : BOOLEAN]] : n \in 0 .. 4}

Takes(taken, reading) ==
    LET now == taken.now + reading.gap
    IN [now |-> now,
        cpu |-> SnapshotCpu(taken.cpu, now, reading.overloaded),
        eventLoop |-> SnapshotEventLoop(taken.eventLoop, now)]

Taken(readings) == FoldLeft(Takes, [now |-> 0, cpu |-> <<>>, eventLoop |-> <<>>], readings)

Histories == {Taken(readings) : readings \in Readings}

(* No snapshot outlives snapshotHistorySecs (_pruneSnapshots), and the     *)
(* newest is there.                                                        *)
HistoryIsKept(snapshots, now) ==
    /\ \A i \in DOMAIN snapshots : now - snapshots[i].createdAt <= SnapshotHistory
    /\ snapshots # <<>> => Last(snapshots).createdAt = now

(* _getSample: exactly the snapshots of the last so many milliseconds.     *)
SampleIsRecent(snapshots, duration) ==
    GetSample(snapshots, duration) =
        SelectSeq(snapshots, LAMBDA s : Last(snapshots).createdAt - s.createdAt <= duration)

(* "calculated using a weighted average of overloaded messages in the      *)
(* snapshots, with the weights being the time intervals between the        *)
(* snapshots" (SystemStatus): the share of the time between the first and  *)
(* the last snapshot that lies before an overloaded one.                   *)
Covered(snapshots) == (snapshots[1].createdAt + 1) .. Last(snapshots).createdAt
ClosedBy(snapshots, t) ==
    snapshots[Min({i \in DOMAIN snapshots : snapshots[i].createdAt >= t})]
IsShareOfTime(snapshots, ratio) ==
    LET overloaded == {t \in Covered(snapshots) : ClosedBy(snapshots, t).isOverloaded}
    IN IsSampleOverloaded(snapshots, ratio)
          <=> 100 * Cardinality(overloaded) > ratio * Cardinality(Covered(snapshots))

Strict(snapshots) ==
    \A i \in 2 .. Len(snapshots) : snapshots[i - 1].createdAt < snapshots[i].createdAt

(* The event loop is overloaded when a snapshot came later than the        *)
(* interval and maxBlockedMillis allow, whatever was pruned before.        *)
BlockedIsSeen(snapshots) ==
    \A i \in 2 .. Len(snapshots) :
        snapshots[i].isOverloaded
            <=> snapshots[i].createdAt - snapshots[i - 1].createdAt
                    > EventLoopInterval + MaxBlocked

ASSUME StatusIsRight ==
    \A h \in Histories :
        /\ HistoryIsKept(h.cpu, h.now)
        /\ BlockedIsSeen(h.eventLoop)
        /\ \A duration \in 1 .. 4 : SampleIsRecent(h.cpu, duration)
        /\ \A ratio \in {20, 40, 60} :
              h.cpu # <<>> /\ Strict(h.cpu) => IsShareOfTime(h.cpu, ratio)

(* Less than two snapshots never overload the system.                      *)
ASSUME NoSnapshotsNoOverload ==
    \A h \in Histories, ratio \in {0, 20} :
        Len(h.cpu) < 2 => ~IsSampleOverloaded(h.cpu, ratio)
=============================================================================
