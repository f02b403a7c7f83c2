----------------------------- MODULE Statistics -----------------------------
(***************************************************************************)
(* Statistics of one crawler: the counters of its jobs, and the record     *)
(* SDK_CRAWLER_STATISTICS_* of the key-value store they are saved to and   *)
(* loaded from.  Durations and times are left out.                         *)
(***************************************************************************)
EXTENDS Integers, FiniteSets

CONSTANTS MaxJobs,     \* bound: jobs ended, over all the runs
          MaxSaves     \* bound: setValue calls on their way

VARIABLES atHome,      \* on the platform: the store is remote
          stats,       \* state
          jobs,        \* how many requestsInProgress has
          opened,      \* keyValueStore is set
          store,       \* the record saved, as this process finds it
          file,        \* off the platform: the record in the directory
          filing,      \* the worker of the memory storage has not written it yet
          writes,      \* setValue calls on their way, by who awaits them
          acked,       \* jobs in the newest record whose setValue returned
          unsure       \* see Overlaps, Purge and Leave

statsVars == <<stats, jobs, opened, store, file, filing, writes, acked, unsure>>
saveVars == <<store, filing, writes, unsure>>    \* what PersistState changes

Callers == {"interval", "migrating", "pause", "reboot", "stop"}
NoWrite == [pc |-> "none"]
Pristine == [ended |-> 0]
NoRecord == [ended |-> 0, absent |-> TRUE]

\* ended stands for requestsFinished and requestsFailed, which BasicCrawler
\* tells apart; requestRetryHistogram is left out.
\* At most one job is in progress, which says enough of Statistics.
StartJob == /\ jobs = 0
            /\ stats.ended + jobs < MaxJobs
            /\ jobs' = jobs + 1
            /\ UNCHANGED stats

EndJob == /\ jobs > 0
          /\ jobs' = jobs - 1
          /\ stats' = [ended |-> stats.ended + 1]

OnTheirWay == {c \in Callers : writes[c] # NoWrite}
Sending == atHome /\ OnTheirWay # {}

\* A setValue call is on its way to a remote store, or the worker writes the
\* former record, when another call is made: which is last is not said.
Overlaps == Sending \/ filing

\* persistState takes the state as it is when it is called.  The memory
\* storage has it in place at once, and tells the worker; a remote store has
\* it in its time.  A save before the saved state is loaded is unsure too.
PersistState(by, loading) ==
    IF ~opened
    THEN UNCHANGED saveVars
    ELSE /\ writes[by] = NoWrite
         /\ Cardinality(OnTheirWay) < MaxSaves
         /\ writes' = [writes EXCEPT ![by] =
                          [pc |-> IF atHome THEN "sent" ELSE "landed", value |-> stats]]
         /\ store' = IF atHome THEN store ELSE stats
         /\ filing' = ~atHome
         /\ unsure' = (unsure \/ Overlaps \/ loading)

Lands(by) == /\ writes[by].pc = "sent"
             /\ writes' = [writes EXCEPT ![by].pc = "landed"]
             /\ store' = writes[by].value
             /\ UNCHANGED <<stats, jobs, opened, file, filing, acked, unsure>>

\* The worker has written the file of the record.
Filed == /\ filing
         /\ filing' = FALSE /\ file' = store
         /\ UNCHANGED <<stats, jobs, opened, store, writes, acked, unsure>>

Returns(by) == /\ writes[by].pc = "landed"
               /\ writes' = [writes EXCEPT ![by] = NoWrite]
               /\ acked' = LET n == writes[by].value.ended IN
                           IF n > acked /\ ~unsure THEN n ELSE acked
               /\ UNCHANGED <<stats, jobs, opened, store, file, filing, unsure>>

\* The counters are set to those of the record, if there is one.
LoadsNothing == UNCHANGED stats

MaybeLoadStatistics ==
    stats' = IF store = NoRecord THEN stats ELSE [ended |-> store.ended]

\* purge() removes the files of the memory storage; a store that is open keeps
\* what it has in memory.  A save that has not returned, or is not written,
\* races with it.
Purge ==
    /\ file' = NoRecord
    /\ store' = IF opened THEN store ELSE NoRecord
    /\ acked' = 0
    /\ unsure' = (unsure \/ filing \/ OnTheirWay # {})
    /\ UNCHANGED <<stats, jobs, opened, filing, writes>>

\* What the end of a process leaves to the next one: off the platform the
\* file, of which the worker may be writing just then.
Leave ==
    /\ stats' = Pristine /\ jobs' = 0 /\ opened' = FALSE /\ filing' = FALSE
    /\ writes' = [c \in Callers |-> NoWrite]
    /\ store' \in IF atHome THEN {store} ELSE IF filing THEN {store, file, NoRecord} ELSE {file}
    /\ file' = IF atHome THEN file ELSE store'
    /\ unsure' = (unsure \/ filing)
    /\ UNCHANGED acked

\* What a new process finds.
StatsInit ==
    /\ stats = Pristine /\ jobs = 0 /\ opened = FALSE
    /\ store = NoRecord /\ file = NoRecord /\ filing = FALSE
    /\ writes = [c \in Callers |-> NoWrite]
    /\ acked = 0 /\ unsure = FALSE
=============================================================================
