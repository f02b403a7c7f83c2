------------------------------- MODULE Actor --------------------------------
(***************************************************************************)
(* The life of an actor's process: Actor.init, reboot and exit, a crawler  *)
(* constructed before or after init, its run() as far as the saving of its *)
(* Statistics goes, the events of the platform, the end of the process and *)
(* the next one, which finds what was saved.                               *)
(***************************************************************************)
EXTENDS Statistics, EventManager

CONSTANTS MaxRuns,       \* bound: run() calls of all the processes
          MaxRestarts,   \* bound: processes after the first
          MaxFaults      \* bound: calls of a store that fail

VARIABLES process,       \* "started", "initialized", "exiting" or, at last, "ended"
          captured,      \* the event manager the crawler got, or "none"
          crawl,         \* where run() is
          paused,        \* the pool is paused
          pausing,       \* _pauseOnMigration waits for the pool
          left,          \* a pool has ended with tasks in progress
          rebooting,     \* what reboot() waits for: of its listeners
          announced,     \* "none", "migrating" or "aborting"; bound: one of them
          runs, restarts, faults

lifeVars == <<process, captured, crawl, paused, pausing, left, rebooting, announced>>
counters == <<runs, restarts, faults>>
vars == <<atHome, statsVars, events, lifeVars, counters>>

Alive == process # "ended"
Works == Alive /\ crawl = "running"
Loading == crawl = "loading"
InStore == <<stats, jobs, opened, file, acked>>    \* what PersistState leaves alone

Init ==
    /\ atHome \in BOOLEAN
    /\ StatsInit /\ EventsInit
    /\ process = "started" /\ captured = "none" /\ crawl = "idle"
    /\ paused = FALSE /\ pausing = FALSE /\ left = FALSE
    /\ rebooting = {} /\ announced = "none"
    /\ runs = 0 /\ restarts = 0 /\ faults = 0

\* init(): from here on the configuration gives out the platform's manager,
\* if the actor is at home; elsewhere it purges the storage, unless told not
\* to (the client of the platform has no purge).
ActorInit ==
    /\ process = "started"
    /\ process' = "initialized"
    /\ InitEvents(atHome)
    /\ \E purge \in BOOLEAN : IF purge /\ ~atHome THEN Purge ELSE UNCHANGED statsVars
    /\ UNCHANGED <<atHome, captured, crawl, paused, pausing, left, rebooting, announced, counters>>

\* A crawler takes the manager the configuration has when it is constructed,
\* and listens to "migrating" and "aborting" from then on.
Construct ==
    /\ Alive /\ captured = "none"
    /\ captured' = IF atHome /\ process # "started" THEN "platform" ELSE "local"
    /\ UNCHANGED <<atHome, statsVars, events, process, crawl, paused, pausing, left, rebooting,
                   announced, counters>>

(***************************************************************************)
(* run(): _init, startCapturing, the pool, teardown, stopCapturing.        *)
(***************************************************************************)
Crawls(from, to) ==
    /\ Alive /\ crawl = from /\ crawl' = to
    /\ UNCHANGED <<atHome, process, captured, pausing, rebooting, announced, restarts>>

\* A new pool, not paused; KeyValueStore.open is awaited the first time.
Run ==
    /\ captured # "none" /\ runs < MaxRuns
    /\ \E from \in {"idle", "returned", "rejected"} :
          Crawls(from, IF opened THEN "loading" ELSE "opening")
    /\ runs' = runs + 1
    /\ paused' = FALSE
    /\ UNCHANGED <<statsVars, events, left, faults>>

OpenStore ==
    /\ Crawls("opening", "loading")
    /\ opened' = TRUE
    /\ UNCHANGED <<stats, jobs, file, acked, saveVars, events, paused, left, runs, faults>>

StartCapturing ==
    /\ Crawls("loading", "running")
    /\ MaybeLoadStatistics
    /\ On(captured, "statistics")
    /\ unsure' = (unsure \/ Sending)
    /\ UNCHANGED <<jobs, opened, store, file, filing, writes, acked, paused, left, runs, faults>>

\* A task of the pool, or one that an aborted pool has left: it may have been
\* fetching its request when the pool was paused or aborted.
Job ==
    /\ Works \/ (Alive /\ left)
    /\ StartJob \/ EndJob
    /\ UNCHANGED <<atHome, opened, file, acked, saveVars, events, lifeVars, counters>>

\* The pool has run out of requests (a paused pool does not look); or abort()
\* was called, or a task threw, and other tasks are left in their current state.
PoolEnds ==
    /\ \/ ~paused /\ jobs = 0 /\ UNCHANGED left
       \/ left' = TRUE
    /\ Crawls("running", "tearing")
    /\ UNCHANGED <<statsVars, events, paused, runs, faults>>

\* The session pool is torn down; then the last state is saved.
StopCapturingNoAwait ==
    /\ Crawls("tearing", "returned")
    /\ Off(captured, "statistics")
    /\ PersistState("stop", Loading)
    /\ UNCHANGED <<InStore, paused, left, runs, faults>>

StopCapturing ==
    /\ Crawls("tearing", "stopping")
    /\ Off(captured, "statistics")
    /\ PersistState("stop", Loading)
    /\ UNCHANGED <<InStore, paused, left, runs, faults>>

TeardownFails ==
    /\ faults < MaxFaults /\ faults' = faults + 1
    /\ Crawls("tearing", "rejected")
    /\ UNCHANGED <<statsVars, events, paused, left, runs>>

(***************************************************************************)
(* Events.                                                                 *)
(***************************************************************************)
\* The interval of persistState: the statistics save themselves if they hear.
Tick(m) ==
    /\ Alive /\ Ticks(m)
    /\ Hears(m, "statistics")
    /\ PersistState("interval", Loading)
    /\ UNCHANGED <<atHome, InStore, events, lifeVars, counters>>

\* _pauseOnMigration pauses a pool that exists and waits; without a pool it
\* goes on to save.
Pauses == /\ paused' = (paused \/ crawl # "idle")
          /\ pausing' = TRUE

\* "migrating" calls its listeners, then those of persistState.
Migrating ==
    /\ Alive /\ Receives("platform") /\ announced = "none"
    /\ announced' = "migrating"
    /\ StopsTicking("platform")
    /\ IF captured = "platform" THEN Pauses ELSE UNCHANGED <<paused, pausing>>
    /\ IF Hears("platform", "statistics") THEN PersistState("migrating", Loading)
       ELSE UNCHANGED saveVars
    /\ UNCHANGED <<atHome, InStore, process, captured, crawl, left, rebooting, counters>>

Aborting ==
    /\ Alive /\ Receives("platform") /\ captured = "platform" /\ announced = "none"
    /\ announced' = "aborting"
    /\ Pauses
    /\ UNCHANGED <<atHome, statsVars, events, process, captured, crawl, left, rebooting, counters>>

\* The pool is idle, or SAFE_MIGRATION_WAIT_MILLIS have passed.
PauseEnds ==
    /\ Alive /\ pausing
    /\ pausing' = FALSE
    /\ PersistState("pause", Loading)
    /\ UNCHANGED <<atHome, InStore, events, process, captured, crawl, paused, left, rebooting,
                   announced, counters>>

\* reboot() calls both kinds of listeners itself and awaits them.
Reboot ==
    /\ process = "initialized" /\ atHome /\ rebooting = {} /\ ~pausing
    /\ captured = "platform" /\ Hears("platform", "statistics")
    /\ rebooting' = {"reboot", "pause"}
    /\ Pauses
    /\ PersistState("reboot", Loading)
    /\ UNCHANGED <<atHome, InStore, events, process, captured, crawl, left, announced, counters>>

(***************************************************************************)
(* The end of the process, at which the next one starts, if there is one:  *)
(* it has what was saved.                                                  *)
(***************************************************************************)
Ends ==
    /\ process' = IF restarts < MaxRestarts THEN "started" ELSE "ended"
    /\ restarts' = restarts + 1 /\ UNCHANGED runs
    /\ captured' = "none" /\ crawl' = "idle"
    /\ paused' = FALSE /\ pausing' = FALSE /\ left' = FALSE
    /\ rebooting' = {} /\ announced' = "none"
    /\ Leave
    /\ UNCHANGED atHome
    /\ events' = [m \in Managers |-> NoEvents]

\* exit() closes the events and gives listeners some seconds.
Exit ==
    /\ process = "initialized"
    /\ process' = "exiting"
    /\ CloseEvents
    /\ UNCHANGED <<atHome, statsVars, captured, crawl, paused, pausing, left, rebooting,
                   announced, counters>>

\* process.exit, or the platform stops the container at any time.
Stops == Alive /\ Ends /\ UNCHANGED faults

(***************************************************************************)
(* Answers of the store.                                                   *)
(***************************************************************************)
Landing(by) ==
    /\ Lands(by)
    /\ UNCHANGED <<atHome, events, lifeVars, counters>>

WriteFile ==
    /\ Filed
    /\ UNCHANGED <<atHome, events, lifeVars, counters>>

\* Who awaited goes on; run() returns, or rejects with what a task threw.
Returning(by) ==
    /\ Returns(by)
    /\ ~(rebooting = {by})
    /\ crawl' = IF by = "stop" THEN "returned" ELSE crawl
    /\ rebooting' = rebooting \ {by}
    /\ UNCHANGED <<atHome, events, process, captured, paused, pausing, left, announced, counters>>

\* All that reboot() called is done: metamorph ends the container.
Metamorph == /\ \E by \in Callers : rebooting = {by} /\ writes[by].pc = "landed"
             /\ Ends
             /\ UNCHANGED faults

\* setValue rejects: run() and reboot() reject.
Rejects(by) ==
    /\ writes[by] # NoWrite
    /\ faults < MaxFaults /\ faults' = faults + 1
    /\ by = "stop" \/ by \in rebooting
    /\ writes' = [writes EXCEPT ![by] = NoWrite]
    /\ crawl' = IF by = "stop" THEN "rejected" ELSE crawl
    /\ rebooting' = IF by = "stop" THEN rebooting ELSE {}
    /\ UNCHANGED <<atHome, InStore, store, filing, unsure, events, process, captured, paused,
                   pausing, left, announced, runs, restarts>>

\* Of a listener that an event has called nobody handles the rejection.
Unhandled(by) ==
    /\ writes[by] # NoWrite
    /\ faults < MaxFaults /\ faults' = faults + 1
    /\ by # "stop" /\ by \notin rebooting
    /\ Ends

Crawler == Run \/ OpenStore \/ StartCapturing \/ Job \/ PoolEnds \/ StopCapturing
             \/ TeardownFails
Next ==
    \/ ActorInit \/ Construct \/ Crawler
    \/ Migrating \/ Aborting \/ PauseEnds \/ Reboot
    \/ Exit \/ Stops \/ Metamorph \/ WriteFile
    \/ \E m \in Managers : Tick(m)
    \/ \E by \in Callers : Landing(by) \/ Returning(by) \/ Rejects(by) \/ Unhandled(by)

Spec == Init /\ [][Next]_vars

\* Timers fire and requests are answered; nothing else is promised.
Fairness ==
    /\ \A m \in Managers : WF_vars(Tick(m))
    /\ \A by \in Callers : WF_vars(Landing(by)) /\ WF_vars(Returning(by))

FairSpec == Spec /\ Fairness

(***************************************************************************)
(* Properties.                                                             *)
(***************************************************************************)

\* A state whose saving was answered is not lost again, over all that writes
\* the record later and over restarts: the record never has fewer jobs, until
\* an init() off the platform purges it, and unless a save overlaps another, a
\* loading of the record or a purge, or the process ends before the worker of
\* the memory storage has written it, or a save was made before the saved
\* state was loaded (statistics.ts persistState, basic-crawler.ts
\* _pauseOnMigration, actor.ts init).
NothingAcknowledgedLost ==
    unsure \/ store.ended >= acked

\* When run() has returned, the record is what the statistics say, with the
\* same exceptions, until the crawler runs again, and unless a pool was aborted,
\* whose tasks end later.
ReturnedMeansSaved ==
    Alive /\ crawl = "returned" /\ ~unsure /\ ~left => store = stats

\* Work that a running crawl has counted gets saved without waiting for the
\* end of the crawl, if the crawler was constructed after init() at home,
\* unless a migration, an exit or the end of the process comes first.
SavedEventually ==
    \A n \in 1 .. MaxJobs :
        Works /\ captured = "platform" /\ stats.ended >= n
          ~> store.ended >= n \/ announced = "migrating" \/ process # "initialized" \/ crawl # "running"
=============================================================================
