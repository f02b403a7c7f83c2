---------------------------- MODULE BasicCrawler ----------------------------
(***************************************************************************)
(* BasicCrawler of packages/basic-crawler: the tasks that an AutoscaledPool *)
(* runs.  A task fetches a request, gives it to the user's requestHandler, *)
(* and marks it as handled or, when the handler failed, reclaims it to be  *)
(* retried or gives it up.                                                 *)
(*                                                                         *)
(* An action is the code between two awaits.  The crawler composes         *)
(*   - RequestList, whose variables and actions it extends;                *)
(*   - a request queue as RequestLease promises it: a request is pending   *)
(*     or handled, and busy while one of the tasks has it;                 *)
(*   - the pool, as far as the crawler's functions see it (AutoscaledPool  *)
(*     has all of it): one isTaskReadyFunction and one isFinishedFunction  *)
(*     call at a time, the latter while no task runs.                      *)
(* Each await on a storage may fail, with or without effect.  A fetch may  *)
(* also time out, be repeated, and be answered late.                       *)
(***************************************************************************)
EXTENDS RequestList

CONSTANTS
    Tasks,                  \* the tasks that may run at a time
    None,                   \* no request
    Linked,                 \* the requests that handlers may add to the queue
    MaxRequestRetries,
    InternalRetries,        \* maxRetries of _timeoutAndRetry, 3
    Limits,                 \* values of maxRequestsPerCrawl, 0: not set
    QueueOptions,           \* values of "the option requestQueue is given"
    CountsHandled,          \* FALSE: the storage's handledRequestCount is
                            \* always 0, as memory-storage leaves it
    Faults,                 \* what may go wrong: a call of the queue by "add",
                            \* "fetch", "update" or "query", the session pool,
                            \* failedRequestHandler ("report"), a fetch
                            \* answered after its timeout ("late"), a
                            \* migration event, a restart of the process
    MaxFailures             \* bound: how often something of Faults happens

ASSUME CrawlerAssumption ==
    /\ IsFiniteSet(Tasks)
    /\ None \notin Requests
    /\ Linked \subseteq Requests
    /\ {MaxRequestRetries, InternalRetries, MaxFailures} \subseteq Nat
    /\ Limits \subseteq Nat
    /\ QueueOptions \subseteq BOOLEAN
    /\ CountsHandled \in BOOLEAN
    /\ Faults \subseteq {"add", "fetch", "update", "query", "session", "report", "late",
                   "migration", "restart"}

VARIABLES
    queueGiven, maxRequestsPerCrawl,            \* options, they do not change
    hasQueue,               \* this.requestQueue is set
    status, busy,           \* the queue: "absent", "pending" or "handled"
    storedRetries,          \* retryCount of the requests in the queue
    listRetries,            \* retryCount of the objects in the list
    pool,                   \* "running", "paused", "finished" or "dead"
    ask, finishAsk,         \* the pool's calls of the crawler's functions
    task,                   \* what _runTaskFunction has of each task
    chain,                  \* calls of _fetchNextRequest, in time and late
    handledRequestsCount,
    jobs,                   \* Statistics: requestsInProgress
    requestsFinished, requestsFailed,
    attempts, processed, gaveUp, closed,        \* history
    failures, lates, restarts                   \* counters of the bounds

queueVars == <<status, busy, storedRetries>>
poolVars == <<pool, ask, finishAsk>>
statsVars == <<jobs, requestsFinished, requestsFailed>>
historyVars == <<attempts, processed, gaveUp, closed>>
boundVars == <<failures, lates, restarts>>
optionVars == <<queueGiven, maxRequestsPerCrawl>>
setupVars == <<optionVars, hasQueue>>
vars == <<listVars, setupVars, queueVars, listRetries, poolVars, task, chain,
          handledRequestsCount, statsVars, historyVars, boundVars>>

Sources == {"list", "queue"}

Kinds == Sources \cup {"stray"}

(* request is the variable of _runTaskFunction, which the callbacks of its *)
(* fetches assign; context is the request of the crawling context, an      *)
(* object of the list if fromList.                                         *)
IdleTask == [pc |-> "idle", source |-> "queue", request |-> None, context |-> None,
             fromList |-> FALSE, retryCount |-> 0, noRetry |-> FALSE, tries |-> 0]

Calls == {"main", "late"}

(* mine: the task that made the call is still running.                     *)
NoChain == [pc |-> "none", item |-> None, mine |-> FALSE]

Both(main, late) == [c \in Calls |-> IF c = "main" THEN main ELSE late]

Disowned(call) == [call EXCEPT !.mine = FALSE]

CrawlerInit ==
    /\ ListInit
    /\ queueGiven \in QueueOptions
    /\ maxRequestsPerCrawl \in Limits
    /\ hasQueue = queueGiven
    /\ status = [r \in Requests |-> "absent"]
    /\ busy = {}
    /\ storedRetries = [r \in Requests |-> 0]
    /\ listRetries = [r \in Requests |-> 0]
    /\ pool = "running"
    /\ ask = "none"
    /\ finishAsk = "none"
    /\ task = [w \in Tasks |-> IdleTask]
    /\ chain = [w \in Tasks |-> Both(NoChain, NoChain)]
    /\ handledRequestsCount = 0
    /\ jobs = {}
    /\ requestsFinished = 0
    /\ requestsFailed = 0
    /\ attempts = [x \in Kinds \X Requests |-> 0]
    /\ processed = {}
    /\ gaveUp = {}
    /\ closed = {}
    /\ failures = 0
    /\ lates = 0
    /\ restarts = 0

Happens(fault) ==
    /\ fault \in Faults
    /\ failures < MaxFailures
    /\ failures' = failures + 1

Fails(fault) == Happens(fault) /\ UNCHANGED <<lates, restarts>>

Running == {w \in Tasks : task[w].pc # "idle"}

(* isMaxPagesExceeded.  Mutant: one page too many.                         *)
MaxPagesPassed ==
    maxRequestsPerCrawl > 0 /\ maxRequestsPerCrawl < handledRequestsCount

MaxPagesExceeded ==
    maxRequestsPerCrawl > 0 /\ maxRequestsPerCrawl <= handledRequestsCount

Available(r) == status[r] = "pending" /\ r \notin busy

(* isFinished of the queue, given that it is right.                        *)
QueueFinished == busy = {} /\ \A r \in Requests : status[r] # "pending"

(***************************************************************************)
(* The functions that the crawler gives to its pool.                       *)
(***************************************************************************)
(* isTaskReadyFunction is called: beyond the limit it says no, otherwise   *)
(* it looks into the list and awaits the queue.                            *)
AskReady ==
    /\ pool = "running"
    /\ ask = "none"
    /\ Running # Tasks
    /\ ask' = IF MaxPagesExceeded THEN "limit" ELSE "asking"
    /\ UNCHANGED <<listVars, setupVars, queueVars, listRetries, pool, finishAsk,
                   task, chain, handledRequestsCount, statsVars, historyVars, boundVars>>

IsTaskReady == ~IsListEmpty \/ (hasQueue /\ \E r \in Requests : Available(r))

(* isFinishedFunction decides on the limit and the list when it is called  *)
(* and awaits the queue.  Mutant: either of the two suffices.              *)
FinishQueryAny ==
    IF MaxPagesExceeded \/ IsListFinished THEN "yes"
    ELSE IF hasQueue THEN "queue" ELSE "no"

FinishQuery ==
    IF MaxPagesExceeded \/ (IsListFinished /\ ~hasQueue) THEN "yes"
    ELSE IF IsListFinished THEN "queue" ELSE "no"

(* The queue resets itself when it was stuck.  Mutant: it does not.        *)
ResetsNothing(reset) == UNCHANGED busy

ResetsQueue(reset) == busy' = IF reset THEN {} ELSE busy

(* No task is ready, so the pool may ask whether the crawl is finished.  A *)
(* queue that had something in progress for too long resets itself then.   *)
NotReady(reset) ==
    /\ \/ ask = "limit"
       \/ ask = "asking" /\ ~IsTaskReady
    /\ ask' = "none"
    /\ LET finishes == Running = {} /\ finishAsk = "none"
           asksQueue == finishes /\ hasQueue /\ ~MaxPagesExceeded
       IN  /\ finishAsk' = IF finishes THEN FinishQuery ELSE finishAsk
           /\ reset => asksQueue /\ busy # {}
           /\ ResetsQueue(reset)
    /\ UNCHANGED <<listVars, setupVars, status, storedRetries, listRetries, pool, task,
                   chain, handledRequestsCount, statsVars, historyVars, boundVars>>

(* The queue may be wrong in saying that it is not finished.               *)
FinishAnswered ==
    /\ finishAsk # "none"
    /\ finishAsk' = "none"
    /\ \/ /\ finishAsk = "yes" \/ (finishAsk = "queue" /\ QueueFinished)
          /\ pool' = IF pool \in {"running", "paused"} THEN "finished" ELSE pool
       \/ /\ finishAsk # "yes"
          /\ UNCHANGED pool
    /\ UNCHANGED <<listVars, setupVars, queueVars, listRetries, ask, task, chain,
                   handledRequestsCount, statsVars, historyVars, boundVars>>

(* isEmpty or isFinished of the queue throws: run() is rejected.           *)
QueryFails ==
    /\ hasQueue
    /\ Fails("query")
    /\ \/ ask = "asking" /\ ask' = "none" /\ UNCHANGED finishAsk
       \/ finishAsk \in {"queue", "no"} /\ finishAsk' = "none" /\ UNCHANGED ask
    /\ pool' = IF pool \in {"running", "paused"} THEN "dead" ELSE pool
    /\ UNCHANGED <<listVars, setupVars, queueVars, listRetries, task, chain,
                   handledRequestsCount, statsVars, historyVars>>

(* A migrating or aborting event pauses the pool; the state of the list is *)
(* persisted afterwards, as on any other occasion.                         *)
PauseOnMigration ==
    /\ pool = "running"
    /\ Fails("migration")
    /\ pool' = "paused"
    /\ UNCHANGED <<listVars, setupVars, queueVars, listRetries, ask, finishAsk, task,
                   chain, handledRequestsCount, statsVars, historyVars>>

(***************************************************************************)
(* Fetching: _fetchNextRequest reads the list, moves what it got to the    *)
(* queue, if there is one, and fetches from the queue.                     *)
(***************************************************************************)
(* A call begins: the list answers at once.                                *)
Reads(item) ==
    IF item = None THEN IsListEmpty /\ UNCHANGED listVars ELSE FetchFromList(item)

Fetching(item, owned) == [pc |-> "listed", item |-> item, mine |-> owned]

(* A task ends; a fetch of its that is still to come finds nobody.         *)
Leaves(w, t) ==
    /\ task' = [task EXCEPT ![w] = t]
    /\ chain' = [chain EXCEPT ![w] = Both(NoChain, Disowned(@["late"]))]

Ends(w) == Leaves(w, IdleTask)

(* The task throws: run() is rejected, and the pool keeps counting it.     *)
Dies(w) ==
    /\ Leaves(w, [IdleTask EXCEPT !.pc = "failed"])
    /\ pool' = IF pool \in {"running", "paused"} THEN "dead" ELSE pool

(* A task is ready; the pool looks no more whether it was stopped.         *)
StartTask(w) ==
    /\ ask = "asking"
    /\ IsTaskReady
    /\ task[w].pc = "idle"
    /\ ask' = "none"
    /\ task' = [task EXCEPT ![w] = [IdleTask EXCEPT !.pc = "fetching",
                    !.source = IF hasQueue THEN "queue" ELSE "list"]]
    /\ \E item \in Requests \cup {None} :
           /\ Reads(item)
           /\ chain' = [chain EXCEPT ![w]["main"] = Fetching(item, TRUE)]
    /\ UNCHANGED <<setupVars, queueVars, listRetries, pool, finishAsk,
                   handledRequestsCount, statsVars, historyVars, boundVars>>

Goes(w, c, place) ==
    /\ chain' = [chain EXCEPT ![w][c].pc = place]
    /\ UNCHANGED task

(* The call returns a request or None, and its callback assigns that to    *)
(* the variable of its task.                                               *)
Returns(w, c, r) ==
    /\ chain' = [chain EXCEPT ![w][c] = NoChain]
    /\ task' = IF c = "main"
               THEN [task EXCEPT ![w].pc = "fetched", ![w].request = r, ![w].tries = 0,
                                 ![w].fromList = ~hasQueue]
               ELSE IF chain[w][c].mine THEN [task EXCEPT ![w].request = r] ELSE task

ListAnswered(w, c) ==
    /\ chain[w][c].pc = "listed"
    /\ \/ ~hasQueue /\ Returns(w, c, chain[w][c].item)
       \/ hasQueue /\ Goes(w, c, IF chain[w][c].item = None THEN "taking" ELSE "adding")
    /\ UNCHANGED <<listVars, setupVars, queueVars, listRetries, poolVars,
                   handledRequestsCount, statsVars, historyVars, boundVars>>

(* addRequest takes effect; a request that is in the queue stays as it is. *)
AddTo(r) ==
    /\ status' = IF status[r] = "absent" THEN [status EXCEPT ![r] = "pending"] ELSE status
    /\ storedRetries' = IF status[r] = "absent"
                        THEN [storedRetries EXCEPT ![r] = listRetries[r]] ELSE storedRetries
    /\ UNCHANGED busy

AddReaches(w, c) ==
    /\ chain[w][c].pc = "adding"
    /\ AddTo(chain[w][c].item)
    /\ Goes(w, c, "added")
    /\ UNCHANGED <<listVars, setupVars, listRetries, poolVars,
                   handledRequestsCount, statsVars, historyVars, boundVars>>

(* The request is in the queue for sure: the list need not keep it.        *)
(* Mutant: the list lets go of it before.                                  *)
AddReturnsEarly(w, c) ==
    /\ chain[w][c].pc \in {"adding", "added"}
    /\ MarkInList(chain[w][c].item)
    /\ Goes(w, c, "taking")
    /\ UNCHANGED <<setupVars, queueVars, listRetries, poolVars,
                   handledRequestsCount, statsVars, historyVars, boundVars>>

AddReturns(w, c) ==
    /\ chain[w][c].pc = "added"
    /\ MarkInList(chain[w][c].item)
    /\ Goes(w, c, "taking")
    /\ UNCHANGED <<setupVars, queueVars, listRetries, poolVars,
                   handledRequestsCount, statsVars, historyVars, boundVars>>

(* The addition fails, before or after its effect: back into the list.     *)
AddFails(w, c) ==
    /\ chain[w][c].pc \in {"adding", "added"}
    /\ Fails("add")
    /\ ReclaimInList(chain[w][c].item)
    /\ Returns(w, c, None)
    /\ UNCHANGED <<setupVars, queueVars, listRetries, poolVars,
                   handledRequestsCount, statsVars, historyVars>>

(* fetchNextRequest of the queue gives a request to this call alone, or    *)
(* null, which it may do although there is one.                            *)
Take(w, c, r) ==
    /\ chain[w][c].pc = "taking"
    /\ Available(r)
    /\ busy' = busy \cup {r}
    /\ Returns(w, c, r)
    /\ UNCHANGED <<listVars, setupVars, status, storedRetries, listRetries, poolVars,
                   handledRequestsCount, statsVars, historyVars, boundVars>>

TakeNothing(w, c) ==
    /\ chain[w][c].pc = "taking"
    /\ Returns(w, c, None)
    /\ UNCHANGED <<listVars, setupVars, queueVars, listRetries, poolVars,
                   handledRequestsCount, statsVars, historyVars, boundVars>>

(* _timeoutAndRetry calls _fetchNextRequest again, or gives up.            *)
FetchesAgain(w, old) ==
    \/ /\ task[w].tries < InternalRetries
       /\ task' = [task EXCEPT ![w].tries = @ + 1]
       /\ \E item \in Requests \cup {None} :
              /\ Reads(item)
              /\ chain' = [chain EXCEPT ![w] = Both(Fetching(item, TRUE), old)]
       /\ UNCHANGED pool
    \/ /\ task[w].tries >= InternalRetries
       /\ task' = [task EXCEPT ![w] = [IdleTask EXCEPT !.pc = "failed"]]
       /\ chain' = [chain EXCEPT ![w] = Both(NoChain, Disowned(old))]
       /\ pool' = IF pool \in {"running", "paused"} THEN "dead" ELSE pool
       /\ UNCHANGED listVars

(* The queue fails to fetch; or the list throws, as another task marked    *)
(* the request there or reclaimed it meanwhile.                            *)
FetchFails(w, c) ==
    /\ \/ chain[w][c].pc = "taking" /\ Fails("fetch")
       \/ /\ ~IsProcessed(chain[w][c].item)
          /\ \/ chain[w][c].pc = "added" /\ UNCHANGED boundVars
             \/ chain[w][c].pc \in {"adding", "added"} /\ Fails("add")
    /\ \/ c = "main" /\ FetchesAgain(w, chain[w]["late"])
       \/ /\ c = "late"
          /\ chain' = [chain EXCEPT ![w][c] = NoChain]
          /\ UNCHANGED <<task, pool, listVars>>
    /\ UNCHANGED <<setupVars, queueVars, listRetries, ask, finishAsk,
                   handledRequestsCount, statsVars, historyVars>>

(* Only the promise times out; the call goes on and its callback will run. *)
FetchTimesOut(w) ==
    /\ Happens("late")
    /\ chain[w]["main"].pc \in {"adding", "added", "taking"}
    /\ chain[w]["late"] = NoChain
    /\ lates' = lates + 1
    /\ UNCHANGED restarts
    /\ FetchesAgain(w, chain[w]["main"])
    /\ UNCHANGED <<setupVars, queueVars, listRetries, ask, finishAsk,
                   handledRequestsCount, statsVars, historyVars>>

(***************************************************************************)
(* A task with the answer of its fetch.                                    *)
(***************************************************************************)
(* Statistics know a job by the id of its request, which only requests     *)
(* from the queue have, else by the uniqueKey.                             *)
Job(t, r) == <<IF t.fromList THEN "list" ELSE "queue", r>>

(* A stray has a request of a queue that was opened after the task began,  *)
(* and will mark it in the list.                                           *)
Kind(t) == IF t.fromList THEN "list" ELSE IF t.source = "list" THEN "stray" ELSE "queue"

(* The session pool gives a session, and the handler is called; without a  *)
(* request the task ends.                                                  *)
StartJob(w) ==
    /\ task[w].pc = "fetched"
    /\ LET r == task[w].request IN
       IF r = None
       THEN Ends(w) /\ UNCHANGED <<jobs, attempts>>
       ELSE /\ task' = [task EXCEPT ![w].pc = "handling", ![w].context = r, ![w].tries = 0,
                  ![w].retryCount = IF task[w].fromList THEN listRetries[r] ELSE storedRetries[r]]
            /\ jobs' = jobs \cup {Job(task[w], r)}
            /\ attempts' = [attempts EXCEPT ![<<Kind(task[w]), r>>] = @ + 1]
            /\ UNCHANGED chain
    /\ UNCHANGED <<listVars, setupVars, queueVars, listRetries, poolVars,
                   handledRequestsCount, requestsFinished, requestsFailed,
                   processed, gaveUp, closed, boundVars>>

SessionFails(w) ==
    /\ task[w].pc = "fetched"
    /\ Fails("session")
    /\ \/ /\ task[w].tries < InternalRetries
          /\ task' = [task EXCEPT ![w].tries = @ + 1]
          /\ UNCHANGED <<chain, pool>>
       \/ task[w].tries >= InternalRetries /\ Dies(w)
    /\ UNCHANGED <<listVars, setupVars, queueVars, listRetries, ask, finishAsk,
                   handledRequestsCount, statsVars, historyVars>>

(* The handler adds a request to the queue, which is opened if need be.    *)
HandlerAdds(w, r) ==
    /\ task[w].pc = "handling"
    /\ status[r] = "absent"
    /\ status' = [status EXCEPT ![r] = "pending"]
    /\ hasQueue' = TRUE
    /\ UNCHANGED <<listVars, optionVars, busy, storedRetries, listRetries, poolVars, task,
                   chain, handledRequestsCount, statsVars, historyVars, boundVars>>

(* The messages prepared for what follows name the url of request: if a    *)
(* late fetch has set that to null, the task throws.                       *)
HandlerReturns(w) ==
    /\ task[w].pc = "handling"
    /\ processed' = processed \cup {task[w].context}
    /\ \/ /\ task[w].request # None
          /\ task' = [task EXCEPT ![w].pc = "marking"]
          /\ UNCHANGED <<chain, pool>>
       \/ task[w].request = None /\ Dies(w)
    /\ UNCHANGED <<listVars, setupVars, queueVars, listRetries, ask, finishAsk,
                   handledRequestsCount, statsVars, attempts, gaveUp, closed, boundVars>>

(* Mutant: one retry too many.                                             *)
ShouldRetryOnce(t) == ~t.noRetry /\ t.retryCount <= MaxRequestRetries

ShouldRetry(t) == ~t.noRetry /\ t.retryCount < MaxRequestRetries

(* _requestFunctionErrorHandler up to its first await, of a task in state  *)
(* t.  The retryCount is that of the request object, which is the list's   *)
(* own unless it came from the queue.                                      *)
HandlesError(w, t, tries) ==
    /\ task' = [task EXCEPT ![w] =
          IF ShouldRetry(t)
          THEN [t EXCEPT !.pc = "reclaiming", !.retryCount = @ + 1, !.tries = tries]
          ELSE [t EXCEPT !.pc = "givingUp", !.tries = tries]]
    /\ handledRequestsCount' = handledRequestsCount + IF ShouldRetry(t) THEN 0 ELSE 1
    /\ gaveUp' = IF ShouldRetry(t) THEN gaveUp ELSE gaveUp \cup {t.context}
    /\ listRetries' = IF ShouldRetry(t) /\ t.fromList
                      THEN [listRetries EXCEPT ![t.context] = t.retryCount + 1]
                      ELSE listRetries

(* The request handler throws or times out.                                *)
HandlerThrows(w, noRetry) ==
    /\ task[w].pc = "handling"
    /\ \/ /\ task[w].request # None
          /\ HandlesError(w, [task[w] EXCEPT !.noRetry = noRetry], 0)
          /\ UNCHANGED <<chain, pool>>
       \/ /\ task[w].request = None
          /\ Dies(w)
          /\ UNCHANGED <<handledRequestsCount, listRetries, gaveUp>>
    /\ UNCHANGED <<listVars, setupVars, queueVars, ask, finishAsk, statsVars,
                   attempts, processed, closed, boundVars>>

(***************************************************************************)
(* markRequestHandled and reclaimRequest of the task's source.             *)
(***************************************************************************)
(* The queue ignores a request that is not in progress.                    *)
SourceMarks(w, r) ==
    \/ /\ task[w].source = "queue"
       /\ status' = IF r \in busy THEN [status EXCEPT ![r] = "handled"] ELSE status
       /\ closed' = IF r \in busy THEN closed \cup {<<"queue", r>>} ELSE closed
       /\ busy' = busy \ {r}
       /\ UNCHANGED <<storedRetries, listVars>>
    \/ /\ task[w].source = "list"
       /\ MarkInList(r)
       /\ closed' = closed \cup {<<"list", r>>}
       /\ UNCHANGED queueVars

(* Mutant: what was reclaimed counts as handled.                           *)
SourceReclaimsHandled(w, r) ==
    \/ /\ task[w].source = "queue"
       /\ status' = IF r \in busy THEN [status EXCEPT ![r] = "handled"] ELSE status
       /\ busy' = busy \ {r}
       /\ UNCHANGED <<storedRetries, listVars>>
    \/ task[w].source = "list" /\ ReclaimInList(r) /\ UNCHANGED queueVars

SourceReclaims(w, r) ==
    \/ /\ task[w].source = "queue"
       /\ status' = IF r \in busy THEN [status EXCEPT ![r] = "pending"] ELSE status
       /\ storedRetries' = IF r \in busy
                           THEN [storedRetries EXCEPT ![r] = task[w].retryCount]
                           ELSE storedRetries
       /\ busy' = busy \ {r}
       /\ UNCHANGED listVars
    \/ task[w].source = "list" /\ ReclaimInList(r) /\ UNCHANGED queueVars

(* The queue's call fails, before or after it wrote newStatus and the      *)
(* retryCount of the request; the list throws if the request is not being  *)
(* processed, both if there is none.                                       *)
SourceThrows(w, r, newStatus) ==
    \/ /\ task[w].source = "queue"
       /\ r \in busy
       /\ Fails("update")
       /\ \/ UNCHANGED <<status, storedRetries>>
          \/ /\ status' = [status EXCEPT ![r] = newStatus]
             /\ storedRetries' = [storedRetries EXCEPT
                    ![r] = IF r = task[w].context THEN task[w].retryCount ELSE @]
       /\ UNCHANGED busy
    \/ /\ r = None \/ (task[w].source = "list" /\ ~IsProcessed(r))
       /\ UNCHANGED <<queueVars, boundVars>>

(* A job is over.  Mutant: it stays among the running ones.                *)
KeepsJob(job) == UNCHANGED jobs

EndsJob(job) == jobs' = jobs \ {job}

(* A step of the error handler throws: all of it is repeated, or the task  *)
(* throws too.                                                             *)
ErrorHandlerThrows(w) ==
    \/ /\ task[w].tries < InternalRetries
       /\ HandlesError(w, task[w], task[w].tries + 1)
       /\ UNCHANGED <<chain, pool>>
    \/ /\ task[w].tries >= InternalRetries
       /\ Dies(w)
       /\ UNCHANGED <<handledRequestsCount, listRetries, gaveUp>>

(* What is marked is the variable, not the request of the context.         *)
MarkReturns(w) ==
    /\ task[w].pc = "marking"
    /\ task[w].request # None
    /\ SourceMarks(w, task[w].request)
    /\ requestsFinished' = requestsFinished
                              + (IF Job(task[w], task[w].context) \in jobs THEN 1 ELSE 0)
    /\ EndsJob(Job(task[w], task[w].context))
    /\ handledRequestsCount' = handledRequestsCount + 1
    /\ Ends(w)
    /\ UNCHANGED <<setupVars, listRetries, poolVars, requestsFailed,
                   attempts, processed, gaveUp, boundVars>>

MarkThrows(w) ==
    /\ task[w].pc = "marking"
    /\ SourceThrows(w, task[w].request, "handled")
    /\ \/ /\ task[w].tries < InternalRetries
          /\ task' = [task EXCEPT ![w].tries = @ + 1]
          /\ UNCHANGED <<chain, pool, handledRequestsCount, listRetries, gaveUp>>
       \/ /\ task[w].tries >= InternalRetries
          /\ task[w].request # None
          /\ HandlesError(w, task[w], 0)
          /\ UNCHANGED <<chain, pool>>
       \/ /\ task[w].tries >= InternalRetries
          /\ task[w].request = None
          /\ Dies(w)
          /\ UNCHANGED <<handledRequestsCount, listRetries, gaveUp>>
    /\ UNCHANGED <<listVars, setupVars, ask, finishAsk, statsVars, attempts, processed, closed>>

ReclaimReturns(w) ==
    /\ task[w].pc = "reclaiming"
    /\ SourceReclaims(w, task[w].context)
    /\ Ends(w)
    /\ UNCHANGED <<setupVars, listRetries, poolVars, handledRequestsCount, statsVars,
                   historyVars, boundVars>>

GiveUpReturns(w) ==
    /\ task[w].pc = "givingUp"
    /\ SourceMarks(w, task[w].context)
    /\ requestsFailed' = requestsFailed
                            + (IF Job(task[w], task[w].context) \in jobs THEN 1 ELSE 0)
    /\ EndsJob(Job(task[w], task[w].context))
    /\ task' = [task EXCEPT ![w].pc = "reporting"]
    /\ UNCHANGED <<setupVars, listRetries, poolVars, chain, handledRequestsCount,
                   requestsFinished, attempts, processed, gaveUp, boundVars>>

SourceFailsError(w) ==
    /\ \/ task[w].pc = "reclaiming" /\ SourceThrows(w, task[w].context, "pending")
       \/ task[w].pc = "givingUp" /\ SourceThrows(w, task[w].context, "handled")
    /\ ErrorHandlerThrows(w)
    /\ UNCHANGED <<listVars, setupVars, ask, finishAsk, statsVars, attempts, processed, closed>>

(* failedRequestHandler, the user's.                                       *)
FailureReported(w) ==
    /\ task[w].pc = "reporting"
    /\ Ends(w)
    /\ UNCHANGED <<listVars, setupVars, queueVars, listRetries, poolVars,
                   handledRequestsCount, statsVars, historyVars, boundVars>>

ReportFails(w) ==
    /\ task[w].pc = "reporting"
    /\ Fails("report")
    /\ ErrorHandlerThrows(w)
    /\ UNCHANGED <<listVars, setupVars, queueVars, ask, finishAsk, statsVars,
                   attempts, processed, closed>>

(***************************************************************************)
(* The process dies or is moved to another host, before the crawl has      *)
(* finished, and it is started again with the same options, list and       *)
(* storages.                                                               *)
(***************************************************************************)
(* _loadHandledRequestCount: what the queue, or else the list, counts.     *)
LoadedCount ==
    IF queueGiven
    THEN IF CountsHandled THEN Cardinality({r \in Requests : status[r] = "handled"}) ELSE 0
    ELSE HandledInList

Restart ==
    /\ pool # "finished"
    /\ Happens("restart")
    /\ restarts' = restarts + 1
    /\ RestoreState
    /\ hasQueue' = queueGiven
    /\ busy' = {}
    /\ listRetries' = [r \in Requests |-> 0]
    /\ pool' = "running"
    /\ ask' = "none"
    /\ finishAsk' = "none"
    /\ task' = [w \in Tasks |-> IdleTask]
    /\ chain' = [w \in Tasks |-> Both(NoChain, NoChain)]
    /\ jobs' = {}
    /\ requestsFinished' = 0
    /\ requestsFailed' = 0
    /\ closed' = {}
    /\ UNCHANGED <<optionVars, status, storedRetries, attempts, processed, gaveUp, lates>>
    /\ handledRequestsCount' = LoadedCount'

(* Steps of the list that the crawler does not make itself.                *)
Persists(p) ==
    /\ PersistState(p) \/ StatePersisted(p) \/ PersistFails(p)
    /\ UNCHANGED <<setupVars, queueVars, listRetries, poolVars, task, chain,
                   handledRequestsCount, statsVars, historyVars, boundVars>>

FetchSteps(w, c) ==
    \/ ListAnswered(w, c)
    \/ AddReaches(w, c)
    \/ AddReturns(w, c)
    \/ AddFails(w, c)
    \/ TakeNothing(w, c)
    \/ \E r \in Requests : Take(w, c, r)
    \/ FetchFails(w, c)

TaskSteps(w) ==
    \/ StartTask(w)
    \/ FetchTimesOut(w)
    \/ StartJob(w)
    \/ SessionFails(w)
    \/ \E r \in Linked : HandlerAdds(w, r)
    \/ HandlerReturns(w)
    \/ \E noRetry \in BOOLEAN : HandlerThrows(w, noRetry)
    \/ MarkReturns(w)
    \/ MarkThrows(w)
    \/ ReclaimReturns(w)
    \/ GiveUpReturns(w)
    \/ SourceFailsError(w)
    \/ FailureReported(w)
    \/ ReportFails(w)

PoolSteps ==
    \/ AskReady
    \/ \E reset \in BOOLEAN : NotReady(reset)
    \/ FinishAnswered
    \/ QueryFails
    \/ PauseOnMigration

Next ==
    \/ PoolSteps
    \/ \E w \in Tasks : TaskSteps(w) \/ \E c \in Calls : FetchSteps(w, c)
    \/ \E p \in Savers : Persists(p)
    \/ Restart

CrawlerSpec == CrawlerInit /\ [][Next]_vars

(* The pool keeps looking for tasks, every awaited call is answered or     *)
(* fails, a handler returns or times out.  The queue, asked again and      *)
(* again, gives out what it has, says that it is finished when it is, and  *)
(* resets itself when it is stuck.                                         *)
Fairness ==
    /\ WF_vars(AskReady)
    /\ WF_vars(NotReady(FALSE))
    /\ SF_vars(NotReady(TRUE))
    /\ WF_vars(FinishAnswered)
    /\ SF_vars(FinishAnswered /\ pool' = "finished")
    /\ \A w \in Tasks :
          /\ WF_vars(StartTask(w))
          /\ WF_vars(StartJob(w))
          /\ WF_vars(HandlerReturns(w) \/ HandlerThrows(w, FALSE))
          /\ WF_vars(MarkReturns(w) \/ MarkThrows(w))
          /\ WF_vars(ReclaimReturns(w) \/ GiveUpReturns(w) \/ SourceFailsError(w))
          /\ WF_vars(FailureReported(w))
          /\ \A c \in Calls :
                /\ WF_vars(FetchSteps(w, c))
                /\ SF_vars(\E r \in Requests : Take(w, c, r))

FairCrawlerSpec == CrawlerSpec /\ Fairness

-----------------------------------------------------------------------------
CrawlerTypeOK ==
    /\ ListTypeOK
    /\ queueGiven \in QueueOptions
    /\ maxRequestsPerCrawl \in Limits
    /\ hasQueue \in BOOLEAN
    /\ status \in [Requests -> {"absent", "pending", "handled"}]
    /\ busy \subseteq {r \in Requests : status[r] # "absent"}
    /\ storedRetries \in [Requests -> 0 .. MaxRequestRetries]
    /\ listRetries \in [Requests -> 0 .. MaxRequestRetries]
    /\ pool \in {"running", "paused", "finished", "dead"}
    /\ ask \in {"none", "limit", "asking"}
    /\ finishAsk \in {"none", "yes", "no", "queue"}
    /\ task \in [Tasks ->
          [pc : {"idle", "fetching", "fetched", "handling", "marking", "reclaiming",
                 "givingUp", "reporting", "failed"},
           source : Sources,
           request : Requests \cup {None},
           context : Requests \cup {None},
           fromList : BOOLEAN,
           retryCount : 0 .. MaxRequestRetries,
           noRetry : BOOLEAN,
           tries : 0 .. InternalRetries]]
    /\ chain \in [Tasks -> [Calls ->
          [pc : {"none", "listed", "adding", "added", "taking"},
           item : Requests \cup {None}, mine : BOOLEAN]]]
    /\ handledRequestsCount \in Nat
    /\ jobs \subseteq Sources \X Requests
    /\ {requestsFinished, requestsFailed, failures, lates, restarts} \subseteq Nat
    /\ attempts \in [Kinds \X Requests -> Nat]
    /\ processed \subseteq Requests
    /\ gaveUp \subseteq Requests
    /\ closed \subseteq Sources \X Requests

(* Once started, the crawl does not run for ever.                          *)
CrawlEnds == pool = "running" ~> pool # "running"

(* No request of the list is lost between the list, the queue and the      *)
(* store, whenever the process dies: one that no handler was done with is  *)
(* in the queue or will be read again from the memory, from the stored     *)
(* state and from every state that is still being written.                 *)
NothingLost ==
    \A r \in Listed \ (processed \cup gaveUp) :
        \/ status[r] # "absent"
        \/ /\ r \in From(nextIndex) \cup listInProgress
           /\ r \in Remaining(savedState)
           /\ \A p \in Savers : \A s \in saving[p] : r \in Remaining(s)

(* "It is called for each URL to crawl" (requestHandler): a request that   *)
(* the queue has as handled, or that a task marked in the list, was given  *)
(* to the handler, which returned, or was given up.                        *)
HandledWasProcessed ==
    /\ \A r \in Requests : status[r] = "handled" => r \in processed \cup gaveUp
    /\ \A r \in Requests : <<"list", r>> \in closed => r \in processed \cup gaveUp

ProcessedUnlessLate == lates = 0 => HandledWasProcessed

(* maxRequestRetries: a request is not attempted more often, but for the   *)
(* attempts that a restart or a late fetch cut off and those of strays;    *)
(* the list forgets its retries in a restart.                              *)
AttemptsBounded ==
    \A r \in Requests :
        /\ attempts["queue", r] <= MaxRequestRetries + 1 + restarts + lates
        /\ attempts["list", r] <= (MaxRequestRetries + 1) * (restarts + 1)

(* maxRequestsPerCrawl: what was finished, failed or may still be is at    *)
(* most one less than the number of tasks above the limit.                 *)
Open == {w \in Running : \/ task[w].pc \in {"fetching", "fetched"}
                          \/ Job(task[w], task[w].context) \in jobs}

LimitKept ==
    maxRequestsPerCrawl > 0 =>
        requestsFinished + requestsFailed + Cardinality(Open)
            < maxRequestsPerCrawl + Cardinality(Tasks)

(* Statistics count every request that a task marked, once.                *)
StatsMatch ==
    Running = {} => requestsFinished + requestsFailed = Cardinality(closed)

(* run() resolves by itself only when the list is at its end, nothing of   *)
(* it is in progress and the queue that the crawler has is done.           *)
FinishedMeansDone ==
    pool = "finished" /\ ~MaxPagesExceeded =>
        /\ IsListFinished
        /\ hasQueue => \A r \in Requests : status[r] # "pending"

(* "Returns a promise that gets resolved once all the requests are         *)
(* processed" (run).  A restart breaks this: see the README.               *)
AllProcessed ==
    pool = "finished" /\ ~MaxPagesExceeded =>
        \A r \in Requests :
            r \in Listed \/ status[r] # "absent" => r \in processed \cup gaveUp

=============================================================================
