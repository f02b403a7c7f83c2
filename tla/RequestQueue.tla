---------------------------- MODULE RequestQueue ----------------------------
(***************************************************************************)
(* RequestQueue of packages/core: the client-side queue in front of a      *)
(* RequestQueueClient (RequestStorage).  It caches the head of the queue,  *)
(* remembers which requests are being processed or were handled recently,  *)
(* and decides from that and from what the storage lists whether the queue *)
(* is finished.                                                            *)
(*                                                                         *)
(* Everything runs on one JavaScript thread, so an action is the code      *)
(* between two awaits.  A worker is one chain of awaited calls: a task of  *)
(* the AutoscaledPool, the pool's own isFinished call or user code that    *)
(* adds requests.  A call to the storage has three parts: the synchronous  *)
(* code that issues it, its effect at the storage, and the code that runs  *)
(* when its answer arrives.                                                *)
(***************************************************************************)
EXTENDS RequestStorage, Sequences

CONSTANTS
    Workers,                \* the chains of awaited calls
    None,                   \* no request
    QueryHeadMinLength,     \* QUERY_HEAD_MIN_LENGTH, 100
    QueryHeadBuffer,        \* QUERY_HEAD_BUFFER, 3
    HeadMaxLimit,           \* REQUEST_QUEUE_HEAD_MAX_LIMIT, 1000
    MaxConsistencyQueries,  \* MAX_QUERIES_FOR_CONSISTENCY, 6
    RecentlyHandledSize,    \* RECENTLY_HANDLED_CACHE_SIZE, 1000
    OtherClients,           \* TRUE: other programs use the same storage
    TimelyHolders,          \* TRUE: whoever holds a request marks or reclaims
                            \* it within internalTimeoutMillis
    Faults,                 \* what may go wrong: a call to the storage by "add",
                            \* "query", "get" or "update" fails, or the holder
                            \* of a request is lost ("abandon")
    MaxFailures,            \* bound: how often something of Faults happens
    MaxResets               \* bound: resets of a stuck queue

ASSUME QueueAssumption ==
    /\ IsFiniteSet(Workers)
    /\ None \notin Requests
    /\ {QueryHeadMinLength, HeadMaxLimit, RecentlyHandledSize} \subseteq Nat \ {0}
    /\ {QueryHeadBuffer, MaxConsistencyQueries, MaxFailures, MaxResets} \subseteq Nat
    /\ OtherClients \in BOOLEAN
    /\ TimelyHolders \in BOOLEAN
    /\ Faults \subseteq {"add", "query", "get", "update", "abandon"}

VARIABLES
    pc,                   \* where each worker awaits
    req,                  \* the request it fetched, or None
    call,                 \* the arguments and partial results of its call
    queueHead,            \* queueHeadDict, the ids in list order
    inProgress,
    recentlyHandled,      \* the keys of the LRU cache
    requestsCache,        \* id -> "absent" or its isHandled: "pending", "handled"
    assumedTotalCount,
    assumedHandledCount,
    queryPromise,         \* queryQueueHeadPromise: a query, or 0 for null
    queries,              \* the listHead calls issued
    timers,               \* <<id, kind>> -> setTimeout callbacks not fired yet
    hadMultipleClients,   \* the storage has seen another client
    failures, resets      \* counters of the bounds

clientVars == <<pc, req, call>>
queueVars == <<queueHead, inProgress, recentlyHandled, requestsCache,
               assumedTotalCount, assumedHandledCount>>
queryVars == <<queryPromise, queries>>
boundVars == <<failures, resets>>
vars == <<storageVars, clientVars, queueVars, queryVars, timers,
          hadMultipleClients, boundVars>>

(* "missing": fetchNextRequest did not find the request; "back", "front":  *)
(* reclaimRequest with that forefront option.                              *)
TimerKinds == {"missing", "back", "front"}

QueryIds == 1 .. (1 + MaxResets)

NoQuery == [status |-> "free", limit |-> 0, items |-> {}, db |-> FALSE, multi |-> FALSE]

NoCall == [op |-> "none", front |-> FALSE, batch |-> {}, fresh |-> {}, done |-> {},
           found |-> "none", query |-> 0, limit |-> 0, iteration |-> 0,
           reached |-> FALSE, db |-> FALSE, multi |-> FALSE, consistent |-> FALSE,
           known |-> {}]

InSeq(s) == {s[i] : i \in DOMAIN s}

Reversed(s) == [i \in 1 .. Len(s) |-> s[Len(s) + 1 - i]]

Finishes(w) ==
    /\ pc' = [pc EXCEPT ![w] = "idle"]
    /\ req' = [req EXCEPT ![w] = None]
    /\ call' = [call EXCEPT ![w] = NoCall]

Goes(w, place, c) ==
    /\ pc' = [pc EXCEPT ![w] = place]
    /\ call' = [call EXCEPT ![w] = c]
    /\ UNCHANGED req

Fails(fault) ==
    /\ fault \in Faults
    /\ failures < MaxFailures
    /\ failures' = failures + 1
    /\ UNCHANGED resets

QueueInit ==
    /\ StorageInit
    /\ pc = [w \in Workers |-> "idle"]
    /\ req = [w \in Workers |-> None]
    /\ call = [w \in Workers |-> NoCall]
    /\ queueHead = <<>>
    /\ inProgress = {}
    /\ recentlyHandled = {}
    /\ requestsCache = [r \in Requests |-> "absent"]
    /\ assumedTotalCount = 0
    /\ assumedHandledCount = 0
    /\ queryPromise = 0
    /\ queries = [q \in QueryIds |-> NoQuery]
    /\ timers = [t \in Requests \X TimerKinds |-> 0]
    /\ hadMultipleClients = FALSE
    /\ failures = 0
    /\ resets = 0

(***************************************************************************)
(* The LRU cache of recently handled requests: adding to a full one drops  *)
(* another entry.  Which one is the least recently used is left open.      *)
(***************************************************************************)
AddRecentlyHandled(r) ==
    IF Cardinality(recentlyHandled \cup {r}) <= RecentlyHandledSize
    THEN recentlyHandled' = recentlyHandled \cup {r}
    ELSE \E old \in recentlyHandled \ {r} :
            recentlyHandled' = (recentlyHandled \cup {r}) \ {old}

(* A request starts being processed.  Mutant: it is not noted.             *)
StartsProgressUnnoted(r) == UNCHANGED inProgress

StartsProgress(r) == inProgress' = inProgress \cup {r}

(* A request is not in progress any more.  Mutant: it stays there.         *)
StaysInProgress(r) == UNCHANGED inProgress

EndsProgress(r) == inProgress' = inProgress \ {r}

(***************************************************************************)
(* The listed requests that may join the head: the list may be older than  *)
(* what this client did.  Mutant: it trusts the list on handled ones.      *)
(***************************************************************************)
UsableButHandled(items) == items \ inProgress

Usable(items) == items \ (inProgress \cup recentlyHandled)

(* _cacheRequest for several requests; those in asHandled were handled.    *)
CacheRequests(rs, asHandled) ==
    requestsCache' = [r \in Requests |->
        IF r \notin rs THEN requestsCache[r]
        ELSE IF r \in asHandled THEN "handled" ELSE "pending"]

-----------------------------------------------------------------------------
(***************************************************************************)
(* addRequest and addRequests.                                             *)
(***************************************************************************)
(* The requests known from the cache are answered from it; the others go   *)
(* to the storage.                                                         *)
AddRequests(w, rs, forefront) ==
    LET requestsToAdd == {r \in rs : requestsCache[r] = "absent"}
    IN /\ pc[w] = "idle"
       /\ requestsToAdd # {}
       /\ Goes(w, "adding", [NoCall EXCEPT !.op = "add", !.front = forefront,
                                            !.batch = requestsToAdd])
       /\ UNCHANGED <<storageVars, queueVars, queryVars, timers,
                      hadMultipleClients, boundVars>>

(* The storage stores the requests, a remote one perhaps only some of them *)
(* (the rest is reported as unprocessed).                                  *)
StoreRequests(w) ==
    /\ pc[w] = "adding"
    /\ \E stored \in SUBSET call[w].batch :
        /\ ~Eventual => stored = call[w].batch
        /\ AddToStore(stored, FALSE)
        /\ Goes(w, "added", [call[w] EXCEPT !.batch = stored,
                                            !.fresh = stored \ Present,
                                            !.done = stored \cap handled])
    /\ UNCHANGED <<queueVars, queryVars, timers, hadMultipleClients, boundVars>>

(***************************************************************************)
(* Which of the new requests _maybeAddRequestToQueueHead adds: all if      *)
(* forefront, else those that come while the queue is short, as they are   *)
(* counted one by one.  ListDictionary.add ignores an id it has.  Mutant:  *)
(* the next list is left to find them.                                     *)
(***************************************************************************)
NoneToHead(new, front) == {}

ToHead(new, front) ==
    {r \in new \ InSeq(queueHead) :
        \/ front
        \/ assumedTotalCount + Cardinality({s \in new : requests[s] <= requests[r]})
               < QueryHeadMinLength}

(***************************************************************************)
(* The answer: every request is cached, and a new one that nobody took     *)
(* from a listing in the meantime counts and may go to the queue head, to  *)
(* its front if forefront, else to its back.                               *)
(***************************************************************************)
RequestsAdded(w) ==
    LET c == call[w]
        new == c.fresh \ (inProgress \cup recentlyHandled)
    IN /\ pc[w] = "added"
       /\ CacheRequests(c.batch, c.done)
       /\ assumedTotalCount' = assumedTotalCount + Cardinality(new)
       /\ \E s \in InOrder(ToHead(new, c.front), requests) :
            queueHead' = IF c.front THEN Reversed(s) \o queueHead
                                    ELSE queueHead \o s
       /\ Finishes(w)
       /\ UNCHANGED <<storageVars, inProgress, recentlyHandled, assumedHandledCount,
                      queryVars, timers, hadMultipleClients, boundVars>>

(* The call to the storage fails, before or after its effect.              *)
AddFails(w) ==
    /\ pc[w] \in {"adding", "added"}
    /\ Fails("add")
    /\ Finishes(w)
    /\ UNCHANGED <<storageVars, queueVars, queryVars, timers, hadMultipleClients>>

-----------------------------------------------------------------------------
(***************************************************************************)
(* _ensureHeadIsNonEmpty, called by fetchNextRequest, isEmpty and          *)
(* isFinished.                                                             *)
(***************************************************************************)
DefaultLimit == LET n == Cardinality(inProgress) * QueryHeadBuffer
                IN IF n > QueryHeadMinLength THEN n ELSE QueryHeadMinLength

(* Ids of queries nobody can hear of any more.                             *)
FreeQueries == {q \in QueryIds : \/ queries[q].status = "free"
                                 \/ queries[q].status = "rejected" /\ q # queryPromise}

(* A new listHead call with this limit, joined by worker w.                *)
StartQuery(w, c) ==
    \E q \in QueryIds :
        /\ q \in FreeQueries /\ \A p \in FreeQueries : q <= p
        /\ queries' = [queries EXCEPT ![q] = [NoQuery EXCEPT !.status = "sent",
                                                             !.limit = c.limit,
                                                             !.db = ~recentlyModified]]
        /\ queryPromise' = q
        /\ Goes(w, "waiting", [c EXCEPT !.query = q])

(* Its synchronous part: resolve at once when the head is not empty, else  *)
(* await the query in flight or a new one.  A promise that was rejected is *)
(* still there and rejects every later call.                               *)
EnsureHead(w, c) ==
    IF queueHead # <<>>
    THEN Goes(w, "ensured", [c EXCEPT !.consistent = TRUE]) /\ UNCHANGED queryVars
    ELSE IF queryPromise = 0
    THEN StartQuery(w, c)
    ELSE /\ UNCHANGED queryVars
         /\ IF queries[queryPromise].status = "rejected"
            THEN Finishes(w)
            ELSE Goes(w, "waiting", [c EXCEPT !.query = queryPromise])

(* fetchNextRequest and isEmpty up to their await.                         *)
AskForHead(w, op) ==
    /\ pc[w] = "idle"
    /\ EnsureHead(w, [NoCall EXCEPT !.op = op, !.limit = DefaultLimit])
    /\ UNCHANGED <<storageVars, queueVars, timers, hadMultipleClients, boundVars>>

FetchNextRequest(w) == AskForHead(w, "fetch")

IsEmpty(w) == AskForHead(w, "isEmpty")

(* The requests whose addition has returned, or that were listed.          *)
Known == {r \in Requests : /\ requestsCache[r] # "absent"
                           /\ \A w \in Workers : r \notin call[w].fresh}

(* isFinished answers FALSE at once, changing nothing, while the head or   *)
(* inProgress has requests; else it awaits a consistent head.              *)
IsFinished(w) ==
    /\ pc[w] = "idle"
    /\ queueHead = <<>>
    /\ inProgress = {}
    /\ EnsureHead(w, [NoCall EXCEPT !.op = "isFinished", !.limit = DefaultLimit,
                                    !.known = Known])
    /\ UNCHANGED <<storageVars, queueVars, timers, hadMultipleClients, boundVars>>

Holding == {"getting", "got", "holding", "marking", "marked", "reclaiming", "reclaimed"}

(***************************************************************************)
(* isFinished finds requests in progress and no activity for               *)
(* internalTimeoutMillis: _reset, after which it goes on as above.  If     *)
(* holders are timely, by then nobody is still working on a request and no *)
(* short timer is left.                                                    *)
(***************************************************************************)
ResetStuckQueue(w) ==
    /\ pc[w] = "idle"
    /\ inProgress # {}
    /\ resets < MaxResets
    /\ TimelyHolders => /\ \A v \in Workers : pc[v] \notin Holding
                        /\ \A t \in DOMAIN timers : timers[t] = 0
    /\ queueHead' = <<>>
    /\ inProgress' = {}
    /\ recentlyHandled' = {}
    /\ requestsCache' = [r \in Requests |-> "absent"]
    /\ assumedTotalCount' = 0
    /\ assumedHandledCount' = 0
    /\ resets' = resets + 1
    /\ StartQuery(w, [NoCall EXCEPT !.op = "isFinished", !.limit = QueryHeadMinLength,
                                    !.known = Known])
    /\ UNCHANGED <<storageVars, timers, hadMultipleClients, failures>>

(***************************************************************************)
(* listHead takes effect.  The list counts as consistent when the storage  *)
(* was last modified API_PROCESSED_REQUESTS_DELAY_MILLIS before the query  *)
(* was started (StartQuery notes whether it was quiet then).               *)
(***************************************************************************)
ListHead(q) ==
    /\ queries[q].status = "sent"
    /\ \E items \in Listings(queries[q].limit) :
        queries' = [queries EXCEPT ![q].status = "answered",
                                   ![q].items = items,
                                   ![q].db = @ /\ ~recentlyModified,
                                   ![q].multi = hadMultipleClients]
    /\ UNCHANGED <<storageVars, clientVars, queueVars, queryPromise, timers,
                   hadMultipleClients, boundVars>>

(* The promise is cleared, whichever query it now stands for, so that the  *)
(* next call fetches the queue head again.                                 *)
ClearsPromise == queryPromise' = 0

(***************************************************************************)
(* The answer arrives: listed requests that are neither in progress nor    *)
(* recently handled join the head, in the order of the list, and the       *)
(* workers that await this query may go on.                                *)
(***************************************************************************)
HeadListed(q) ==
    LET query == queries[q]
        usable == Usable(query.items)
        waiting == {w \in Workers : pc[w] = "waiting" /\ call[w].query = q}
    IN /\ query.status = "answered"
       /\ \E s \in InOrder(usable \ InSeq(queueHead), requests) :
            queueHead' = queueHead \o s
       /\ CacheRequests(usable, {})
       /\ ClearsPromise
       /\ queries' = [queries EXCEPT ![q] = NoQuery]
       /\ pc' = [w \in Workers |-> IF w \in waiting THEN "queried" ELSE pc[w]]
       /\ call' = [w \in Workers |->
             IF w \in waiting
             THEN [call[w] EXCEPT !.query = 0,
                                  !.limit = query.limit,
                                  !.reached = Cardinality(query.items) >= query.limit,
                                  !.db = query.db,
                                  !.multi = query.multi]
             ELSE call[w]]
       /\ UNCHANGED <<storageVars, req, inProgress, recentlyHandled, assumedTotalCount,
                      assumedHandledCount, timers, hadMultipleClients, boundVars>>

(* listHead fails: the waiting calls throw, and the rejected promise stays *)
(* unless a reset already replaced it.                                     *)
QueryFails(q) ==
    LET waiting == {w \in Workers : pc[w] = "waiting" /\ call[w].query = q}
    IN /\ queries[q].status \in {"sent", "answered"}
       /\ Fails("query")
       /\ queries' = [queries EXCEPT ![q] = IF queryPromise = q
                                            THEN [NoQuery EXCEPT !.status = "rejected"]
                                            ELSE NoQuery]
       /\ pc' = [w \in Workers |-> IF w \in waiting THEN "idle" ELSE pc[w]]
       /\ call' = [w \in Workers |-> IF w \in waiting THEN NoCall ELSE call[w]]
       /\ UNCHANGED <<storageVars, req, queueVars, queryPromise, timers,
                      hadMultipleClients>>

(***************************************************************************)
(* A worker resumes after its query: repeat with a higher limit when the   *)
(* list was cut off and nothing of it was usable; when isFinished asks and *)
(* neither the storage nor the local counters are consistent, sleep and    *)
(* repeat, a limited number of times.  Of the iteration only its place     *)
(* relative to that limit matters, so it stops counting beyond.            *)
(***************************************************************************)
Queried(w) ==
    LET c == call[w]
        higherLimit == queueHead = <<>> /\ c.reached /\ c.limit < HeadMaxLimit
        locallyConsistent == ~c.multi /\ assumedTotalCount <= assumedHandledCount
        forConsistency == c.op = "isFinished" /\ ~c.db /\ ~locallyConsistent
        next == [c EXCEPT !.limit = IF higherLimit THEN (3 * @ + 1) \div 2 ELSE @,
                          !.iteration = IF @ > MaxConsistencyQueries THEN @ ELSE @ + 1,
                          !.reached = FALSE, !.db = FALSE, !.multi = FALSE]
    IN /\ pc[w] = "queried"
       /\ IF ~higherLimit /\ (~forConsistency \/ c.iteration > MaxConsistencyQueries)
          THEN /\ Goes(w, "ensured", [NoCall EXCEPT !.op = c.op, !.known = c.known,
                                                    !.consistent = ~forConsistency])
               /\ UNCHANGED queryVars
          ELSE IF forConsistency
          THEN Goes(w, "sleeping", next) /\ UNCHANGED queryVars
          ELSE EnsureHead(w, next)
       /\ UNCHANGED <<storageVars, queueVars, timers, hadMultipleClients, boundVars>>

WakeUp(w) ==
    /\ pc[w] = "sleeping"
    /\ EnsureHead(w, call[w])
    /\ UNCHANGED <<storageVars, queueVars, timers, hadMultipleClients, boundVars>>

(* isFinished is about to resolve to TRUE.                                 *)
SaysFinished(w) ==
    /\ pc[w] = "ensured"
    /\ call[w].op = "isFinished"
    /\ call[w].consistent
    /\ queueHead = <<>>
    /\ inProgress = {}

(* isEmpty and isFinished return.                                          *)
Answer(w) ==
    /\ pc[w] = "ensured"
    /\ call[w].op # "fetch"
    /\ Finishes(w)
    /\ UNCHANGED <<storageVars, queueVars, queryVars, timers, hadMultipleClients,
                   boundVars>>

-----------------------------------------------------------------------------
(***************************************************************************)
(* The rest of fetchNextRequest.                                           *)
(***************************************************************************)
(* Take the first id of the head, if there is one, and get its request.    *)
(* An id that is in progress or recently handled is dropped ("this should  *)
(* never happen").                                                         *)
TakeHead(w) ==
    /\ pc[w] = "ensured"
    /\ call[w].op = "fetch"
    /\ queueHead' = IF queueHead = <<>> THEN <<>> ELSE Tail(queueHead)
    /\ IF queueHead = <<>> \/ Head(queueHead) \in inProgress \cup recentlyHandled
       THEN Finishes(w) /\ UNCHANGED inProgress
       ELSE /\ pc' = [pc EXCEPT ![w] = "getting"]
            /\ req' = [req EXCEPT ![w] = Head(queueHead)]
            /\ call' = [call EXCEPT ![w] = NoCall]
            /\ StartsProgress(Head(queueHead))
    /\ UNCHANGED <<storageVars, recentlyHandled, requestsCache, assumedTotalCount,
                   assumedHandledCount, queryVars, timers, hadMultipleClients, boundVars>>

GetRequest(w) ==
    /\ pc[w] = "getting"
    /\ \E answer \in Found(req[w]) :
        Goes(w, "got", [NoCall EXCEPT !.found = answer])
    /\ UNCHANGED <<storageVars, queueVars, queryVars, timers, hadMultipleClients,
                   boundVars>>

(* A missing request stays in progress for a while; one that is handled    *)
(* already is remembered, and stays in progress too; one that is pending   *)
(* is returned.                                                            *)
RequestGot(w) ==
    /\ pc[w] = "got"
    /\ \/ /\ call[w].found = "missing"
          /\ timers' = [timers EXCEPT ![<<req[w], "missing">>] = @ + 1]
          /\ Finishes(w)
          /\ UNCHANGED recentlyHandled
       \/ /\ call[w].found = "handled"
          /\ AddRecentlyHandled(req[w])
          /\ Finishes(w)
          /\ UNCHANGED timers
       \/ /\ call[w].found = "pending"
          /\ Goes(w, "holding", NoCall)
          /\ UNCHANGED <<recentlyHandled, timers>>
    /\ UNCHANGED <<storageVars, queueHead, inProgress, requestsCache, assumedTotalCount,
                   assumedHandledCount, queryVars, hadMultipleClients, boundVars>>

GetFails(w) ==
    /\ pc[w] \in {"getting", "got"}
    /\ Fails("get")
    /\ EndsProgress(req[w])
    /\ Finishes(w)
    /\ UNCHANGED <<storageVars, queueHead, recentlyHandled, requestsCache,
                   assumedTotalCount, assumedHandledCount, queryVars, timers,
                   hadMultipleClients>>

-----------------------------------------------------------------------------
(***************************************************************************)
(* markRequestHandled and reclaimRequest, called by the worker that holds  *)
(* the request.                                                            *)
(***************************************************************************)
(* A request that is not in progress any more is left alone.               *)
BeginUpdate(w, place, c) ==
    /\ pc[w] = "holding"
    /\ IF req[w] \in inProgress THEN Goes(w, place, c) ELSE Finishes(w)
    /\ UNCHANGED <<storageVars, queueVars, queryVars, timers, hadMultipleClients,
                   boundVars>>

(* Mutant: the request is remembered as handled before it is.              *)
MarkRemembersEarly(w) ==
    /\ pc[w] = "holding"
    /\ req[w] \in inProgress
    /\ Goes(w, "marking", [NoCall EXCEPT !.op = "mark"])
    /\ AddRecentlyHandled(req[w])
    /\ UNCHANGED <<storageVars, queueHead, inProgress, requestsCache, assumedTotalCount,
                   assumedHandledCount, queryVars, timers, hadMultipleClients, boundVars>>

(* Mutant: the request is released before it is handled.                   *)
MarkReleasesEarly(w) ==
    /\ pc[w] = "holding"
    /\ req[w] \in inProgress
    /\ Goes(w, "marking", [NoCall EXCEPT !.op = "mark"])
    /\ EndsProgress(req[w])
    /\ UNCHANGED <<storageVars, queueHead, recentlyHandled, requestsCache,
                   assumedTotalCount, assumedHandledCount, queryVars, timers,
                   hadMultipleClients, boundVars>>

MarkRequestHandled(w) == BeginUpdate(w, "marking", [NoCall EXCEPT !.op = "mark"])

ReclaimRequest(w, forefront) ==
    BeginUpdate(w, "reclaiming", [NoCall EXCEPT !.op = "reclaim", !.front = forefront])

(* updateRequest at the storage; done keeps whether it was handled before. *)
UpdateRequest(w) ==
    /\ \/ pc[w] = "marking" /\ UpdateInStore(req[w], TRUE)
       \/ pc[w] = "reclaiming" /\ UpdateInStore(req[w], FALSE)
    /\ Goes(w, IF pc[w] = "marking" THEN "marked" ELSE "reclaimed",
            [call[w] EXCEPT !.done = {req[w]} \cap handled])
    /\ UNCHANGED <<queueVars, queryVars, timers, hadMultipleClients, boundVars>>

RequestMarked(w) ==
    /\ pc[w] = "marked"
    /\ EndsProgress(req[w])
    /\ AddRecentlyHandled(req[w])
    /\ assumedHandledCount' = assumedHandledCount + (IF call[w].done = {} THEN 1 ELSE 0)
    /\ CacheRequests({req[w]}, call[w].done)
    /\ Finishes(w)
    /\ UNCHANGED <<storageVars, queueHead, assumedTotalCount, queryVars, timers,
                   hadMultipleClients, boundVars>>

RequestReclaimed(w) ==
    /\ pc[w] = "reclaimed"
    /\ CacheRequests({req[w]}, call[w].done)
    /\ LET kind == IF call[w].front THEN "front" ELSE "back"
       IN timers' = [timers EXCEPT ![<<req[w], kind>>] = @ + 1]
    /\ Finishes(w)
    /\ UNCHANGED <<storageVars, queueHead, inProgress, recentlyHandled,
                   assumedTotalCount, assumedHandledCount, queryVars,
                   hadMultipleClients, boundVars>>

(* The update throws, before or after its effect; the caller, who still    *)
(* holds the request, may try again.                                       *)
UpdateFails(w) ==
    /\ pc[w] \in {"marking", "marked", "reclaiming", "reclaimed"}
    /\ Fails("update")
    /\ Goes(w, "holding", NoCall)
    /\ UNCHANGED <<storageVars, queueVars, queryVars, timers, hadMultipleClients>>

(* The caller gives up on a request it holds without telling the queue.    *)
Abandon(w) ==
    /\ pc[w] = "holding"
    /\ Fails("abandon")
    /\ Finishes(w)
    /\ UNCHANGED <<storageVars, queueVars, queryVars, timers, hadMultipleClients>>

(* A callback of setTimeout is due.  Mutant: it may run twice.             *)
DueAgain(r, kind) == TRUE

Due(r, kind) == timers[<<r, kind>>] > 0

(* The setTimeout callbacks of fetchNextRequest and reclaimRequest.        *)
TimerFires(r, kind) ==
    /\ Due(r, kind)
    /\ timers' = [timers EXCEPT ![<<r, kind>>] = @ - 1]
    /\ EndsProgress(r)
    /\ LET wanted == kind # "missing" /\ r \in inProgress /\ r \notin InSeq(queueHead)
       IN queueHead' = IF wanted /\ kind = "front" THEN <<r>> \o queueHead
                       ELSE IF wanted /\ kind = "back"
                               /\ assumedTotalCount < QueryHeadMinLength
                       THEN Append(queueHead, r)
                       ELSE queueHead
    /\ UNCHANGED <<storageVars, clientVars, recentlyHandled, requestsCache,
                   assumedTotalCount, assumedHandledCount, queryVars,
                   hadMultipleClients, boundVars>>

-----------------------------------------------------------------------------
(* Another program adds requests to the shared storage or handles one.     *)
OtherClientActs ==
    /\ OtherClients
    /\ \/ \E r \in Requests \ Present : AddToStore({r}, FALSE)
       \/ \E r \in Pending : UpdateInStore(r, TRUE)
    /\ hadMultipleClients' = TRUE
    /\ UNCHANGED <<clientVars, queueVars, queryVars, timers, boundVars>>

StorageSettles ==
    /\ GoesQuiet \/ \E r \in Requests : Settle(r)
    /\ UNCHANGED <<clientVars, queueVars, queryVars, timers, hadMultipleClients, boundVars>>

-----------------------------------------------------------------------------
(* What a worker's caller decides, and what follows from its awaits.       *)
Calls(w) ==
    \/ \E rs \in SUBSET Requests, f \in BOOLEAN : AddRequests(w, rs, f)
    \/ FetchNextRequest(w)
    \/ IsEmpty(w)
    \/ IsFinished(w)
    \/ ResetStuckQueue(w)
    \/ MarkRequestHandled(w)
    \/ \E f \in BOOLEAN : ReclaimRequest(w, f)

Resumes(w) ==
    \/ StoreRequests(w)
    \/ RequestsAdded(w)
    \/ Queried(w)
    \/ WakeUp(w)
    \/ Answer(w)
    \/ TakeHead(w)
    \/ GetRequest(w)
    \/ RequestGot(w)
    \/ UpdateRequest(w)
    \/ RequestMarked(w)
    \/ RequestReclaimed(w)

GoesWrong ==
    \/ \E w \in Workers : AddFails(w) \/ GetFails(w) \/ UpdateFails(w) \/ Abandon(w)
    \/ \E q \in QueryIds : QueryFails(q)

Next ==
    \/ \E w \in Workers : Calls(w) \/ Resumes(w)
    \/ \E q \in QueryIds : ListHead(q) \/ HeadListed(q)
    \/ \E r \in Requests, kind \in TimerKinds : TimerFires(r, kind)
    \/ GoesWrong
    \/ OtherClientActs
    \/ StorageSettles

Spec == QueueInit /\ [][Next]_vars

(***************************************************************************)
(* Fairness: answers arrive, timers fire and resumed code runs; the tasks  *)
(* of a crawler fetch again and again, and its pool asks again and again   *)
(* whether the queue is finished; a request that is retried is in the end  *)
(* marked as handled, since retries are limited; a stuck queue is reset    *)
(* when isFinished is polled past the timeout.  A storage that nobody      *)
(* writes to gets consistent.                                              *)
(***************************************************************************)
Fairness ==
    /\ \A w \in Workers : /\ WF_vars(Resumes(w))
                           /\ SF_vars(MarkRequestHandled(w))
    /\ SF_vars(\E w \in Workers : FetchNextRequest(w))
    /\ SF_vars(\E w \in Workers : IsFinished(w))
    /\ SF_vars(\E w \in Workers : ResetStuckQueue(w))
    /\ \A q \in QueryIds : WF_vars(ListHead(q)) /\ WF_vars(HeadListed(q))
    /\ \A r \in Requests, kind \in TimerKinds : WF_vars(TimerFires(r, kind))
    /\ WF_vars(StorageSettles)

FairSpec == Spec /\ Fairness

-----------------------------------------------------------------------------
Places == Holding \cup {"idle", "adding", "added", "waiting", "queried", "sleeping",
                         "ensured"}

CallType ==
    [op : {"none", "add", "fetch", "isEmpty", "isFinished", "mark", "reclaim"},
     front : BOOLEAN, batch : SUBSET Requests, fresh : SUBSET Requests,
     done : SUBSET Requests, found : {"none", "missing", "handled", "pending"},
     query : 0 .. (1 + MaxResets), limit : Nat, iteration : Nat, reached : BOOLEAN,
     db : BOOLEAN, multi : BOOLEAN, consistent : BOOLEAN, known : SUBSET Requests]

QueryType == [status : {"free", "sent", "answered", "rejected"}, limit : Nat,
              items : SUBSET Requests, db : BOOLEAN, multi : BOOLEAN]

ClientTypeOK ==
    /\ pc \in [Workers -> Places]
    /\ req \in [Workers -> Requests \cup {None}]
    /\ call \in [Workers -> CallType]

QueueTypeOK ==
    /\ queueHead \in Seq(Requests)
    /\ inProgress \subseteq Requests
    /\ recentlyHandled \subseteq Requests
    /\ requestsCache \in [Requests -> {"absent", "pending", "handled"}]
    /\ assumedTotalCount \in Nat
    /\ assumedHandledCount \in Nat

QueryTypeOK ==
    /\ queryPromise \in 0 .. (1 + MaxResets)
    /\ queries \in [QueryIds -> QueryType]

RestTypeOK ==
    /\ timers \in [Requests \X TimerKinds -> Nat]
    /\ hadMultipleClients \in BOOLEAN
    /\ failures \in Nat
    /\ resets \in Nat

(* The head is a ListDictionary: no id is in it twice.                     *)
HeadDistinct ==
    \A i, j \in DOMAIN queueHead : queueHead[i] = queueHead[j] => i = j

(* A worker has a request exactly while it fetches or processes one.       *)
HoldersHold == \A w \in Workers : pc[w] \in Holding <=> req[w] # None

(* The type invariant.                                                     *)
TypeOK == StorageTypeOK /\ ClientTypeOK /\ QueueTypeOK /\ QueryTypeOK /\ RestTypeOK

(* No reset took a request away from a worker that still works on it.      *)
Calm == TimelyHolders \/ resets = 0

(***************************************************************************)
(* Who has a request, and who may change what the queue knows of it.       *)
(***************************************************************************)
HeldInProgress == \A w \in Workers : req[w] # None => req[w] \in inProgress

HeldByOne == \A v, w \in Workers : v # w /\ req[v] = req[w] => req[v] = None

(* A timer keeps its request in progress, on behalf of nobody else.        *)
TimerAlone ==
    \A r \in Requests, k \in TimerKinds :
        timers[<<r, k>>] > 0 =>
            /\ timers[<<r, k>>] = 1
            /\ \A j \in TimerKinds \ {k} : timers[<<r, j>>] = 0
            /\ r \in inProgress
            /\ r \notin recentlyHandled
            /\ \A w \in Workers : req[w] # r

RememberedDone ==
    \A r \in recentlyHandled : r \in handled /\ \A w \in Workers : req[w] # r

(* What a worker knows of its request stays true: nobody else writes it.   *)
KnowledgeTrue ==
    \A w \in Workers :
        /\ pc[w] = "marked" => req[w] \in handled
        /\ pc[w] = "got" /\ call[w].found = "handled" => req[w] \in handled
        /\ pc[w] = "got" /\ call[w].found = "pending" /\ ~OtherClients
              => req[w] \in Pending

HeadFresh == InSeq(queueHead) \cap (inProgress \cup recentlyHandled) = {}

(***************************************************************************)
(* No two workers fetch or process the same request at the same time,      *)
(* whatever is listed, added, reclaimed or lost meanwhile.                 *)
(***************************************************************************)
MutualExclusion == Calm => HeldByOne

(***************************************************************************)
(* The head never offers a request that is in progress or was handled      *)
(* recently: the check in fetchNextRequest that "should never happen" does *)
(* not, in spite of late answers and timers.                               *)
(***************************************************************************)
HeadIsFresh == Calm => HeadFresh

(***************************************************************************)
(* A request in recentlyHandled, which no listing can bring back to the    *)
(* head, is handled in the storage: forgetting it loses no work.           *)
(***************************************************************************)
NoPendingForgotten == Calm => recentlyHandled \subseteq handled

(***************************************************************************)
(* fetchNextRequest never returns a request that was handled by the time   *)
(* it returns, when no other client handles requests.                      *)
(***************************************************************************)
NeverReturnsHandled ==
    Calm /\ ~OtherClients =>
        \A w \in Workers : pc[w] = "got" /\ call[w].found = "pending"
                                => req[w] \in Pending

(***************************************************************************)
(* isFinished resolves to TRUE only if every request that was known to the *)
(* queue when it was called is handled.  Its comment promises this: "it    *)
(* will never return a false positive".  The code breaks it, since what is *)
(* assumed handled and what is listed may be behind each other.            *)
(***************************************************************************)
NoFalseFinish ==
    Calm => \A w \in Workers : SaysFinished(w) => call[w].known \cap Pending = {}

(***************************************************************************)
(* The promise is kept as long as the storage has less requests than one   *)
(* query lists, whatever is joined, listed late, reclaimed or failing: all *)
(* that is added then goes to the head.                                    *)
(***************************************************************************)
FinishTrueWhileShort ==
    resets = 0 /\ Cardinality(Present) < QueryHeadMinLength => NoFalseFinish

Ownership == /\ HeldInProgress
             /\ HeldByOne
             /\ TimerAlone
             /\ RememberedDone
             /\ KnowledgeTrue
             /\ HeadFresh

(* The inductive invariant they follow from.                               *)
QueueInv == HoldersHold /\ HeadDistinct /\ (Calm => Ownership)

(***************************************************************************)
(* The queue implements RequestLease: a worker has the lease from the      *)
(* moment the storage gives it the pending request until                   *)
(* markRequestHandled or reclaimRequest returns, or it loses the request.  *)
(***************************************************************************)
leaseStatus == [r \in Requests |-> IF r \notin Present THEN "absent"
                                  ELSE IF r \in handled THEN "handled" ELSE "pending"]

Leased(w) == \/ pc[w] = "got" /\ call[w].found = "pending"
             \/ pc[w] \in Holding \ {"getting", "got"}

leases == [w \in Workers |-> IF Leased(w) THEN req[w] ELSE None]

Lease == INSTANCE RequestLease WITH
            status <- leaseStatus,
            lease <- leases,
            Outsiders <- OtherClients

(* Every step of the queue is a step of the leases, or none.               *)
ImplementsLease == Lease!LeaseSpec

(* The queue is found to be finished: again and again, because there are   *)
(* finitely many requests to add, isFinished resolves to TRUE when every   *)
(* request in the storage is handled, those too that their holders lost.   *)
EventuallyFinished ==
    []<>(Present \subseteq handled /\ \E w \in Workers : SaysFinished(w))

=============================================================================
