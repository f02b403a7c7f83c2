------------------------------ MODULE Scraper ------------------------------
(***************************************************************************)
(* The actor scrapers (Cheerio, Web and Puppeteer Scraper): what a request *)
(* handler does around the page function of the user.  The crawler below   *)
(* gives requests to tasks, tries again and marks them handled; a handler  *)
(* that took too long goes on by itself.  Result and links of a page are   *)
(* counted and limited here.                                               *)
(***************************************************************************)
EXTENDS ClickElements, EnqueueLinks

CONSTANTS
    StartUrls,
    Links,              \* url |-> URLs that the link selector finds, in order
    Clickable,          \* pages with elements for clickableElementsSelector
    PatternChoices,     \* pseudoUrls that the input may have
    Tasks, Lates,       \* tasks of the pool, handlers that outlive their task
    MaxRequestRetries,
    MaxResults,         \* maxResultsPerCrawl, 0 for no limit
    MaxCrawlingDepth,   \* 0 for no limit
    ResultSizes,        \* how many records the result of a page may make
    PageRecords,        \* bound on them
    MaxLost,            \* bound on pushes that take effect and fail
    MaxCalls,           \* bound on calls of the page that are waiting
    MaxRestarts         \* bound on restarts of the actor

ASSUME ScraperAssumption ==
    /\ IsFiniteSet(Urls) /\ IsFiniteSet(Tasks) /\ IsFiniteSet(Lates)
    /\ StartUrls \subseteq Urls /\ Clickable \subseteq Urls /\ Navigations \subseteq Urls
    /\ Links \in [Urls -> Seq(Urls)]
    /\ PatternChoices \subseteq Seq(Patterns)
    /\ Tasks \cap Lates = {}
    /\ {MaxRequestRetries, MaxResults, MaxCrawlingDepth, MaxLost, MaxCalls, MaxRestarts} \subseteq Nat
    /\ PageRecords \in Nat \ {0} /\ ResultSizes \subseteq 0 .. PageRecords

VARIABLES
    pseudoUrls,     \* patterns of the input
    queue,          \* url |-> where its request is
    metadata,       \* url |-> the depth in userData, or Unset
    retryCount,
    slot,           \* handler |-> its request and how far it is
    items,          \* URLs that have a record in the dataset
    itemCount,      \* records in the dataset, as its info has it
    pagesOutputted,
    aborted,        \* the pool takes no more requests
    restarts,
    results,        \* history: records of pages, without those of errors
    lost,           \* history: pushes that took effect, but failed
    recordless,     \* history: URLs whose result was [], or whose error record was
                    \* given up or cut off by a restart
    reached,        \* history: the limit of results was reached before a restart
    way             \* history: url |-> links followed to it, resets of the depth among them

crawlVars == <<queue, metadata, retryCount, way>>
outputVars == <<items, itemCount, pagesOutputted, results, lost, recordless>>
runVars == <<pseudoUrls, aborted, restarts, reached>>
page == <<interceptionVars, clickVars>>
vars == <<crawlVars, outputVars, runVars, slot, page>>

Slots == Tasks \cup Lates
Idle == [stage |-> "idle", url |-> Unset]
At(h, stage) == slot[h].stage = stage
Goes(h, stage) == slot' = [slot EXCEPT ![h].stage = stage]

ScraperInit ==
    /\ InterceptionInit /\ ClickInit
    /\ pseudoUrls \in PatternChoices
    /\ queue = [url \in Urls |-> IF url \in StartUrls THEN "pending" ELSE "absent"]
    /\ metadata = [url \in Urls |-> Unset]
    /\ retryCount = [url \in Urls |-> 0]
    /\ way = [url \in Urls |-> [links |-> 0, resets |-> 0]]
    /\ slot = [h \in Slots |-> Idle]
    /\ items = {} /\ itemCount = 0 /\ pagesOutputted = 0
    /\ results = 0 /\ lost = 0 /\ recordless = {}
    /\ aborted = FALSE /\ restarts = 0 /\ reached = FALSE

-----------------------------------------------------------------------------
(* The page of a clickable request is closed when its task ends.           *)
HasPage(h) == h \in Tasks /\ slot[h].url \in Clickable
ClosePage(h) == IF HasPage(h) THEN FreshPage /\ FreshClicks ELSE UNCHANGED page

StartTask(t) ==
    /\ ~aborted
    /\ slot[t] = Idle
    /\ \E url \in Urls :
          /\ queue[url] = "pending"
          /\ queue' = [queue EXCEPT ![url] = "running"]
          /\ slot' = [slot EXCEPT ![t] = [stage |-> "loading", url |-> url]]
    /\ UNCHANGED <<metadata, retryCount, way, outputVars, runVars, page>>

EnsureMetaData(url) == IF metadata[url] = Unset THEN 0 ELSE metadata[url]

MaxResultsPassed == MaxResults # 0 /\ pagesOutputted > MaxResults
MaxResultsNear == MaxResults # 0 /\ pagesOutputted + 1 >= MaxResults

MaxResultsReached == MaxResults # 0 /\ pagesOutputted >= MaxResults

(* _requestHandler up to the page function.                                *)
HandleMaxResultsPerCrawl(t) ==
    /\ At(t, "loading")
    /\ aborted' = (aborted \/ MaxResultsReached)
    /\ Goes(t, IF MaxResultsReached THEN "over" ELSE "function")
    /\ UNCHANGED <<crawlVars, outputVars, pseudoUrls, restarts, reached, page>>

(* Requests that are not in the queue yet join it, the first of a URL.     *)
AddToQueue(parent, requests, hop) ==
    LET first(url) == CHOOSE i \in DOMAIN requests :
                          /\ requests[i].url = url
                          /\ \A j \in 1 .. i - 1 : requests[j].url # url
        new == {requests[i].url : i \in DOMAIN requests} \cap {url \in Urls : queue[url] = "absent"}
        data(url) == requests[first(url)].userData
    IN /\ queue' = [url \in Urls |-> IF url \in new THEN "pending" ELSE queue[url]]
       /\ metadata' = [url \in Urls |-> IF url \in new THEN data(url) ELSE metadata[url]]
       /\ way' = [url \in Urls |->
                     IF url \in new
                     THEN [links |-> way[parent].links + hop,
                           resets |-> way[parent].resets + IF data(url) = Unset THEN 1 ELSE 0]
                     ELSE way[url]]

(* What the page function does: enqueueRequest, which gives the request    *)
(* the depth of its parent, and handlers for the requests of the page.     *)
EnqueueRequest(h) ==
    /\ At(h, "function")
    /\ \E url \in Urls :
          /\ queue[url] = "absent"
          /\ AddToQueue(slot[h].url, <<[url |-> url, userData |-> EnsureMetaData(slot[h].url)]>>, 0)
    /\ UNCHANGED <<retryCount, outputVars, runVars, slot, page>>

UserHandles(t) ==
    /\ HasPage(t)
    /\ slot[t].stage \in {"function", "clicks"}
    /\ Len(calls) < MaxCalls
    /\ \E f \in Handlers \ {OnIntercepted} :
          AddInterceptRequestHandler(f) \/ RemoveInterceptRequestHandler(f)
    /\ UNCHANGED <<crawlVars, outputVars, runVars, slot, clickVars>>

-----------------------------------------------------------------------------
PassedMaxDepth(url) == MaxCrawlingDepth # 0 /\ EnsureMetaData(url) > MaxCrawlingDepth

ReachedMaxDepth(url) == MaxCrawlingDepth # 0 /\ EnsureMetaData(url) >= MaxCrawlingDepth

Deeper(parent) == EnsureMetaData(parent) + 1
Linked(parent, url) == [url |-> url, userData |-> Deeper(parent)]

(* _handleLinks: links of the selector, then those behind the clicks.      *)
HandleLinks(h) ==
    LET parent == slot[h].url
        options == [i \in DOMAIN Links[parent] |-> Linked(parent, Links[parent][i])]
        links == LinksToAdd(options, pseudoUrls, Unset, Origin[parent], 0)
    IN IF ReachedMaxDepth(parent)
       THEN Goes(h, "push") /\ UNCHANGED <<queue, metadata, way>>
       ELSE AddToQueue(parent, links, 1) /\ Goes(h, IF HasPage(h) THEN "clicks" ELSE "push")

(* The page function returns; it may have called skipLinks.                *)
PageFunction(h) ==
    /\ At(h, "function")
    /\ \/ Goes(h, "push") /\ UNCHANGED <<queue, metadata, way>>
       \/ HandleLinks(h)
    /\ UNCHANGED <<retryCount, outputVars, runVars, page>>

HandleClicks(t) ==
    /\ At(t, "clicks")
    /\ Clicked
    /\ LET options == SetToSeq({Linked(slot[t].url, url) : url \in uniqueRequests})
       IN AddToQueue(slot[t].url, CreateRequests(options, pseudoUrls), 1)
    /\ Goes(t, "push")
    /\ UNCHANGED <<retryCount, outputVars, runVars, page>>

(* The page of a task, from when it loads until it is closed.              *)
PageStep(t) ==
    /\ HasPage(t)
    /\ \/ PageDoesCall /\ UNCHANGED clickVars
       \/ \E q \in PageRequests : PageSends(q) /\ UNCHANGED clickVars
       \/ \E q \in PageRequests : HandlerDecides(q)
       \/ At(t, "clicks") /\ (AddsHandler \/ StartsClicking \/ PageIdle \/ RemovesHandler)
       \/ At(t, "clicks") /\ \E q \in Navigations : TargetCreated(q)
    /\ UNCHANGED <<crawlVars, outputVars, runVars, slot>>

-----------------------------------------------------------------------------
(* createDatasetPayload makes a record of an object, one of each object in *)
(* an array and so none of [], and one of an error; pushData saves them.   *)
Payloads(h) == IF At(h, "error") THEN {1} ELSE ResultSizes

Saves(h, n) ==
    /\ items' = IF n = 0 THEN items ELSE items \cup {slot[h].url}
    /\ itemCount' = itemCount + n
    /\ results' = IF At(h, "error") THEN results ELSE results + n

(* _handleResult: pagesOutputted goes up by one when pushData is through.  *)
PushData(h) ==
    /\ slot[h].stage \in {"push", "error"}
    /\ \E n \in Payloads(h) :
          /\ Saves(h, n)
          /\ recordless' = IF n = 0 THEN recordless \cup {slot[h].url} ELSE recordless
    /\ Goes(h, IF At(h, "error") THEN "countError" ELSE "count")
    /\ UNCHANGED <<crawlVars, pagesOutputted, lost, runVars, page>>

CountPage(h) ==
    /\ slot[h].stage \in {"count", "countError"}
    /\ pagesOutputted' = pagesOutputted + 1
    /\ slot' = [slot EXCEPT ![h] = IF h \in Tasks THEN [@ EXCEPT !.stage = "over"] ELSE Idle]
    /\ UNCHANGED <<crawlVars, items, itemCount, results, lost, recordless, runVars, page>>

(* pushData saves records, all or some of them, but throws.                *)
PushLost(h) ==
    /\ slot[h].stage \in {"push", "error"}
    /\ lost < MaxLost /\ lost' = lost + 1
    /\ \E n \in Payloads(h) \ {0} : Saves(h, n)
    /\ UNCHANGED pagesOutputted

(* The handler has returned, or the one for a failed request has.          *)
MarkHandled(t) ==
    /\ At(t, "over")
    /\ queue' = [queue EXCEPT ![slot[t].url] = "handled"]
    /\ slot' = [slot EXCEPT ![t] = Idle]
    /\ ClosePage(t)
    /\ UNCHANGED <<metadata, retryCount, way, outputVars, runVars>>

(* The handler threw or was too slow.  When there is no retry the request  *)
(* is handled first and gets its error record then.                        *)
RequestFails(t) ==
    LET url == slot[t].url
        again == retryCount[url] < MaxRequestRetries
    IN /\ retryCount' = IF again THEN [retryCount EXCEPT ![url] = @ + 1] ELSE retryCount
       /\ queue' = [queue EXCEPT ![url] = IF again THEN "pending" ELSE "handled"]
       /\ ClosePage(t)
       /\ UNCHANGED <<metadata, way, runVars>>

AfterFailure(t) ==
    IF retryCount[slot[t].url] < MaxRequestRetries THEN Idle ELSE [slot[t] EXCEPT !.stage = "error"]

HandlerThrows(t) ==
    /\ slot[t].stage \in {"loading", "function", "clicks", "push"}
    /\ \/ UNCHANGED outputVars
       \/ At(t, "push") /\ PushLost(t) /\ UNCHANGED recordless
    /\ RequestFails(t)
    /\ slot' = [slot EXCEPT ![t] = AfterFailure(t)]

HandlerTimesOut(t, l) ==
    /\ slot[t].stage \in {"function", "push", "count"}
    /\ slot[l] = Idle
    /\ RequestFails(t)
    /\ slot' = [slot EXCEPT ![t] = AfterFailure(t), ![l] = slot[t]]
    /\ UNCHANGED outputVars

(* failedRequestHandler throws: the crawler calls its error handler again, *)
(* which marks a handled request and pushes the record once more, or, in   *)
(* the end, gives up, and the crawl with it.                               *)
ErrorPushFails(t) ==
    /\ At(t, "error")
    /\ PushLost(t) \/ UNCHANGED <<items, itemCount, pagesOutputted, results, lost>>
    /\ \/ UNCHANGED <<slot, aborted, recordless>>
       \/ /\ slot' = [slot EXCEPT ![t] = Idle]
          /\ aborted' = TRUE
          /\ recordless' = recordless \cup {slot[t].url}
    /\ UNCHANGED <<crawlVars, pseudoUrls, restarts, reached, page>>

(* A handler whose task is over fails without anyone taking notice.        *)
LateEnds(l) ==
    /\ slot[l].stage \in {"function", "push"}
    /\ slot' = [slot EXCEPT ![l] = Idle]
    /\ \/ UNCHANGED outputVars
       \/ At(l, "push") /\ PushLost(l) /\ UNCHANGED recordless
    /\ UNCHANGED <<crawlVars, runVars, page>>

(* The actor is started again with its storages; pagesOutputted is the     *)
(* itemCount of the dataset.                                               *)
Restart ==
    /\ restarts < MaxRestarts
    /\ restarts' = restarts + 1
    /\ recordless' = recordless \cup {slot[t].url : t \in {t \in Tasks : At(t, "error")}}
    /\ reached' = (reached \/ (MaxResults # 0 /\ pagesOutputted >= MaxResults))
    /\ slot' = [h \in Slots |-> Idle]
    /\ queue' = [url \in Urls |-> IF queue[url] = "running" THEN "pending" ELSE queue[url]]
    /\ pagesOutputted' = itemCount
    /\ aborted' = FALSE
    /\ FreshPage /\ FreshClicks
    /\ UNCHANGED <<metadata, retryCount, way, items, itemCount, results, lost, pseudoUrls>>

HandlerStep(h) ==
    \/ PageFunction(h) \/ EnqueueRequest(h)
    \/ PushData(h) \/ CountPage(h)

TaskStep(t) ==
    \/ StartTask(t) \/ HandleMaxResultsPerCrawl(t) \/ HandleClicks(t) \/ MarkHandled(t)
    \/ UserHandles(t) \/ PageStep(t) \/ HandlerThrows(t) \/ ErrorPushFails(t)
    \/ \E l \in Lates : HandlerTimesOut(t, l)

ScraperNext ==
    \/ \E h \in Slots : HandlerStep(h)
    \/ \E t \in Tasks : TaskStep(t)
    \/ \E l \in Lates : LateEnds(l)
    \/ Restart

ScraperSpec == ScraperInit /\ [][ScraperNext]_vars
-----------------------------------------------------------------------------
(* maxResultsPerCrawl: the limit is one of pages, so their records exceed  *)
(* it by the size of their results, and by those of handlers that were     *)
(* running when it was reached, or whose push failed after it had taken    *)
(* effect, but by no others, also with handlers that outlived their task   *)
(* and restarts (crawler_setup.ts _handleMaxResultsPerCrawl).              *)
ResultsBounded ==
    MaxResults # 0 => results <= PageRecords * (MaxResults - 1 + Cardinality(Slots) + lost)

(* A request that is handled has a record in the dataset, of its result or *)
(* its error, or will, unless the limit was reached, the result was [], or *)
(* the error record was given up or cut off by a restart.                  *)
OutputComplete ==
    \A url \in Urls :
        queue[url] = "handled" /\ url \notin items =>
            \/ reached \/ (MaxResults # 0 /\ pagesOutputted >= MaxResults)
            \/ url \in recordless
            \/ \E t \in Tasks : slot[t] = [stage |-> "error", url |-> url]

(* maxCrawlingDepth: no request is more links away from a start URL than   *)
(* the input allows, as long as no pattern with userData of its own makes  *)
(* the count start again on the way.                                       *)
DepthLimited ==
    MaxCrawlingDepth # 0 =>
        \A url \in Urls : way[url].links <= MaxCrawlingDepth * (1 + way[url].resets)
=============================================================================
