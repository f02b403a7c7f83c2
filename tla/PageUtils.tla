----------------------------- MODULE PageUtils -----------------------------
(***************************************************************************)
(* Functions that crawlers and users call on a page: navigating with a     *)
(* method, headers and a payload, caching responses, injecting files,      *)
(* scrolling until nothing new loads, and saving snapshots.  Adding and    *)
(* removing handlers of requests is in RequestInterception.                *)
(*                                                                         *)
(* What is not there is Undef, what throws yields Undef.                   *)
(***************************************************************************)
EXTENDS Naturals, Sequences, SequencesExt

CONSTANTS
    Undef,
    MaxInjectFileCacheSize,
    SnapshotTimeout     \* SNAPSHOT.TIMEOUT_SECS

-----------------------------------------------------------------------------
(* gotoExtended.                                                           *)

(* The fields in which the navigation differs from a plain one.            *)
Overridden(request) ==
    {f \in {"method", "payload", "headers"} : request[f] \notin {"GET", Undef}}

Overrides(request) == [f \in Overridden(request) |-> request[f]]

(* What the requests of the page go on with, in their order, <<>> being    *)
(* nothing: Puppeteer's handler is removed while the first one is handled, *)
(* and lets those pass that come before that is done.                      *)
GotoExtended(request, pageRequests) ==
    [i \in DOMAIN pageRequests |->
        IF i = 1 /\ Overridden(request) # {} THEN Overrides(request) ELSE <<>>]

(* Playwright's handlers stay on the page.  routes are the wasCalled of    *)
(* those that there are; the newest one decides alone.                     *)
AddsRoute(routes, request) ==
    IF Overridden(request) # {} THEN Append(routes, [request |-> request, wasCalled |-> FALSE])
    ELSE routes

ContinuesWith(routes) ==
    IF routes # <<>> /\ ~Last(routes).wasCalled THEN Overrides(Last(routes).request) ELSE <<>>

AfterRoute(routes) ==
    [i \in DOMAIN routes |-> IF i = Len(routes) THEN [routes[i] EXCEPT !.wasCalled = TRUE]
                             ELSE routes[i]]

-----------------------------------------------------------------------------
(* cacheResponses.  A cache has a body, or Undef, for each URL; rules are  *)
(* sets of URLs.                                                           *)

(* The body a request is answered with; Undef if it goes on.               *)
OnCachedRequest(cache, url) == cache[url]

ShouldCache(cache, rules, url) == cache[url] = Undef /\ \E i \in DOMAIN rules : url \in rules[i]

(* The body has been read, or not: Undef.  Another response to the same    *)
(* URL may have been cached meanwhile.                                     *)
Buffered(cache, url, body) == IF body = Undef THEN cache ELSE [cache EXCEPT ![url] = body]

-----------------------------------------------------------------------------
(* injectFile.  files are those in the cache, the one used last at the     *)
(* end; an empty file is read again each time.                             *)

CacheGet(files, path) ==
    LET found == {i \in DOMAIN files : files[i].path = path}
    IN  IF found = {} THEN Undef ELSE files[CHOOSE i \in found : TRUE].contents

CacheUse(files, path, contents) ==
    LET all == Append(SelectSeq(files, LAMBDA f : f.path # path),
                      [path |-> path, contents |-> contents])
    IN  IF Len(all) > MaxInjectFileCacheSize THEN Tail(all) ELSE all

(* What is evaluated in the page, and the cache after it; disk has the     *)
(* contents of the files.                                                  *)
InjectFile(files, path, disk) ==
    LET cached == CacheGet(files, path)
        read == cached \in {Undef, <<>>}
        contents == IF read THEN disk[path] ELSE cached
    IN  IF contents = Undef THEN Undef
        ELSE [ contents |-> contents,
               files |-> IF contents = <<>> THEN files ELSE CacheUse(files, path, contents) ]

(* How often it is evaluated in the main frame while frames navigate: with *)
(* each one, whichever frame it is.                                        *)
Evaluations(surviveNavigations, navigations) ==
    1 + (IF surviveNavigations THEN Len(navigations) ELSE 0)

-----------------------------------------------------------------------------
(* infiniteScroll.                                                         *)

InfiniteResources == {"xhr", "fetch", "websocket", "other"}

(* Tenths of a second have elapsed when the interval is set.               *)
ScrollStart(elapsed) ==
    [requested |-> 0, old |-> 0, matches |-> 0, elapsed |-> elapsed, finished |-> FALSE]

(* The request listener, which is never taken off.                         *)
OnScrollRequest(stats, type) ==
    IF type \in InfiniteResources THEN [stats EXCEPT !.requested = @ + 1] ELSE stats

(* The interval, once a second.  timeoutSecs is 0 for none.                *)
CheckScroll(stats, waitForSecs, timeoutSecs) ==
    LET same == stats.requested = stats.old
        matches == IF same THEN stats.matches + 1 ELSE 0
        elapsed == stats.elapsed + 10
    IN  [stats EXCEPT !.old = stats.requested, !.matches = matches, !.elapsed = elapsed,
                      !.finished = \/ same /\ matches >= waitForSecs
                                   \/ timeoutSecs # 0 /\ elapsed > 10 * timeoutSecs]

(* The body is found after looks of a tenth of a second each; after ten    *)
(* without it the scroll is over.  late tells whether moving the mouse     *)
(* took any time.  seconds has, for each second, the types of its requests *)
(* and whether stopScrollCallback returns TRUE in it.  The result is the   *)
(* number of whole seconds scrolled, Undef when it is not over by then.    *)
InfiniteScroll(looks, late, seconds, waitForSecs, timeoutSecs) ==
    LET Second(s, second) ==
            IF s.stopped \/ s.stats.finished THEN s
            ELSE IF second.stops THEN [s EXCEPT !.stopped = TRUE]
            ELSE [s EXCEPT
                    !.after = @ + 1,
                    !.stats = CheckScroll(FoldLeft(OnScrollRequest, s.stats, second.requests),
                                          waitForSecs, timeoutSecs)]
        start == ScrollStart(looks + (IF late THEN 1 ELSE 0))
        end == FoldLeft(Second, [stats |-> start, stopped |-> FALSE, after |-> 0], seconds)
    IN  IF looks > 10 THEN 0 ELSE IF end.stopped \/ end.stats.finished THEN end.after ELSE Undef

-----------------------------------------------------------------------------
(* saveSnapshot of the utilities: fails is the step that throws; the       *)
(* screenshot is saved before the HTML is read.                            *)
SaveSnapshot(options, fails) ==
    LET wanted == (IF options.saveScreenshot
                   THEN <<<<"screenshot", "read">>, <<"screenshot", "set">>>> ELSE <<>>)
                    \o (IF options.saveHtml
                        THEN <<<<"html", "read">>, <<"html", "set">>>> ELSE <<>>)
        steps == <<<<"store", "open">>>> \o wanted
        done == SelectSeq(steps, LAMBDA s : \A i, j \in DOMAIN steps :
                                     steps[i] = s /\ steps[j] = fails => i < j)
    IN  [ saved |-> {s[1] : s \in {t \in ToSet(done) : t[2] = "set"}},
          throws |-> fails \in ToSet(steps) ]

(* That of the scrapers: one in SnapshotTimeout seconds, counted from the  *)
(* last attempt, which need not have saved anything.                       *)
ScraperSnapshot(last, now, given) ==
    IF now < last + SnapshotTimeout THEN [last |-> last, saved |-> {}, throws |-> FALSE]
    ELSE [ last |-> now,
           saved |-> CASE given.json -> {"json"}
                       [] ~given.json /\ given.body -> {"body"}
                       [] ~given.json /\ ~given.body /\ given.page -> {"html", "screenshot"}
                       [] OTHER -> {},
           throws |-> ~given.json /\ ~given.body /\ ~given.page ]
=============================================================================
