--------------------------- MODULE CrawlerOptions ---------------------------
(***************************************************************************)
(* What the constructors of the crawlers make of their options, what an    *)
(* extension may change of them, how addRequests splits its requests, and  *)
(* what a task of a browser crawler learns from the browser of its page.   *)
(*                                                                         *)
(* An option that is not given is Undef, and so is what throws.  Timeouts  *)
(* are in milliseconds.                                                    *)
(***************************************************************************)
EXTENDS Naturals, Sequences, FiniteSets, SequencesExt

CONSTANTS
    Undef,
    Secs,                   \* milliseconds in a second
    TimeoutBuffer,          \* BASIC_CRAWLER_TIMEOUT_BUFFER_SECS
    MaxSignedInteger,       \* 2^31 - 1
    ChunkSize               \* 1000 requests

Given(x) == x # Undef
Default(x, y) == IF Given(x) THEN x ELSE y
Truthy(number) == number \notin {Undef, 0}
Larger(x, y) == IF x > y THEN x ELSE y

-----------------------------------------------------------------------------
(* BasicCrawler.                                                           *)

(* _handlePropertyNameChange: the new name before the old one.             *)
Renamed(newProperty, oldProperty) == Default(newProperty, oldProperty)

(* handleRequestTimeoutSecs is the old name of requestHandlerTimeoutSecs;  *)
(* zero counts as not given.                                               *)
RequestHandlerTimeout(options) ==
    LET Millis(secs) == IF Truthy(secs) THEN secs * Secs ELSE Undef
        new == Millis(options.requestHandlerTimeoutSecs)
        old == Millis(options.handleRequestTimeoutSecs)
    IN  Renamed(IF Given(new) \/ Given(old) THEN new ELSE 60 * Secs, old)

(* At least five minutes, unless the environment says another time.        *)
InternalTimeout(timeout, env) == Default(env.internalTimeout, Larger(2 * timeout, 300 * Secs))

(* The crawler's functions and the shorthands replace those in             *)
(* autoscaledPoolOptions, also where a shorthand is not given;             *)
(* isFinishedFunction alone is the user's.                                 *)
PoolOptions(options) ==
    [ minConcurrency |-> Default(options.minConcurrency, 1),
      maxConcurrency |-> Default(options.maxConcurrency, 1000),
      desiredConcurrency |-> options.autoscaledPoolOptions.desiredConcurrency,
      runTaskFunction |-> "_runTaskFunction",
      isFinishedFunction |-> Default(options.autoscaledPoolOptions.isFinishedFunction,
                                     "_defaultIsFinishedFunction") ]

BasicCrawlerOptions(options, env) ==
    LET handler == Renamed(options.requestHandler, options.handleRequestFunction)
        timeout == RequestHandlerTimeout(options)
    IN  IF ~Given(handler) THEN Undef
        ELSE [ requestHandler |-> handler,
               failedRequestHandler |-> Renamed(options.failedRequestHandler,
                                                options.handleFailedRequestFunction),
               requestHandlerTimeout |->
                   IF timeout > MaxSignedInteger THEN MaxSignedInteger ELSE timeout,
               internalTimeout |-> InternalTimeout(timeout, env),
               queueTimeout |-> IF Given(options.requestQueue) THEN InternalTimeout(timeout, env)
                                ELSE Undef,
               maxRequestRetries |-> Default(options.maxRequestRetries, 3),
               useSessionPool |-> Default(options.useSessionPool, TRUE),
               pool |-> PoolOptions(options) ]

(* The queue: the one that was given has the crawler's timeout, one that   *)
(* is opened on demand keeps its own of five minutes.                      *)
GetRequestQueue(crawler) == Default(crawler.queueTimeout, 300 * Secs)

-----------------------------------------------------------------------------
(* CheerioCrawler.                                                         *)

(* persistCookiesPerSession of both kinds of crawlers.                     *)
PersistCookies(options, useSessionPool) ==
    IF useSessionPool THEN Default(options.persistCookiesPerSession, TRUE)
    ELSE IF options.persistCookiesPerSession = TRUE THEN Undef ELSE FALSE

CheerioCrawlerOptions(options, env) ==
    LET handlerSecs == Default(options.requestHandlerTimeoutSecs, 60)
        requestSecs == Default(options.navigationTimeoutSecs, 30)
        handler == Renamed(options.requestHandler, options.handlePageFunction)
        basic == BasicCrawlerOptions(
                     [options EXCEPT
                        !.requestHandler = "_runRequestHandler",
                        !.requestHandlerTimeoutSecs = requestSecs + handlerSecs + TimeoutBuffer],
                     env)
        cookies == PersistCookies(options, basic.useSessionPool)
    IN  IF ~Given(handler) \/ cookies = Undef THEN Undef
        ELSE [ basic |-> basic, handler |-> handler, userTimeout |-> handlerSecs * Secs,
               navigationTimeout |-> requestSecs * Secs, persistCookies |-> cookies ]

(* use(): extensionOptions are pairs of a key and the type of its value,   *)
(* Undef for a value that is null; types those of the crawler's own        *)
(* properties.  Keys before one that throws have been overridden.          *)
MayOverride(types, option) ==
    /\ option.key \in DOMAIN types
    /\ option.type \in {types[option.key], Undef} \/ types[option.key] = Undef

UseExtension(types, extensionOptions) ==
    LET refused == {i \in DOMAIN extensionOptions : ~MayOverride(types, extensionOptions[i])}
        set == {i \in DOMAIN extensionOptions : \A r \in refused : i < r}
    IN  [ types |-> [k \in DOMAIN types |->
                        IF \E i \in set : extensionOptions[i].key = k
                        THEN extensionOptions[CHOOSE i \in set : extensionOptions[i].key = k].type
                        ELSE types[k]],
          throws |-> refused # {} ]

-----------------------------------------------------------------------------
(* Crawlers with browsers.                                                 *)

(* The handler's own limit is requestHandlerTimeoutMillis, which has come  *)
(* to be that of the whole task.                                           *)
BrowserCrawlerOptions(options, launchContext, env) ==
    LET handlerSecs == Default(options.requestHandlerTimeoutSecs, 60)
        navigationSecs == Default(options.navigationTimeoutSecs, 60)
        handler == Renamed(options.requestHandler, options.handlePageFunction)
        basic == BasicCrawlerOptions(
                     [options EXCEPT
                        !.requestHandler = "_runRequestHandler",
                        !.failedRequestHandler = Undef,
                        !.handleFailedRequestFunction = Undef,
                        !.requestHandlerTimeoutSecs = navigationSecs + handlerSecs + TimeoutBuffer],
                     env)
        cookies == PersistCookies(options, basic.useSessionPool)
    IN  IF ~Given(handler) \/ cookies = Undef THEN Undef
        ELSE [ basic |-> [basic EXCEPT !.failedRequestHandler =
                             Renamed(options.failedRequestHandler,
                                     options.handleFailedRequestFunction)],
               handler |-> handler, userTimeout |-> basic.requestHandlerTimeout,
               navigationTimeout |-> navigationSecs * Secs, persistCookies |-> cookies,
               useFingerprints |-> ~Given(launchContext.userAgent)
                                     /\ Default(options.useFingerprints, TRUE) ]

PuppeteerCrawlerOptions(options, launchContext, env) ==
    IF Given(launchContext.proxyUrl) THEN Undef
    ELSE BrowserCrawlerOptions(options, launchContext, env)

(* The launchContext is set after the constructor of BrowserCrawler, which *)
(* does not see its userAgent.                                             *)
PlaywrightCrawlerOptions(options, launchContext, env) ==
    IF Given(launchContext.proxyUrl) THEN Undef
    ELSE BrowserCrawlerOptions(options, [launchContext EXCEPT !.userAgent = Undef], env)

(* _extendLaunchContext: a browser gets a session and a proxy for it.      *)
(* proxies has the proxy of each session, Undef without a configuration.   *)
ExtendLaunchContext(session, proxies) ==
    [ session |-> session, proxy |-> IF proxies = Undef THEN Undef ELSE proxies[session] ]

(* _runRequestHandler before the page is opened: only incognito pages have *)
(* a proxy of their own.                                                   *)
NewPageOptions(context, proxies, incognito) ==
    IF proxies # Undef /\ incognito THEN [context EXCEPT !.proxy = proxies[context.session]]
    ELSE context

(* _enhanceCrawlingContextWithPageInfo.                                    *)
EnhanceContext(context, launch, incognito) ==
    [ session |-> IF incognito THEN context.session ELSE launch.session,
      proxy |-> Default(context.proxy, launch.proxy) ]

(* _handleNavigation: the steps done up to the one that throws, and what   *)
(* happens to the session when that is the navigation.                     *)
NavigationSteps == <<"preNavigationHooks", "applyCookies", "navigation", "postNavigationHooks">>

HandleNavigation(fails, isTimeout) ==
    LET last == {i \in DOMAIN NavigationSteps : NavigationSteps[i] = fails}
    IN  [ done |-> {NavigationSteps[i] : i \in {k \in DOMAIN NavigationSteps : \A f \in last : k < f}},
          marksBad |-> fails = "navigation" /\ isTimeout ]

-----------------------------------------------------------------------------
(* addRequests.                                                            *)

Chunks(array) ==
    [i \in 1 .. (Len(array) + ChunkSize - 1) \div ChunkSize |->
        SubSeq(array, (i - 1) * ChunkSize + 1,
               IF i * ChunkSize < Len(array) THEN i * ChunkSize ELSE Len(array))]

(* attemptToAddToQueueAndAddAnyUnprocessed: one call that the storage      *)
(* answers with those it processed; the others are sent again.             *)
Unprocessed(provided, processed) == SelectSeq(provided, LAMBDA r : r \notin processed)

(* The calls for requests, when the storage takes those in answers[n] with *)
(* its n-th call: the first chunk before addRequests returns, the others   *)
(* in the background or, with waitForAllRequestsToBeAdded, before it too.  *)
AddRequests(requests, waitForAll, answers) ==
    LET Call(s, answer) ==
            IF s.chunks = <<>> THEN s
            ELSE LET provided == Head(s.chunks)
                     rest == Unprocessed(provided, answer)
                 IN [ chunks |-> IF rest = <<>> THEN Tail(s.chunks) ELSE <<rest>> \o Tail(s.chunks),
                      calls |-> Append(s.calls, provided) ]
        end == FoldLeft(Call, [chunks |-> Chunks(requests), calls |-> <<>>], answers)
        first == IF requests = <<>> THEN {} ELSE ToSet(Chunks(requests)[1])
    IN  [ calls |-> end.calls, open |-> FlattenSeq(end.chunks),
          returned |-> IF waitForAll THEN end.chunks = <<>>
                       ELSE first \cap ToSet(FlattenSeq(end.chunks)) = {} ]
=============================================================================
