----------------------------- MODULE MCScraper -----------------------------
(***************************************************************************)
(* A small scrape: a start page with a link to a page of the same host,    *)
(* which links to one of another host; a click on the start page leads     *)
(* there too.                                                              *)
(***************************************************************************)
EXTENDS Scraper, TLC

CONSTANTS u1, u2, u3, image, userHandler, onIntercepted, t1, t2

ThreeUrls == {u1, u2, u3}
SiteOf(host, domain) == [scheme |-> "https", host |-> host, domain |-> domain]
Sites == [url \in ThreeUrls |-> IF url = u3 THEN SiteOf("other", "other") ELSE SiteOf("www", "site")]
LinkGraph == [url \in ThreeUrls |->
                 CASE url = u1 -> <<u2>> [] url = u2 -> <<u3>> [] OTHER -> <<u1>>]

OnlyStart == {u1}
TwoTasks == {t1, t2}
ChosenPatterns ==
    {<<>>, <<Pattern(ThreeUrls)>>, <<[urls |-> {u2}, userData |-> TRUE], Pattern(ThreeUrls)>>}

TwoHandlers == {userHandler, onIntercepted}
TwoPageRequests == {u3, image}
OneNavigation == {u3}

\* Steps of a page and those of other slots do not touch the same variables: the
\* page is followed with the other slots at rest, once for each choice of patterns,
\* and up to what InterceptionKept leaves open.  Of a restart, a push that failed
\* after its effect, a late handler and a page without a record one at a time is
\* followed.
PageUsed ==
    \/ installed # <<>> \/ calls # <<>> \/ intercepts \/ clicks # "none"
    \/ \E q \in PageRequests : fate[q] # "unsent"

Unusual == <<restarts > 0, lost > 0, recordless # {}, \E l \in Lates : slot[l] # Idle>>

Followed ==
    /\ PageUsed =>
          /\ ~overtaken
          /\ restarts = 0
          /\ \A url \in Urls : retryCount[url] = 0
          /\ Cardinality({h \in Slots : slot[h] # Idle}) = 1
    /\ Cardinality({i \in DOMAIN Unusual : Unusual[i]}) <= 1

TaskSymmetry == Permutations(Tasks)

-----------------------------------------------------------------------------
\* enqueueLinks on pages of more hosts: two subdomains of a site, the site itself,
\* one of them without TLS, another site and an address.
WideOrigin ==
    [www |-> [scheme |-> "https", host |-> "www", domain |-> "site"],
     plain |-> [scheme |-> "http", host |-> "www", domain |-> "site"],
     shop |-> [scheme |-> "https", host |-> "shop", domain |-> "site"],
     site |-> [scheme |-> "https", host |-> "site", domain |-> "site"],
     other |-> [scheme |-> "https", host |-> "other", domain |-> "other"],
     address |-> [scheme |-> "https", host |-> "1.1.1.1", domain |-> NoDomain]]
WideUrls == DOMAIN WideOrigin
Wide == INSTANCE EnqueueLinks WITH Urls <- WideUrls, Origin <- WideOrigin

Strategies == {Unset, "all", "same-hostname", "same-subdomain"}
AllLinks == SetToSeq({[url |-> url, userData |-> 1] : url \in WideUrls})
GivenChoices == {<<>>} \cup {<<Wide!Pattern(urls)>> : urls \in {{}, {"other"}, {"www", "shop"}}}
Enqueued(given, strategy, base, limit) ==
    LET added == Wide!LinksToAdd(AllLinks, given, strategy, base, limit)
    IN {added[i].url : i \in DOMAIN added}
SameScheme(url, base) == WideOrigin[url].scheme = WideOrigin[base].scheme

\* Without patterns, a link is enqueued if it is on the page's host, its domain,
\* or anywhere, as the strategy says; same-subdomain if it says nothing.
ASSUME StrategiesStay ==
    \A from \in WideUrls, strategy \in Strategies :
        Enqueued(<<>>, strategy, WideOrigin[from], 0) =
            {url \in WideUrls :
                CASE strategy = "all" -> TRUE
                  [] strategy = "same-hostname" /\ WideOrigin[from].domain # NoDomain ->
                        SameScheme(url, from) /\ WideOrigin[url].domain = WideOrigin[from].domain
                  [] OTHER -> WideOrigin[url] = WideOrigin[from]}

\* A redirect to another domain leaves same-hostname without a base, and every
\* absolute link is enqueued; the other strategies go on from one of the two pages.
ASSUME RedirectsWiden ==
    \A from, to \in WideUrls :
        LET base(strategy) == Wide!ResolveBaseUrl(strategy, from, to, Unset)
            moved == WideOrigin[from].domain # WideOrigin[to].domain
        IN /\ (base("same-hostname") = Unset) <=> moved
           /\ moved => Enqueued(<<>>, "same-hostname", base("same-hostname"), 0) = WideUrls
           /\ base("same-subdomain") = WideOrigin[from] /\ base("all") = WideOrigin[to]

\* Patterns of the user add to those of a strategy, and alone they are all.
ASSUME PatternsAdd ==
    \A given \in GivenChoices, strategy \in Strategies, from \in WideUrls :
        given # <<>> =>
            Enqueued(given, strategy, WideOrigin[from], 0) =
                given[1].urls \cup
                (IF strategy \in {Unset, "all"} THEN {}
                 ELSE Enqueued(<<>>, strategy, WideOrigin[from], 0))

\* The limit is a limit, and what is enqueued under it is enqueued without it.
ASSUME LimitTaken ==
    \A limit \in 1 .. 3, strategy \in Strategies :
        LET some == Enqueued(<<>>, strategy, WideOrigin.www, limit)
        IN some \subseteq Enqueued(<<>>, strategy, WideOrigin.www, 0) /\ Cardinality(some) <= limit

-----------------------------------------------------------------------------
\* Utilities for pages, with a cache of two files and snapshots every two seconds.
P == INSTANCE PageUtils WITH Undef <- Unset, MaxInjectFileCacheSize <- 2, SnapshotTimeout <- 2

Navigated ==
    {[method |-> m, payload |-> p, headers |-> h] :
        m \in {"GET", "POST"}, p \in {Unset, "data"}, h \in {Unset, "headers"}}

\* Playwright: routes of navigations before stay on the page, but a page that sends
\* a request for each navigation gets the overrides of each one once.
ASSUME RoutesOwn ==
    \A requests \in [1 .. 3 -> Navigated], sent \in [1 .. 3 -> 1 .. 2] :
        LET Goto(s, i) ==
                LET first == P!AddsRoute(s.routes, requests[i])
                    then == P!AfterRoute(first)
                IN [ routes |-> then,
                     got |-> s.got \o <<P!ContinuesWith(first)>>
                               \o (IF sent[i] = 2 THEN <<P!ContinuesWith(then)>> ELSE <<>>) ]
            run == FoldLeft(Goto, [routes |-> <<>>, got |-> <<>>], <<1, 2, 3>>)
        IN run.got =
             FlattenSeq([i \in 1 .. 3 |->
                 P!GotoExtended(requests[i], [n \in 1 .. sent[i] |-> n])])

\* A scroll ends with the first run of waitForSecs seconds without a request that may
\* bring content, or when the timeout is over, unless the callback stops it before.
Scrolled ==
    {[requests |-> r, stops |-> s] : r \in {<<>>, <<"image">>, <<"xhr">>}, s \in BOOLEAN}
ASSUME ScrollEnds ==
    \A seconds \in [1 .. 4 -> Scrolled], wait \in 1 .. 2, timeout \in {0, 2}, late \in BOOLEAN :
        LET Loads(n) == "xhr" \in Range(seconds[n].requests)
            ends == {n \in 1 .. 4 :
                        \/ n >= wait /\ \A k \in n - wait + 1 .. n : ~Loads(k)
                        \/ timeout # 0 /\ (n > timeout \/ (n = timeout /\ late))}
            stops == {n \in 0 .. 3 : seconds[n + 1].stops}
            result == P!InfiniteScroll(0, late, seconds, wait, timeout)
        IN IF ends \cup stops = {} THEN result = Unset
           ELSE result = CHOOSE n \in ends \cup stops : \A k \in ends \cup stops : n <= k

\* Requests are answered from the cache only with bodies the server sent for their
\* URL while a rule had it.
CacheEvents ==
    {[type |-> t, url |-> url, body |-> b] :
        t \in {"response", "buffered"}, url \in {u1, u2}, b \in {Unset, "b1", "b2"}}
ASSUME CacheTruthful ==
    \A events \in [1 .. 3 -> CacheEvents] :
        LET rules == <<{u1}>>
            Step(s, event) ==
                IF event.type = "response"
                THEN [s EXCEPT !.reading = @ \cup
                        {url \in {event.url} : P!ShouldCache(s.cache, rules, url)}]
                ELSE IF event.url \in s.reading
                THEN [s EXCEPT !.cache = P!Buffered(@, event.url, event.body)]
                ELSE s
            end == FoldLeft(Step, [cache |-> [url \in {u1, u2} |-> Unset], reading |-> {}], events)
        IN \A url \in {u1, u2} :
               P!OnCachedRequest(end.cache, url) # Unset =>
                   /\ url = u1
                   /\ \E i, j \in 1 .. 3 :
                         /\ i < j
                         /\ events[i].type = "response" /\ events[i].url = url
                         /\ events[j].type = "buffered"
                         /\ events[j].body = P!OnCachedRequest(end.cache, url)

\* A file is injected as it was when it was last read, which an older version can be
\* only if at most one other file was injected since.
ASSUME InjectedFresh ==
    \A paths \in [1 .. 4 -> {"a", "b", "c"}] :
        LET Disk(i) == [p \in {"a", "b", "c"} |-> <<i>>]
            Inject(s, i) ==
                LET r == P!InjectFile(s.files, paths[i], Disk(i))
                IN [files |-> r.files, read |-> Append(s.read, r.contents[1])]
            run == FoldLeft(Inject, [files |-> <<>>, read |-> <<>>], <<1, 2, 3, 4>>)
        IN \A i \in 1 .. 4 :
               LET use(k) == CHOOSE n \in k .. i - 1 : paths[n] = paths[i]
                                 /\ \A m \in n + 1 .. i - 1 : paths[m] # paths[i]
                   others(k) == {paths[n] : n \in k .. i} \ {paths[i]}
               IN run.read[i] # i =>
                      /\ paths[run.read[i]] = paths[i]
                      /\ Cardinality(others(use(run.read[i]))) <= 1

\* A snapshot that fails keeps what was saved before; the HTML is never saved without
\* a screenshot that was asked for.
ASSUME SnapshotsOrdered ==
    \A screenshot, html \in BOOLEAN,
       fails \in {"store", "screenshot", "html"} \X {"open", "read", "set"} :
        LET done == P!SaveSnapshot([saveScreenshot |-> screenshot, saveHtml |-> html], fails)
            wanted == {x \in {"screenshot", "html"} : IF x = "html" THEN html ELSE screenshot}
        IN /\ "html" \in done.saved => (screenshot => "screenshot" \in done.saved)
           /\ done.throws \/ done.saved = wanted
           /\ done.throws => (done.saved # wanted \/ wanted = {})

\* Snapshots of a scraper are at least two seconds apart.
ASSUME SnapshotsApart ==
    \A gaps \in [1 .. 4 -> 0 .. 3] :
        LET Time(n) == 2 + FoldLeft(+, 0, SubSeq(gaps, 1, n))
            Save(s, n) ==
                LET r == P!ScraperSnapshot(s.last, Time(n), [json |-> FALSE, body |-> FALSE, page |-> TRUE])
                IN [last |-> r.last, at |-> IF r.saved # {} THEN Append(s.at, Time(n)) ELSE s.at]
            run == FoldLeft(Save, [last |-> 0, at |-> <<>>], <<1, 2, 3, 4>>)
        IN /\ run.at[1] = Time(1)
           /\ \A i \in 1 .. Len(run.at) - 1 : run.at[i] + 2 <= run.at[i + 1]

-----------------------------------------------------------------------------
\* Requests: two with options, then two with userData, which a queue may save and load.
R == INSTANCE Request WITH Undef <- Unset

Options ==
    {[method |-> m, payload |-> b, errorMessages |-> <<>>, unexpected |-> FALSE] :
        m \in {"get", "GET", "POST"}, b \in {Unset, "string", "buffer", "object"}}

Thrown ==
    {[kind |-> k, message |-> m, stack |-> st, text |-> t] :
        k \in {"error", "object", "string"}, m \in {Unset, "string", "number"},
        st \in {"string", "undefined"}, t \in {Unset, "string"}}

\* A request that failed twice can be loaded from the queue again, as it was, if it has
\* no payload of bytes and no property of the user's own, and each thing thrown gave a
\* message that is a string.
ASSUME LoadsAgain ==
    \A options \in {o \in Options : R!Accepts(o)}, own \in BOOLEAN, thrown \in {<<a, b>> : a, b \in Thrown} :
        LET once == R!PushErrorMessage([R!NewRequest(options) EXCEPT !.unexpected = own], thrown[1], FALSE)
            twice == R!PushErrorMessage(once, thrown[2], FALSE)
            Good(t) == CASE t.kind = "error" -> t.stack = "string"
                         [] t.kind = "object" -> \/ t.message = "string"
                                                 \/ t.message = Unset /\ t.text # Unset
                         [] OTHER -> TRUE
            Told(t) == R!MessageOf(t, FALSE) # Unset
        IN Told(thrown[1]) /\ Told(thrown[2]) =>
             LET loaded == R!NewRequest(R!Saved(twice))
             IN IF ~own /\ options.payload # "buffer" /\ Good(thrown[1]) /\ Good(thrown[2])
                THEN loaded = twice
                ELSE loaded = Unset

UserOps ==
    {[kind |-> "skip", r |-> r, value |-> v] : r \in 1 .. 2, v \in BOOLEAN}
    \cup {[kind |-> "label", r |-> r, value |-> v] : r \in 1 .. 2, v \in {"a", "b"}}
    \cup {[kind |-> "data", r |-> r, value |-> Unset] : r \in 1 .. 2}
TwoRequests(o, skip) ==
    LET empty == [ objects |-> [i \in 1 .. 6 |-> R!Object(Unset, Unset, FALSE)],
                   notes |-> [i \in 1 .. 4 |-> Unset], userData |-> [r \in 1 .. 3 |-> 1] ]
    IN R!Construct(R!Construct(empty, 1, 1, skip[1]), 2, o, skip[2])
\* Operation i gives its request the new object i + 2.
AfterOps(heap, ops) ==
    FoldLeft(LAMBDA h, i :
                 CASE ops[i].kind = "skip" -> R!SetSkipNavigation(h, ops[i].r, ops[i].value)
                   [] ops[i].kind = "label" -> R!SetLabel(h, ops[i].r, ops[i].value)
                   [] OTHER -> R!SetUserData(h, ops[i].r, i + 2),
             heap, <<1, 2, 3>>)
LastOf(ops, r, kinds, first) ==
    LET own == {i \in 1 .. 3 : ops[i].r = r /\ ops[i].kind \in kinds}
    IN IF own = {} THEN first ELSE ops[Max(own)].value

\* Loaded again, a request with userData of its own has what was last said of it and
\* skips the navigation if that was last asked, even when its userData was replaced.
ASSUME OwnDataSaved ==
    \A ops \in [1 .. 3 -> UserOps], skip \in [1 .. 2 -> {Unset, TRUE, FALSE}], r \in 1 .. 2 :
        LET heap == AfterOps(TwoRequests(2, skip), ops)
            loaded == R!Load(heap, 3, R!ToJSON(heap, r), 6, 4)
        IN /\ R!Label(loaded, 3) = LastOf(ops, r, {"label", "data"}, Unset)
           /\ R!SkipNavigation(loaded, 3) <=> LastOf(ops, r, {"skip"}, skip[r]) = TRUE
           /\ R!SkipNavigation(heap, r) = R!SkipNavigation(loaded, 3)

\* Requests constructed with one userData object, as those of one pattern or one list of
\* URLs are, share their label and whether they skip the navigation; the earlier is saved
\* with what the later one has, until it gets an object of its own.
ASSUME SharedData ==
    \A ops \in [1 .. 3 -> UserOps], skip \in [1 .. 2 -> {Unset, TRUE}] :
        LET heap == AfterOps(TwoRequests(1, skip), ops)
            Replaced(r) == \E i \in 1 .. 3 : ops[i].kind = "data" /\ ops[i].r = r
        IN /\ ~Replaced(1) => R!ToJSON(heap, 1) = R!ToJSON(heap, 2)
           /\ ~Replaced(1) /\ ~Replaced(2) =>
                /\ R!Label(heap, 1) = R!Label(heap, 2)
                /\ R!SkipNavigation(heap, 1) = R!SkipNavigation(heap, 2)
=============================================================================
