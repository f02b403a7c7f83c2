----------------------------- MODULE MCBrowsers -----------------------------
(* Two calls and two controllers; each browser takes one page at a time    *)
(* and is retired after two.                                               *)
EXTENDS BrowserCrawler, Sequences, SequencesExt

CONSTANTS b1, b2, c1, c2

AllFaults == {"launch", "postLaunchHook", "createHook", "newPage", "closeHook", "crash",
              "cancel"}

(* Once destroy has begun one call at a time is followed.                  *)
Followed == destroyed = "no" \/ Cardinality({c \in Calls : pc[c] # "idle"}) <= 1

-----------------------------------------------------------------------------
(* How browsers are launched (BrowserLaunch): every combination of options *)
(* of two proxies and two libraries.                                       *)
L == INSTANCE BrowserLaunch WITH Undef <- None

ProxyUrls == {[scheme |-> s, server |-> v, auth |-> a] :
                  s \in {"http", "socks5"}, v \in {"p", "q"}, a \in BOOLEAN}
BlinkArgs == <<L!Arg("disable-blink-features", <<"X">>), L!Arg("mute", <<>>)>>
Environments ==
    {[headless |-> h, xvfb |-> x, chromePath |-> c, platform |-> "linux", files |-> {},
      playwrightPath |-> p, atHome |-> a] :
        h \in {"0", "1"}, x \in {"0", "1"}, c \in {None, "/chrome"}, p \in {None, "/image"},
        a \in BOOLEAN}
HomeOnly == {e \in Environments : e.atHome /\ e.xvfb = "0" /\ e.chromePath = None}
Contexts ==
    {[args |-> g, userAgent |-> u, headless |-> h, executable |-> x, useChrome |-> c,
      product |-> r, proxyUrl |-> p, proxy |-> L!Proxy(None, FALSE, b), incognito |-> i] :
        g \in {None, BlinkArgs}, u \in {None, "UA"}, h \in {None, TRUE}, x \in {None, "/own"},
        c \in BOOLEAN, r \in {"chromium", "firefox"},
        p \in {None} \cup {q \in ProxyUrls : L!ValidProxyUrl(q)}, b \in {None, "bypass"},
        i \in BOOLEAN}
Given == [args |-> <<>>, proxyUrl |-> None, incognito |-> None]
LaunchContexts ==
    {L!CreateLaunchContext(L!CreateBrowserPlugin(l, c, e), Given) :
        l \in {"puppeteer", "playwright"}, c \in Contexts, e \in HomeOnly}

(* A browser that was given a proxy never connects without it: it uses the *)
(* proxy, or the local one that carries the credentials of exactly it.     *)
ASSUME NoDirectConnection ==
    \A c \in LaunchContexts :
        c.proxyUrl # None =>
            LET o == L!Launch(c, None)
            IN  /\ c.proxyUrl.auth => o.proxy = L!Anonymized(c.proxyUrl.server)
                /\ ~c.proxyUrl.auth => o.local = {} /\ o.proxy = c.proxyUrl.server

(* A failed launch leaves no local proxy behind, and only that of the      *)
(* browser for the version leaves a browser behind.                        *)
ASSUME LaunchLeavesNothing ==
    \A c \in LaunchContexts, fault \in {"launch", "version"} :
        LET o == L!Launch(c, fault)
            unaffected == fault = "version" /\ (c.plugin.library = "puppeteer" \/ c.incognito)
        IN  /\ ~unaffected => o.local = {}
            /\ fault = "launch" => o.browsers = {}

(* Every argument that was given is among those of the launch, each of the *)
(* browser's own is there once, and a headless Chromium that has no        *)
(* fingerprint is told a user agent.                                       *)
ASSUME ArgumentsKept ==
    \A c \in LaunchContexts :
        LET args == L!Launch(c, None).args
            Named(n) == {i \in DOMAIN args : args[i].name = n}
        IN  /\ \A i \in DOMAIN c.options.args :
                   /\ args[i].name = c.options.args[i].name
                   /\ \A j \in DOMAIN c.options.args[i].values :
                          args[i].values[j] = c.options.args[i].values[j]
            /\ \A i, j \in DOMAIN args : args[i].name = args[j].name => i = j
            /\ c.options.headless /\ L!IsChromium(c) => Named("user-agent") # {}

(* The browser that runs: one that was named, else Chrome if it was asked  *)
(* for, else that of the image.                                            *)
ASSUME ExecutableChosen ==
    \A l \in {"puppeteer", "playwright"}, e \in Environments,
       c \in {x \in Contexts : x.args = None /\ x.userAgent = None /\ x.proxyUrl = None} :
        LET o == L!CreateBrowserPlugin(l, c, e).options
        IN  /\ c.executable # None => o.executable = c.executable
            /\ c.executable = None /\ c.useChrome =>
                   o.executable = (IF e.chromePath = None THEN "/usr/bin/google-chrome"
                                   ELSE e.chromePath)
            /\ c.headless = None => (o.headless <=> e.headless = "1" /\ e.xvfb = "0")

(* Browsers launched with one proxy carry one fingerprint, whatever was    *)
(* launched between them; without the cache each has its own.  All are of  *)
(* the browser's family, as long as the browsers of a pool are of one.     *)
ASSUME FingerprintPerProxy ==
    LET ctx(u) == [CHOOSE c \in LaunchContexts : c.plugin.product = "firefox"
                      EXCEPT !.proxyUrl = u]
        After(cache, urls) ==
            FoldLeft(LAMBDA acc, u :
                         LET r == L!PreLaunchHook(acc.cache, ctx(u), Len(acc.out) + 1)
                         IN  [cache |-> r.cache, out |-> Append(acc.out, r.context.fingerprint)],
                     [cache |-> cache, out |-> <<>>], urls)
        urls == {None} \cup {p \in ProxyUrls : p.scheme = "http"}
    IN  \A u \in SeqOf(urls, 3) :
            LET out == After([p \in {} |-> 0], u).out
            IN  /\ \A i, j \in DOMAIN u :
                       (out[i] = out[j]) <=> (i = j \/ (u[i] = u[j] /\ u[i] # None))
                /\ \A i \in DOMAIN u : /\ out[i].browser = "firefox"
                                       /\ After(None, u).out[i].id = i

(* Every page of Playwright shows the agent of its browser's fingerprint,  *)
(* once: that of the shared context or that of its own.                    *)
ASSUME AgentOfFingerprint ==
    \A c \in {x \in LaunchContexts : x.plugin.library = "playwright"} :
        LET launched == L!PreLaunchHook(None, c, 1).context
            agent == launched.fingerprint
            page == L!PrePageCreateHook(launched, L!PageOptions(launched, c.proxyUrl))
        IN  {launched.agent, IF page = None THEN None ELSE page.agent} = {agent, None}

(* Plugins take turns: any run of launches as long as the list uses all.   *)
ASSUME PluginsTakeTurns ==
    \A n \in 1 .. 3, from \in 0 .. 5 :
        {L!PickBrowserPlugin([i \in 1 .. n |-> i], from + k) : k \in 0 .. n - 1} = 1 .. n

(* A context that many pages share gets its script once, and a page of its *)
(* own context always has one.                                             *)
ASSUME InjectedOnce ==
    \A c \in {x \in LaunchContexts : x.proxyUrl = None}, n \in 1 .. 3 :
        L!ScriptsAfter(c, n) =
            IF c.plugin.library = "playwright" /\ ~c.incognito THEN 1 ELSE n

(* A page that was not opened, or was forsaken, leaves no local proxy; one *)
(* that is open goes through the proxy it was given.                       *)
ASSUME PageProxyKept ==
    \A url \in {p \in ProxyUrls : L!ValidProxyUrl(p)}, fault \in {None, "newPage", "cancel"} :
        LET p == L!NewIncognitoPage(L!NormalizeProxyOptions(url, None), fault)
        IN  /\ fault # None => p.local = {}
            /\ fault = None /\ url.auth => p.local = {p.server}
            /\ ~url.auth => p.server = url.server

-----------------------------------------------------------------------------
(* The options of crawlers (CrawlerOptions), in seconds, with chunks of    *)
(* two requests.                                                           *)
O == INSTANCE CrawlerOptions WITH Undef <- None, Secs <- 1, TimeoutBuffer <- 10,
                                  MaxSignedInteger <- 2000, ChunkSize <- 2

NoInternalTimeout == [internalTimeout |-> None]
CrawlerOptionChoices ==
    {[requestHandler |-> h, handleRequestFunction |-> None, handlePageFunction |-> p,
      failedRequestHandler |-> None, handleFailedRequestFunction |-> f,
      requestHandlerTimeoutSecs |-> t, handleRequestTimeoutSecs |-> o,
      navigationTimeoutSecs |-> n, requestQueue |-> q, maxRequestRetries |-> None,
      useSessionPool |-> s, persistCookiesPerSession |-> c, useFingerprints |-> None,
      minConcurrency |-> None, maxConcurrency |-> m,
      autoscaledPoolOptions |-> [desiredConcurrency |-> None, isFinishedFunction |-> None]] :
        h \in {None, "handler"}, p \in {None, "page"}, f \in {None, "failed"},
        t \in {None, 0, 200, 3000}, o \in {None, 50}, n \in {None, 100},
        q \in {None, "queue"}, s \in {None, TRUE, FALSE}, c \in {None, TRUE, FALSE},
        m \in {None, 5}}
ContextChoices ==
    {[userAgent |-> u, proxyUrl |-> p] : u \in {None, "UA"}, p \in {None, "proxy"}}

(* A handler of a CheerioCrawler is given up after the time that was set   *)
(* for it, before its task is; that of a crawler with browsers only with   *)
(* its task, so that it gets the time for the navigation too.              *)
ASSUME HandlersInTime ==
    \A o \in {x \in CrawlerOptionChoices : x.requestHandler # None} :
        LET cheerio == O!CheerioCrawlerOptions(o, NoInternalTimeout)
            paged == O!PuppeteerCrawlerOptions(o, [userAgent |-> None, proxyUrl |-> None],
                                                 NoInternalTimeout)
            asked == IF o.requestHandlerTimeoutSecs = None THEN 60 ELSE o.requestHandlerTimeoutSecs
        IN  /\ cheerio # None =>
                 /\ cheerio.userTimeout = asked
                 /\ \/ cheerio.basic.requestHandlerTimeout >= cheerio.navigationTimeout + asked + 10
                    \/ cheerio.basic.requestHandlerTimeout = 2000
            /\ (cheerio # None <=> paged # None)
            /\ paged # None => paged.userTimeout = paged.basic.requestHandlerTimeout

(* A queue that the crawler was given is not reset while a handler may     *)
(* still be at work, however long it may take; one that is opened on       *)
(* demand only if handlers are given up within five minutes.               *)
ASSUME ResetsAfterHandlers ==
    \A o \in {x \in CrawlerOptionChoices : x.requestHandler # None} :
        LET c == O!BasicCrawlerOptions(o, NoInternalTimeout)
        IN  /\ c.internalTimeout >= 2 * c.requestHandlerTimeout
            /\ (o.requestQueue # None \/ c.requestHandlerTimeout <= 150) =>
                   O!GetRequestQueue(c) >= 2 * c.requestHandlerTimeout

(* Cookies are kept with sessions only; a crawler with a userAgent of its  *)
(* own uses no fingerprints, unless it is Playwright's.                    *)
ASSUME OptionsAgree ==
    \A o \in {x \in CrawlerOptionChoices : x.handlePageFunction # None /\ x.navigationTimeoutSecs = None},
       l \in ContextChoices :
        LET p == O!PuppeteerCrawlerOptions(o, l, NoInternalTimeout)
            w == O!PlaywrightCrawlerOptions(o, l, NoInternalTimeout)
        IN  /\ (p = None) <=> (l.proxyUrl # None \/ (o.useSessionPool = FALSE
                                                     /\ o.persistCookiesPerSession = TRUE))
            /\ (p = None) <=> (w = None)
            /\ p # None => /\ p.persistCookies => p.basic.useSessionPool
                           /\ p.handler = (IF o.requestHandler # None THEN "handler" ELSE "page")
                           /\ p.useFingerprints <=> l.userAgent = None
                           /\ w.useFingerprints
                           /\ p.basic.pool.maxConcurrency = (IF o.maxConcurrency = 5 THEN 5 ELSE 1000)

(* An extension that is refused has overridden only what comes before the  *)
(* option that was refused; options that are set keep their type or are    *)
(* dropped.                                                                *)
ASSUME ExtensionsTyped ==
    LET types == [headers |-> "object", timeout |-> "number", proxy |-> None]
        options == {[key |-> k, type |-> t] :
                       k \in {"headers", "timeout", "proxy", "other"}, t \in {"object", "number", None}}
    IN  \A first, second \in options :
            LET after == O!UseExtension(types, <<first, second>>)
            IN  first.key # second.key =>
                  /\ \A k \in DOMAIN types : after.types[k] \in {types[k], None} \/ types[k] = None
                  /\ after.throws /\ ~O!MayOverride(types, first) => after.types = types
                  /\ ~after.throws => \A o \in {first, second} : after.types[o.key] = o.type

(* The session and the proxy that a handler is given belong together, with *)
(* incognito pages and without.                                            *)
ASSUME SessionMatchesProxy ==
    \A own, launched \in {"s1", "s2"}, incognito \in BOOLEAN,
       proxies \in {None, [s1 |-> "p1", s2 |-> "p2"]} :
        LET launch == O!ExtendLaunchContext(launched, proxies)
            handed == O!EnhanceContext(
                           O!NewPageOptions([session |-> own, proxy |-> None], proxies, incognito),
                           launch, incognito)
        IN  handed.proxy = IF proxies = None THEN None ELSE proxies[handed.session]

(* Every request is sent until the storage takes it, in the given order    *)
(* but for those sent again, no chunk before the one ahead of it is done,  *)
(* and none after it was taken.                                            *)
ASSUME AddedInOrder ==
    \A answers \in [1 .. 4 -> SUBSET {1, 2, 3}], wait \in BOOLEAN :
        LET added == O!AddRequests(<<1, 2, 3>>, wait, answers)
            taken == UNION {answers[i] \cap ToSet(added.calls[i]) : i \in DOMAIN added.calls}
        IN  /\ ToSet(added.open) = {1, 2, 3} \ taken
            /\ \A i, j \in DOMAIN added.calls :
                 i < j => /\ ToSet(added.calls[j]) \cap ToSet(added.calls[i]) \cap answers[i] = {}
                          /\ \A r \in ToSet(added.calls[i]), q \in ToSet(added.calls[j]) :
                               (r + 1) \div 2 <= (q + 1) \div 2
            /\ added.returned => (IF wait THEN {1, 2, 3} ELSE {1, 2}) \subseteq taken

=============================================================================
