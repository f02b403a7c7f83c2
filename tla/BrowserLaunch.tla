--------------------------- MODULE BrowserLaunch ---------------------------
(***************************************************************************)
(* How a browser is configured and launched: BrowserLauncher, the launch   *)
(* context, the plugins of Puppeteer and Playwright, the local proxies     *)
(* that carry the credentials of a proxy, and the fingerprint hooks.       *)
(*                                                                         *)
(* An argument of the browser is [name, values]; a proxy URL is            *)
(* [scheme, server, auth].                                                 *)
(***************************************************************************)
EXTENDS Naturals, Sequences

CONSTANT Undef                          \* a missing option

Or(x, default) == IF x = Undef THEN default ELSE x      \* destructuring's default
Arg(name, values) == [name |-> name, values |-> values]
Has(args, name) == \E i \in DOMAIN args : args[i].name = name

-----------------------------------------------------------------------------
(* BrowserLauncher.                                                        *)

(* Credentials go with an HTTP proxy only.                                 *)
ValidProxyUrl(url) ==
    \/ url = Undef
    \/ /\ url.scheme \in {"http", "https", "socks4", "socks5"}
       /\ url.auth => url.scheme \in {"http", "https"}

DefaultHeadless(env) == env.headless = "1" /\ env.xvfb # "1"

TypicalChrome(platform, files) ==
    CASE platform = "darwin" -> "/Applications/Google Chrome.app"
      [] platform = "win32" ->
            IF "ProgramFiles" \in files THEN "ProgramFiles"
            ELSE IF "ProgramFiles(x86)" \in files THEN "ProgramFiles(x86)"
            ELSE "C:/Program Files"
      [] OTHER -> "/usr/bin/google-chrome"

ChromePath(env) == Or(env.chromePath, TypicalChrome(env.platform, env.files))

(* getDefaultExecutablePath, by which the launcher of Playwright replaces  *)
(* the executable before it builds the options.                            *)
PlaywrightPath(context, env) ==
    IF context.executable # Undef THEN context.executable
    ELSE IF context.useChrome THEN Undef
    ELSE env.playwrightPath

CreateLaunchOptions(context, env) ==
    [ args |-> Or(context.args, <<>>)
                 \o (IF env.atHome THEN <<Arg("no-sandbox", <<>>)>> ELSE <<>>)
                 \o (IF context.userAgent # Undef
                     THEN <<Arg("user-agent", <<context.userAgent>>)>> ELSE <<>>),
      headless |-> IF context.headless = Undef THEN DefaultHeadless(env) ELSE context.headless,
      executable |-> IF context.useChrome /\ context.executable = Undef
                     THEN ChromePath(env) ELSE context.executable,
      proxy |-> context.proxy ]

(* The constructor of the launcher of Playwright; that of Puppeteer leaves *)
(* the options alone.                                                      *)
PlaywrightLauncher(context, env) == [context EXCEPT !.executable = PlaywrightPath(context, env)]

NewPlugin(library, product, options, proxyUrl, incognito) ==
    [ library |-> library, product |-> product, options |-> options,
      proxyUrl |-> proxyUrl, incognito |-> Or(incognito, FALSE) ]

(* The plugin that a crawler hands to its pool.                            *)
CreateBrowserPlugin(library, context, env) ==
    LET given == IF library = "playwright" THEN PlaywrightLauncher(context, env) ELSE context
    IN  NewPlugin(library, context.product, CreateLaunchOptions(given, env),
                  context.proxyUrl, context.incognito)

(* Pools with several plugins take them in turns.                          *)
PickBrowserPlugin(plugins, pageCounter) == plugins[(pageCounter % Len(plugins)) + 1]

-----------------------------------------------------------------------------
(* BrowserPlugin: the launch context and what every launch adds to it.     *)

(* merge() goes through two lists of arguments position by position: one   *)
(* that is given replaces the plugin's at its place.                       *)
MergeArgs(own, given) ==
    [i \in 1 .. (IF Len(own) < Len(given) THEN Len(given) ELSE Len(own)) |->
        IF i <= Len(given) THEN given[i] ELSE own[i]]

(* agent: launchOptions.userAgent, which only Playwright knows.            *)
LaunchContext(plugin, options, proxyUrl, incognito) ==
    [ plugin |-> plugin, options |-> options, proxyUrl |-> proxyUrl, incognito |-> incognito,
      fingerprint |-> Undef, injected |-> FALSE, agent |-> Undef ]

CreateLaunchContext(plugin, given) ==
    LaunchContext(plugin, [plugin.options EXCEPT !.args = MergeArgs(@, given.args)],
                  Or(given.proxyUrl, plugin.proxyUrl), Or(given.incognito, plugin.incognito))

(* The setter of proxyUrl: undefined leaves the proxy as it is.            *)
SetProxyUrl(context, url) == IF url = Undef THEN context ELSE [context EXCEPT !.proxyUrl = url]

HideWebdriver(args) ==
    LET name == "disable-blink-features"
        at == CHOOSE i \in DOMAIN args :
                  args[i].name = name /\ \A j \in 1 .. i - 1 : args[j].name # name
    IN  IF Has(args, name)
        THEN [args EXCEPT ![at].values = Append(@, "AutomationControlled")]
        ELSE Append(args, Arg(name, <<"AutomationControlled">>))

IsChromium(context) == context.plugin.product \in {"chrome", "chromium"}

NoProxy == [server |-> Undef, auth |-> FALSE, bypass |-> Undef]
Proxy(server, auth, bypass) == [server |-> server, auth |-> auth, bypass |-> bypass]

(* PlaywrightPlugin._addProxyToLaunchOptions takes the place of the proxy  *)
(* option; that of Puppeteer does nothing.                                 *)
AddProxy(context) ==
    IF context.proxyUrl = Undef \/ context.plugin.library = "puppeteer" THEN context
    ELSE [context EXCEPT !.options.proxy =
              Proxy(context.proxyUrl.server, context.proxyUrl.auth, Undef)]

(* BrowserPlugin.launch, up to the launch of the library.                  *)
Prepare(context) ==
    LET proxied == AddProxy(context)
        hidden == HideWebdriver(proxied.options.args)
        masked == IF /\ proxied.options.headless /\ proxied.fingerprint = Undef
                     /\ ~Has(hidden, "user-agent")
                  THEN Append(hidden, Arg("user-agent", <<"DEFAULT_USER_AGENT">>)) ELSE hidden
    IN  IF IsChromium(context) THEN [proxied EXCEPT !.options.args = masked] ELSE proxied

-----------------------------------------------------------------------------
(* The launch.  A proxy with credentials is put behind a local one, which  *)
(* the browser uses without them; it is closed with the browser, or when   *)
(* the launch fails.                                                       *)

Anonymized(server) == <<"anonymized", server>>
LocalProxy == <<"local", "proxy-chain">>

(* anonymizeProxySugar: the credentials are those of the URL or are given. *)
AnonymizeProxySugar(server, auth) ==
    IF server # Undef /\ auth THEN Anonymized(server) ELSE Undef

Outcome(browsers, local, args, proxy) ==
    [browsers |-> browsers, local |-> local, args |-> args, proxy |-> proxy]

UrlAnonymized(context) ==
    IF context.proxyUrl = Undef THEN Undef
    ELSE AnonymizeProxySugar(context.proxyUrl.server, context.proxyUrl.auth)

(* fault: the library does not launch.                                     *)
LaunchPuppeteer(context, fault) ==
    LET c == Prepare(context)
        anonymized == UrlAnonymized(c)
        server == IF anonymized # Undef THEN anonymized
                  ELSE IF c.proxyUrl # Undef THEN c.proxyUrl.server ELSE Undef
        args == c.options.args
                  \o (IF c.options.headless = FALSE
                      THEN <<Arg("disable-site-isolation-trials", <<>>)>> ELSE <<>>)
                  \o (IF server # Undef THEN <<Arg("proxy-server", <<server>>)>> ELSE <<>>)
    IN  IF fault = "launch" THEN Outcome({}, {}, args, Undef)
        ELSE Outcome({"browser"}, {anonymized} \ {Undef}, args, server)

(* A persistent context, unless pages are incognito; the first one also    *)
(* launches a browser for its version.  When that fails ("version") the    *)
(* context that was launched is left running, its local proxy closed.      *)
LaunchPlaywright(context, fault) ==
    LET c == Prepare(context)
        anonymized == UrlAnonymized(c)
        option == c.options.proxy
        server == IF anonymized # Undef THEN anonymized
                  ELSE Or(option.server, LocalProxy)
    IN  CASE fault = "launch" -> Outcome({}, {}, c.options.args, Undef)
          [] fault = "version" /\ ~c.incognito ->
                Outcome({"context"}, {}, c.options.args, server)
          [] OTHER -> Outcome({IF c.incognito THEN "browser" ELSE "context"},
                              {anonymized} \ {Undef}, c.options.args, server)

Launch(context, fault) ==
    IF context.plugin.library = "puppeteer" THEN LaunchPuppeteer(context, fault)
    ELSE LaunchPlaywright(context, fault)

-----------------------------------------------------------------------------
(* The proxy of a page of its own, in a browser with incognito pages.      *)

(* normalizeProxyOptions of the controllers: nothing without a URL.        *)
NormalizeProxyOptions(proxyUrl, bypass) ==
    IF proxyUrl = Undef THEN NoProxy ELSE Proxy(proxyUrl.server, proxyUrl.auth, bypass)

(* PlaywrightController._newPage.  fault: the page does not open, or the   *)
(* caller has given up when it is open ("cancel"): the local proxy is      *)
(* closed, and in the second case the page stays.                          *)
NewIncognitoPage(pageProxy, fault) ==
    LET anonymized == AnonymizeProxySugar(pageProxy.server, pageProxy.auth)
    IN  [ page |-> fault # "newPage",
          server |-> IF anonymized # Undef THEN anonymized ELSE pageProxy.server,
          local |-> IF fault = Undef THEN {anonymized} \ {Undef} ELSE {} ]

-----------------------------------------------------------------------------
(* Fingerprints.                                                           *)

GeneratorBrowser(product) ==
    CASE product = "webkit" -> "safari" [] product = "firefox" -> "firefox" [] OTHER -> "chrome"

(* The hook before a launch: cache is a function from proxies to           *)
(* fingerprints, or Undef when the pool keeps none; id tells what the      *)
(* generator makes from what it made before.                               *)
PreLaunchHook(cache, context, id) ==
    LET url == context.proxyUrl
        cached == cache # Undef /\ url # Undef /\ url \in DOMAIN cache
        fingerprint == IF cached THEN cache[url]
                       ELSE [id |-> id, browser |-> GeneratorBrowser(context.plugin.product)]
    IN  [ context |-> [context EXCEPT !.fingerprint = fingerprint,
                                      !.agent = IF context.incognito THEN @ ELSE fingerprint],
          cache |-> IF cache = Undef \/ url = Undef THEN cache
                    ELSE [u \in DOMAIN cache \cup {url} |->
                             IF u = url THEN fingerprint ELSE cache[u]] ]

(* What a page is opened with: options of its own only when it is          *)
(* incognito, and then with the proxy that the caller names.               *)
PageOptions(context, proxyUrl) ==
    IF context.incognito THEN [proxy |-> NormalizeProxyOptions(proxyUrl, Undef), agent |-> Undef]
    ELSE Undef

(* The hook before a page is created.                                      *)
PrePageCreateHook(context, pageOptions) ==
    IF context.incognito /\ context.plugin.library = "playwright" /\ pageOptions # Undef
    THEN [pageOptions EXCEPT !.agent = context.fingerprint] ELSE pageOptions

(* The hook after a page is created: whether a script is attached, and     *)
(* whether the launch context remembers it, which it does at the end.      *)
Attaches(context) == context.plugin.library = "playwright" => ~context.injected
Attached(context) ==
    IF context.plugin.library = "playwright" /\ ~context.incognito
    THEN [context EXCEPT !.injected = TRUE] ELSE context

(* Scripts attached in a browser by n pages that are created one after the *)
(* other.                                                                  *)
RECURSIVE ScriptsAfter(_, _)
ScriptsAfter(context, n) ==
    IF n = 0 THEN 0
    ELSE (IF Attaches(context) THEN 1 ELSE 0)
           + ScriptsAfter(IF Attaches(context) THEN Attached(context) ELSE context, n - 1)
=============================================================================
