----------------------------- MODULE ApifyProxy -----------------------------
(***************************************************************************)
(* The ProxyConfiguration of the apify package: which proxies its options  *)
(* choose, the URL of the Apify Proxy for a session, and initialize(),     *)
(* which looks up the password and asks the proxy whether it may be used.  *)
(*                                                                         *)
(* What throws yields Undef.  A proxy URL is [username, password,          *)
(* hostname, port]; its username is a sequence of parts, "auto" when       *)
(* there are none.                                                         *)
(***************************************************************************)
EXTENDS Naturals, Sequences

CONSTANTS Undef, CheckAccessMaxAttempts

Given(x) == x # Undef
Either(x, y) == IF Given(x) THEN x ELSE y

-----------------------------------------------------------------------------
(* The constructors.                                                       *)

(* That of the core package; the apify package calls it with               *)
(* validateRequired = FALSE.                                               *)
CoreAccepts(options, validateRequired) ==
    /\ ~(Given(options.proxyUrls) /\ Given(options.newUrlFunction))
    /\ validateRequired => Given(options.proxyUrls) \/ Given(options.newUrlFunction)

(* env is what the Configuration knows: of the environment, or its         *)
(* defaults.                                                               *)
NewProxyConfiguration(options, env) ==
    LET groups == IF options.groups # <<>> THEN options.groups ELSE options.apifyProxyGroups
        countryCode == Either(options.countryCode, options.apifyProxyCountry)
        custom == Given(options.proxyUrls) \/ Given(options.newUrlFunction)
    IN  IF \/ ~CoreAccepts(options, FALSE)
           \/ custom /\ (groups # <<>> \/ Given(countryCode))
        THEN Undef
        ELSE [ proxyUrls |-> options.proxyUrls, newUrlFunction |-> options.newUrlFunction,
               groups |-> groups, countryCode |-> countryCode,
               password |-> Either(options.password, env.proxyPassword),
               hostname |-> env.proxyHostname, port |-> env.proxyPort,
               usesApifyProxy |-> ~custom, isManInTheMiddle |-> FALSE ]

-----------------------------------------------------------------------------
(* URLs.                                                                   *)

GetUsername(config, sessionId) ==
    LET parts == (IF config.groups # <<>> THEN <<<<"groups", config.groups>>>> ELSE <<>>)
                   \o (IF Given(sessionId) THEN <<<<"session", sessionId>>>> ELSE <<>>)
                   \o (IF Given(config.countryCode)
                       THEN <<<<"country", config.countryCode>>>> ELSE <<>>)
    IN  IF parts = <<>> THEN <<<<"auto">>>> ELSE parts

ApifyUrl(config, sessionId) ==
    [ username |-> GetUsername(config, sessionId), password |-> config.password,
      hostname |-> config.hostname, port |-> config.port ]

(* _callNewUrlFunction: what is no URL, or an error of the function,       *)
(* throws.                                                                 *)
CallNewUrlFunction(config, sessionId) == config.newUrlFunction[sessionId]

(* custom is what _handleCustomUrl of the core package returns.            *)
NewUrl(config, sessionId, custom) ==
    IF Given(config.newUrlFunction) THEN CallNewUrlFunction(config, sessionId)
    ELSE IF Given(config.proxyUrls) THEN custom
    ELSE ApifyUrl(config, sessionId)

NewProxyInfo(config, sessionId, custom) ==
    LET url == NewUrl(config, sessionId, custom)
        from == IF config.usesApifyProxy THEN config ELSE url
    IN  IF url = Undef THEN Undef
        ELSE [ sessionId |-> sessionId, url |-> url,
               groups |-> IF config.usesApifyProxy THEN config.groups ELSE Undef,
               countryCode |-> IF config.usesApifyProxy THEN config.countryCode ELSE Undef,
               password |-> Either(from.password, ""),
               hostname |-> from.hostname, port |-> from.port ]

-----------------------------------------------------------------------------
(* initialize().                                                           *)

(* A password that is given stays, even when the token is another user's.  *)
SetPasswordIfToken(config, token, userPassword) ==
    LET known == IF Given(token) THEN Either(config.password, userPassword) ELSE config.password
    IN  IF Given(known) THEN [config EXCEPT !.password = known] ELSE Undef

(* _fetchStatus: answers are those that the requests would get, one after  *)
(* the other, Undef for an error of the connection.                        *)
FetchStatus(answers) ==
    LET answered == {i \in 1 .. CheckAccessMaxAttempts : Given(answers[i])}
    IN  IF answered = {} THEN Undef
        ELSE answers[CHOOSE i \in answered : \A j \in answered : i <= j]

(* A proxy that cannot be reached is only warned about.                    *)
CheckAccess(config, status) ==
    IF status = Undef THEN config
    ELSE IF ~status.connected THEN Undef
    ELSE [config EXCEPT !.isManInTheMiddle = status.isManInTheMiddle]

Initialize(config, token, userPassword, answers) ==
    LET named == SetPasswordIfToken(config, token, userPassword)
    IN  IF ~config.usesApifyProxy THEN config
        ELSE IF named = Undef THEN Undef
        ELSE CheckAccess(named, FetchStatus(answers))

-----------------------------------------------------------------------------
(* Actor.createProxyConfiguration: <<>> when there is none, so that the    *)
(* crawler goes without a proxy.  A newUrlFunction does not count as a     *)
(* custom proxy here.                                                      *)
CreateProxyConfiguration(options, env, token, userPassword, answers) ==
    LET config == NewProxyConfiguration(options, env)
    IN  IF options.useApifyProxy = FALSE /\ ~Given(options.proxyUrls) THEN <<>>
        ELSE IF config = Undef THEN <<Undef>>
        ELSE <<Initialize(config, token, userPassword, answers)>>
=============================================================================
