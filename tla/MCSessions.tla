----------------------------- MODULE MCSessions -----------------------------
(* Two tasks and user code share a pool of one session and two proxies.    *)
EXTENDS CheerioCrawler, TLC

CONSTANTS s1, s2, t1, t2, user

MCProxyUrls == <<"p1", "p2">>

(* Sessions that are used more often are followed while the user adds none *)
(* and none expires.                                                       *)
Followed == Uses <= 3 \/ (added = 0 /\ expired = {})

-----------------------------------------------------------------------------
(* The cookies of sessions (Cookies), over two hosts of a site and one     *)
(* outside of it.                                                          *)
C == INSTANCE Cookies WITH Undef <- None

Site == <<"com", "site">>
Www == <<"com", "site", "www">>
Other == <<"com", "other">>
Urls == {[host |-> h, secure |-> s] : h \in {Site, Www, Other}, s \in BOOLEAN}
SetCookieHeaders ==
    {None} \cup
    {[key |-> k, value |-> v, domain |-> d, expires |-> e, secure |-> s] :
        k \in {"a", "b"}, v \in {1, 2}, d \in {None, Site, Other}, e \in {0, 5}, s \in {FALSE}}
Applied(jar, url) == {<<c.key, c.value>> : c \in C!InJar(jar, url, 0)}

(* However bad or foreign the other cookies of a response are, one that    *)
(* may be set is there for the next request, unless a later one took its   *)
(* place; and no response sets a cookie for a host outside of its own      *)
(* site.                                                                   *)
ASSUME GoodCookiesSurvive ==
    \A c1, c2 \in SetCookieHeaders, u \in {[host |-> h, secure |-> TRUE] : h \in {Site, Www}} :
        LET jar == C!SetCookiesFromResponse({}, <<c1, c2>>, u)
        IN  /\ c2 # None /\ c2.domain # Other => <<c2.key, c2.value>> \in Applied(jar, u)
            /\ c1 # None /\ c1.domain # Other /\ (c2 # None => c2.key # c1.key) =>
                   <<c1.key, c1.value>> \in Applied(jar, u)
            /\ Applied(jar, [u EXCEPT !.host = Other]) = {}

(* A cookie that a page had for a URL is given to the next page for it, as *)
(* long as it has not expired; one without a date as long as the session   *)
(* lives.  The only change is that its domain has no dot.                  *)
ASSUME PageCookiesComeBack ==
    \A u \in Urls, now \in 0 .. 7, dotted, secure \in BOOLEAN, e \in {-1, 3} :
        LET cookie == [key |-> "a", value |-> 1, domain |-> u.host, dotted |-> dotted,
                       expires |-> e, secure |-> secure]
            jar == C!SetPuppeteerCookies({}, <<cookie>>, u, 1, 4)
            lives == now < (IF e = -1 THEN 5 ELSE e) /\ (secure => u.secure)
        IN  C!GetPuppeteerCookies(jar, u, now) =
                IF lives THEN {[cookie EXCEPT !.dotted = FALSE, !.expires = IF e = -1 THEN 5 ELSE e]}
                ELSE {}

(* The header of a request has every cookie that the session, the request  *)
(* or a hook sets, with the value of the last of them: a hook that changes *)
(* the request has the last word over gotOptions, the request and the      *)
(* session.                                                                *)
ASSUME LastSourceWins ==
    LET sources == {<<>>, <<C!Pair("a", 1)>>, <<C!Pair("b", 2), C!Pair("a", 3)>>}
        headers == {[Cookie |-> c, cookie |-> d] : c \in {None} \cup sources, d \in {None, <<C!Pair("a", 4)>>}}
        Value(list, key) == {list[i].value : i \in {j \in DOMAIN list : list[j].key = key}}
        Here(h) == C!GetCookieHeader(h)
        url == [host |-> Site, secure |-> TRUE]
        jars == {C!SetCookies({}, list, url) : list \in sources}
        strings == UNION {C!CookieStrings(jar, url, 0) : jar \in jars}
    IN  \A session \in strings, before, got, after \in headers :
            LET merged == C!ApplyCookies(session, before, got, after)
                order == <<Here(after), Here(got), Here(before), session>>
                First(key) == CHOOSE i \in 1 .. 4 :
                    /\ Value(order[i], key) # {}
                    /\ \A j \in 1 .. i - 1 : Value(order[j], key) = {}
            IN  /\ DOMAIN merged = {k \in {"a", "b"} : \E i \in 1 .. 4 : Value(order[i], k) # {}}
                /\ \A k \in DOMAIN merged : merged[k] \in Value(order[First(k)], k)

(* The cookies of the headers come after the session's in a page, too, and *)
(* none is left out but those that are no cookies.                         *)
ASSUME PageGetsAll ==
    \A session \in {<<>>, <<C!Pair("a", 1)>>}, bad \in BOOLEAN :
        LET header == <<C!Pair("a", 2)>> \o (IF bad THEN <<None>> ELSE <<>>)
            none == [Cookie |-> None, cookie |-> None]
            given == C!ApplyCookiesToPage(session, none, [none EXCEPT !.cookie = header])
        IN  given = session \o <<C!Pair("a", 2)>>

-----------------------------------------------------------------------------
(* The Apify Proxy (ApifyProxy), over every combination of its options.    *)
A == INSTANCE ApifyProxy WITH Undef <- None, CheckAccessMaxAttempts <- 2

AnyUrl == [username |-> "u", password |-> None, hostname |-> "h", port |-> 1]
ProxyOptions ==
    {[proxyUrls |-> u, newUrlFunction |-> f, groups |-> g, apifyProxyGroups |-> h,
      countryCode |-> c, apifyProxyCountry |-> d, password |-> p, useApifyProxy |-> a] :
        u \in {None, <<AnyUrl>>}, f \in {None, [s \in {"s", None} |-> AnyUrl]},
        g \in {<<>>, <<"G">>}, h \in {<<>>, <<"H", "I">>}, c \in {None, "US"}, d \in {None, "CZ"},
        p \in {None, "own"}, a \in {None, TRUE, FALSE}}
ProxyEnv(p) == [proxyPassword |-> p, proxyHostname |-> "proxy.apify.com", proxyPort |-> 8000]
Status(c, m) == [connected |-> c, isManInTheMiddle |-> m]
Answers == [1 .. 3 -> {None, Status(TRUE, TRUE), Status(FALSE, FALSE)}]
Configurations(answers) ==
    LET made == {A!CreateProxyConfiguration(o, ProxyEnv(p), t, "theirs", answers) :
                    o \in ProxyOptions, p \in {None, "env"}, t \in {None, "token"}}
    IN  {m[1] : m \in {x \in made : x # <<>>}} \ {None}

(* A configuration that is initialized can make a URL with a password for  *)
(* every session, its own if it was given one; and sessions, groups and    *)
(* countries never share a URL.                                            *)
ASSUME UrlsUsable ==
    LET apify == {c \in Configurations([i \in 1 .. 3 |-> None]) : c.usesApifyProxy}
    IN  /\ \A c, d \in apify, s, t \in {None, "s", "t"} :
               A!ApifyUrl(c, s).username = A!ApifyUrl(d, t).username <=>
                   <<c.groups, c.countryCode, s>> = <<d.groups, d.countryCode, t>>
        /\ \A c \in apify, s \in {None, "s"} :
               A!NewProxyInfo(c, s, AnyUrl).password \in {"own", "env", "theirs"}

(* Initialization fails exactly when the first answer of two attempts says *)
(* that the proxy may not be used; no answer lets it pass.                 *)
ASSUME AccessChecked ==
    \A answers \in Answers :
        LET o == [CHOOSE x \in ProxyOptions : x.proxyUrls = None /\ x.newUrlFunction = None
                    EXCEPT !.useApifyProxy = TRUE]
            made == A!CreateProxyConfiguration(o, ProxyEnv("env"), None, None, answers)
            first == IF answers[1] # None THEN answers[1] ELSE answers[2]
        IN  made = <<None>> <=> first # None /\ ~first.connected

(* Custom proxies are never mixed with the Apify Proxy: a configuration    *)
(* has one source of URLs, and a request for none at all is only taken for *)
(* one when no list of URLs was given.                                     *)
ASSUME OneSourceOfUrls ==
    \A o \in ProxyOptions :
        LET c == A!CreateProxyConfiguration(o, ProxyEnv("env"), None, None, [i \in 1 .. 3 |-> None])
            apify == o.groups # <<>> \/ o.apifyProxyGroups # <<>>
                       \/ o.countryCode # None \/ o.apifyProxyCountry # None
            lists == (IF o.proxyUrls # None THEN 1 ELSE 0) + (IF o.newUrlFunction # None THEN 1 ELSE 0)
        IN  IF o.useApifyProxy = FALSE /\ o.proxyUrls = None THEN c = <<>>
            ELSE c = <<None>> <=> lists + (IF apify THEN 1 ELSE 0) > 1

-----------------------------------------------------------------------------
(* Answers (HttpResponse), over every kind of content type and encoding.   *)
H == INSTANCE HttpResponse WITH Undef <- None

Type(t, c) == [type |-> t, charset |-> c]
Charsets == {None, "latin1", "windows-1250", "klingon"}
ContentTypes ==
    {None, Type(None, None)}
      \cup {Type(t, c) : t \in {"text/html", "application/xml", "application/json", "image/png"},
                         c \in Charsets}
Answered ==
    {[statusCode |-> s, contentType |-> t, extension |-> x] :
        s \in {200, 403, 404, 406, 500}, t \in ContentTypes,
        x \in {None, Type("text/html", "utf8"), Type("image/png", None)}}
Crawlers ==
    {[force |-> f, suggest |-> g, additional |-> a, useSessionPool |-> TRUE] :
        f \in Charsets, g \in {None, "latin1"}, a \in {{}, {"image/png"}}}

(* The answer as CheerioCrawler knows it.                                  *)
Abstract(crawler, answer) ==
    LET type == H!ParseContentType(answer).type
    IN  [ status |-> CASE answer.statusCode \in {401, 403, 429} -> "blocked"
                       [] answer.statusCode = 406 -> "notAcceptable"
                       [] answer.statusCode >= 500 -> "serverError"
                       [] OTHER -> "ok",
          type |-> CASE type \in H!HtmlAndXmlMimeTypes -> "html"
                     [] type \in H!SupportedTypes(crawler.additional) -> "json"
                     [] OTHER -> "other" ]

(* The detailed answer has the outcome that CheerioCrawler gives it, but   *)
(* for one in an encoding that is not supported, which is tried again.     *)
ASSUME OutcomesAgree ==
    \A c \in Crawlers, r \in Answered :
        LET readable == H!EncodeResponse(c, H!ParseContentType(r).charset) # None
            outcome == Outcome(Abstract(c, r))
        IN  H!OutcomeOf(c, r) = IF readable \/ outcome = "noRetry" THEN outcome ELSE "retry"

(* The handler gets $ exactly for documents, and json only for JSON; the   *)
(* encoding it is told is the one the text has by then.                    *)
ASSUME ContextTruthful ==
    \A c \in Crawlers, valid \in BOOLEAN :
    \A r \in {x \in Answered : H!OutcomeOf(c, x) = "handle"} :
        LET context == H!ContextOf(c, r, valid)
            type == H!ParseContentType(r)
            encoded == H!EncodeResponse(c, type.charset)
        IN  /\ context.dollar <=> type.type \in {"text/html", "application/xml"}
            /\ context.json # "null" <=> type.type = "application/json"
            /\ (context.body = "buffer") <=> ~context.dollar
            /\ encoded.encoding =
                   (IF encoded.reencoded # None THEN "utf8"
                    ELSE IF c.force # None THEN c.force
                    ELSE IF type.charset # None THEN type.charset
                    ELSE IF c.suggest # None THEN c.suggest ELSE "utf8")

(* A hook may change what is requested, but not whether the certificate is *)
(* verified, nor drop a header of the request that it does not name.       *)
ASSUME HooksBounded ==
    \A ignore, mitm \in BOOLEAN, m \in {"GET", "POST"},
       got \in {[headers |-> <<>>], [headers |-> [a |-> 2], url |-> "u2"],
                [headers |-> [b |-> 3], rejectUnauthorized |-> TRUE, body |-> "hook"]} :
        LET request == [url |-> "u", method |-> m, headers |-> [a |-> 1], payload |-> "data"]
            o == H!GetRequestOptions(
                     [requestTimeout |-> 30, ignoreSslErrors |-> ignore, isManInTheMiddle |-> mitm],
                     request, "session", "proxy", got)
        IN  /\ o.rejectUnauthorized <=> ~ignore /\ ~mitm
            /\ o.headers["a"] = (IF "a" \in DOMAIN got.headers THEN 2 ELSE 1)
            /\ o.proxyUrl = "proxy" /\ o.sessionToken = "session"
            /\ m = "POST" => o.body = "data"

(* Every link of a document that names one is found, in order, and none of *)
(* them is relative.                                                       *)
ASSUME LinksResolved ==
    LET href(a, p) == [absolute |-> a, path |-> p]
        hrefs == {None, href(TRUE, <<"x">>), href(FALSE, <<"y">>)}
    IN  \A list \in UNION {[1 .. n -> hrefs] : n \in 0 .. 3}, base \in {None, "base"}, d \in BOOLEAN :
            LET urls == H!LinksOf([dollar |-> d], list, base)
                relative == \E i \in DOMAIN list : list[i] # None /\ ~list[i].absolute
            IN  IF ~d \/ (base = None /\ relative) THEN urls = None
                ELSE /\ Len(urls) = Cardinality({i \in DOMAIN list : list[i] # None})
                     /\ \A i \in DOMAIN urls : urls[i] \in {<<"x">>, <<"base", <<"y">>>>}

-----------------------------------------------------------------------------
Symmetry == Permutations({s1, s2}) \cup Permutations({t1, t2})
=============================================================================
