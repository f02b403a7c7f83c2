------------------------------ MODULE Cookies ------------------------------
(***************************************************************************)
(* The cookies of a session: how its jar is filled from responses and from *)
(* pages, and how they are put together with the Cookie header of a        *)
(* request for the next one.                                               *)
(*                                                                         *)
(* A host is a sequence of labels from the top (<<"com", "site", "www">>), *)
(* so that a domain is a prefix of its hosts.  A cookie is [key, value,    *)
(* domain, expires, secure], expires in seconds (0: it has no date);       *)
(* the text of a cookie that does not parse is Undef.                      *)
(* tough-cookie is external.                                               *)
(***************************************************************************)
EXTENDS Naturals, Sequences, FiniteSets, SequencesExt

CONSTANT Undef

Pair(key, value) ==
    [key |-> key, value |-> value, domain |-> Undef, expires |-> 0, secure |-> FALSE]

-----------------------------------------------------------------------------
(* CookieJar of tough-cookie.  An entry is a cookie whose domain is known, *)
(* hostOnly when the cookie named none.                                    *)

MayBeSet(cookie, url) ==
    cookie # Undef /\ (cookie.domain = Undef \/ IsPrefix(cookie.domain, url.host))

SetInJar(jar, cookie, url) ==
    LET domain == IF cookie.domain = Undef THEN url.host ELSE cookie.domain
    IN  {c \in jar : <<c.key, c.domain>> # <<cookie.key, domain>>}
          \cup {[key |-> cookie.key, value |-> cookie.value, domain |-> domain,
                 hostOnly |-> cookie.domain = Undef, expires |-> cookie.expires,
                 secure |-> cookie.secure]}

InJar(jar, url, now) ==
    {c \in jar : /\ IF c.hostOnly THEN c.domain = url.host ELSE IsPrefix(c.domain, url.host)
                 /\ c.secure => url.secure
                 /\ c.expires = 0 \/ c.expires > now}

-----------------------------------------------------------------------------
(* Session.                                                                *)

(* _setCookies: a cookie that the jar refuses is left out, the others are  *)
(* set one after the other.                                                *)
SetCookies(jar, cookies, url) ==
    FoldLeft(LAMBDA j, cookie : IF MayBeSet(cookie, url) THEN SetInJar(j, cookie, url) ELSE j,
             jar, cookies)

(* getCookiesFromResponse: headers is one cookie or a list; what does not  *)
(* parse is dropped by its caller.                                         *)
GetCookiesFromResponse(headers) == SelectSeq(headers, LAMBDA cookie : cookie # Undef)

SetCookiesFromResponse(jar, headers, url) ==
    SetCookies(jar, GetCookiesFromResponse(headers), url)

(* A cookie of a page is [key, value, domain, dotted, expires, secure]:    *)
(* dotted tells the domains that start with a dot, and expires is -1 for   *)
(* cookies that live as long as the browser.  These get the age of the     *)
(* session, and a dot is dropped.                                          *)
PuppeteerCookieToTough(cookie, now, maxAgeSecs) ==
    [ key |-> cookie.key, value |-> cookie.value, domain |-> cookie.domain,
      expires |-> IF cookie.expires > 0 THEN cookie.expires ELSE now + maxAgeSecs,
      secure |-> cookie.secure ]

SetPuppeteerCookies(jar, cookies, url, now, maxAgeSecs) ==
    SetCookies(jar, [i \in DOMAIN cookies |-> PuppeteerCookieToTough(cookies[i], now, maxAgeSecs)],
               url)

(* A cookie without an expiration date gets one that is no number.         *)
ToughCookieToPuppeteer(entry) ==
    [ key |-> entry.key, value |-> entry.value, domain |-> entry.domain, dotted |-> FALSE,
      expires |-> IF entry.expires = 0 THEN Undef ELSE entry.expires,
      secure |-> entry.secure ]

GetPuppeteerCookies(jar, url, now) == {ToughCookieToPuppeteer(c) : c \in InJar(jar, url, now)}

(* getCookieString and the parts it is split into, in some order.          *)
CookieStrings(jar, url, now) ==
    {[i \in DOMAIN s |-> Pair(s[i].key, s[i].value)] : s \in SetToSeqs(InJar(jar, url, now))}

-----------------------------------------------------------------------------
(* What goes with the next request.                                        *)

(* mergeCookies: everything is set in a jar of its own in turn; a part     *)
(* that is no cookie throws.                                               *)
MergeCookies(sources) ==
    LET parts == FlattenSeq(sources)
        Latest(key) == CHOOSE i \in DOMAIN parts :
                         parts[i].key = key /\ \A j \in i + 1 .. Len(parts) : parts[j].key # key
    IN  IF \E i \in DOMAIN parts : parts[i] = Undef THEN Undef
        ELSE [key \in {parts[i].key : i \in DOMAIN parts} |-> parts[Latest(key)].value]

(* _getCookieHeaderFromRequest: Cookie before cookie.                      *)
GetCookieHeader(headers) ==
    IF headers.Cookie # Undef THEN headers.Cookie
    ELSE IF headers.cookie # Undef THEN headers.cookie ELSE <<>>

(* CheerioCrawler._applyCookies; before and after are the headers of the   *)
(* request before and after the preNavigationHooks, got those that the     *)
(* hooks set in gotOptions.                                                *)
ApplyCookies(session, before, got, after) ==
    MergeCookies(<<session, GetCookieHeader(before), GetCookieHeader(got),
                   GetCookieHeader(after)>>)

(* BrowserCrawler._applyCookies: the cookies of the session are set in the *)
(* page, and those of the headers after them; what does not parse is left  *)
(* out.                                                                    *)
ApplyCookiesToPage(session, before, after) ==
    session \o SelectSeq(GetCookieHeader(before) \o GetCookieHeader(after),
                         LAMBDA cookie : cookie # Undef)
=============================================================================
