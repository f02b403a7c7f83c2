------------------------- MODULE ProxyConfiguration -------------------------
(***************************************************************************)
(* ProxyConfiguration of the core package with a list of proxyUrls: the    *)
(* proxies take turns, and a session keeps the one it got first.           *)
(***************************************************************************)
EXTENDS Naturals, Sequences

CONSTANT ProxyUrls         \* the list, in order

ASSUME ProxyAssumption == Len(ProxyUrls) \in Nat \ {0}

VARIABLES
    nextCustomUrlIndex,    \* modulo the length of the list
    usedProxyUrls          \* session id |-> its url

proxyVars == <<nextCustomUrlIndex, usedProxyUrls>>

ProxyInit ==
    /\ nextCustomUrlIndex = 0
    /\ usedProxyUrls = <<>>

NextUrl == ProxyUrls[nextCustomUrlIndex + 1]
Rotates == nextCustomUrlIndex' = (nextCustomUrlIndex + 1) % Len(ProxyUrls)

Remembers(id, url) ==
    usedProxyUrls' = [i \in DOMAIN usedProxyUrls \cup {id} |-> IF i = id THEN url ELSE usedProxyUrls[i]]

(* Mutant: the index moves on for a session that has its url, too.         *)
HandleCustomUrlAlways(id, url) ==
    /\ url = IF id \in DOMAIN usedProxyUrls THEN usedProxyUrls[id] ELSE NextUrl
    /\ Rotates
    /\ Remembers(id, url)

(* newUrl resolves to url for a session with this id.                      *)
HandleCustomUrl(id, url) ==
    \/ /\ id \in DOMAIN usedProxyUrls
       /\ url = usedProxyUrls[id]
       /\ UNCHANGED proxyVars
    \/ /\ id \notin DOMAIN usedProxyUrls
       /\ url = NextUrl
       /\ Rotates
       /\ Remembers(id, url)
=============================================================================
