---------------------------- MODULE EnqueueLinks ----------------------------
(***************************************************************************)
(* enqueueLinks: from the URLs found on a page to the requests that are    *)
(* added to the queue.  A pattern (glob, regular expression or pseudo-URL) *)
(* is the set of URLs it matches and whether it has userData of its own.   *)
(***************************************************************************)
EXTENDS Integers, Sequences, SequencesExt

CONSTANTS
    Urls,
    Origin,         \* URL |-> [scheme, host, domain]
    NoDomain,       \* the domain of a host that is an address
    Unset           \* an option that is not given, a result that is undefined

ASSUME EnqueueLinksAssumption == DOMAIN Origin = Urls

Pattern(urls) == [urls |-> urls, userData |-> FALSE]
Patterns == [urls : SUBSET Urls, userData : BOOLEAN]

(* resolveBaseUrl: the base that relative links are resolved with, and     *)
(* that the strategy is about; originalUrl was asked for and finalUrl was  *)
(* loaded.                                                                 *)
ResolveBaseUrl(strategy, originalUrl, finalUrl, userProvided) ==
    LET original == Origin[originalUrl]
        final == Origin[finalUrl]
    IN CASE userProvided # Unset -> userProvided
         [] strategy = "all" -> final
         [] strategy = "same-hostname" ->
                IF original.domain = final.domain THEN final ELSE Unset
         [] OTHER -> original

(* The strategy adds patterns to those of the user; it never takes away.   *)
StrategyPatterns(strategy, base) ==
    LET sameOrigin == {url \in Urls : Origin[url] = base}
        sameDomain == {url \in Urls : /\ Origin[url].domain = base.domain
                                      /\ Origin[url].scheme = base.scheme}
        itself == {url \in sameDomain : Origin[url].host = base.domain}
    IN CASE strategy = "same-subdomain" -> <<Pattern(sameOrigin)>>
         [] strategy = "same-hostname" ->
                IF base.domain = NoDomain THEN <<Pattern(sameOrigin)>>
                ELSE <<Pattern(sameDomain \ itself), Pattern(itself)>>
         [] OTHER -> <<>>

UrlPatterns(given, strategy, baseUrl) ==
    LET chosen == IF given = <<>> /\ strategy = Unset THEN "same-subdomain" ELSE strategy
    IN given \o IF baseUrl = Unset THEN <<>> ELSE StrategyPatterns(chosen, baseUrl)

(* The request made of an option that the pattern matches; userData of the *)
(* pattern replaces what the option had.                                   *)
Made(option, p) ==
    IF option.url \notin p.urls THEN <<>>
    ELSE IF p.userData THEN <<[option EXCEPT !.userData = Unset]>> ELSE <<option>>

(* createRequests: pattern by pattern, each with all its matches; without  *)
(* patterns everything.  userData of a pattern replaces what the request   *)
(* had, also what transformRequestFunction put there.                      *)
CreateRequests(options, patterns) ==
    IF patterns = <<>> THEN options
    ELSE FlattenSeq([i \in DOMAIN patterns |->
             FlattenSeq([j \in DOMAIN options |-> Made(options[j], patterns[i])])])

(* The limit is taken before the queue leaves out what it has already.     *)
Limited(requests, limit) ==
    IF limit = 0 THEN requests ELSE SubSeq(requests, 1, Min({limit, Len(requests)}))

(* options are those of the URLs on the page after transformRequestFunction. *)
LinksToAdd(options, given, strategy, baseUrl, limit) ==
    Limited(CreateRequests(options, UrlPatterns(given, strategy, baseUrl)), limit)
=============================================================================
