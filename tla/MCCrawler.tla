----------------------------- MODULE MCCrawler -----------------------------
(* Small crawls.                                                           *)
EXTENDS BasicCrawler, RequestSources, TLC

CONSTANTS r1, r2, w1, w2, p1

OneRequest == {r1}
TwoRequests == {r1, r2}
JustR2 == {r2}
TwoTasks == {w1, w2}
OneSaver == {p1}
Nobody == {}

JustR1 == {<<r1>>}
BothListed == {<<r1>>, <<r1, r2>>}

Either == BOOLEAN
Given == {TRUE}
NotGiven == {FALSE}
NoLimit == {0}
NoneOrOne == {0, 1}

AllFaults == {"add", "fetch", "update", "query", "session", "report", "late", "migration",
              "restart"}
JustRestart == {"restart"}
JustLate == {"late"}

\* What may go wrong does so in the crawl of the shorter list.
LongListGoesWell ==
    Len(requests) > 1 => failures = 0 /\ saving = [p \in Savers |-> {}]

TaskSymmetry == Permutations(Tasks)

-----------------------------------------------------------------------------
\* Sources of a list: two URLs, with no uniqueKey or one that may be the computed
\* key of another source.  Lists of at most three, in all ways to get them.
SourceChoices == [url : {"a", "b"}, uniqueKey : {NoKey, <<"a">>, <<"a", 1>>}]
SourceLists == UNION {[1 .. n -> SourceChoices] : n \in 1 .. 3}
Loaded(list, keep) == AddRequestsFromSources(<<list>>, <<>>, keep)
Keys(loaded) == {loaded[i].uniqueKey : i \in DOMAIN loaded}

\* No two requests of a list have the same uniqueKey, with either option.
ASSUME KeysAreUnique ==
    \A list \in SourceLists, keep \in BOOLEAN :
        LET loaded == Loaded(list, keep) IN Cardinality(Keys(loaded)) = Len(loaded)

\* What was persisted loads as the same list, in the same order, whatever the
\* option is then.
ASSUME ReloadsTheSame ==
    \A list \in SourceLists, keep, keepNow \in BOOLEAN :
        LET loaded == Loaded(list, keep)
        IN AddPersistedRequests(loaded, keepNow) = loaded

\* Every source is in the list under its own key or the key of its URL; with
\* keepDuplicateUrls, and no keys of the user's own, each has a request.
ASSUME NoSourceForgotten ==
    \A list \in SourceLists :
        /\ Keys(Loaded(list, FALSE)) =
              {IF list[i].uniqueKey = NoKey THEN <<list[i].url>> ELSE list[i].uniqueKey :
                  i \in DOMAIN list}
        /\ (\A i \in DOMAIN list : list[i].uniqueKey = NoKey) =>
              Loaded(list, TRUE) = [i \in DOMAIN list |->
                  [url |-> list[i].url, uniqueKey |-> <<list[i].url, i - 1>>]]

\* Downloaded requests take the place of their source and those of
\* sourcesFunction come last.
ASSUME OrderOfSources ==
    \A first, second \in SourceLists :
        Len(first) + Len(second) <= 3 =>
            AddRequestsFromSources(<<first>>, second, FALSE) = Loaded(first \o second, FALSE)

\* Options with the same URL have the same key, unless extended keys tell methods
\* and payloads apart or the fragment is kept.
RequestChoices ==
    [url : [page : {"p", "q"}, fragment : {"", "x"}], method : {"GET", "POST"}, payload : {"", "h"},
     keepUrlFragment : BOOLEAN, useExtendedUniqueKey : BOOLEAN]
ASSUME SameKeySamePage ==
    \A one, other \in {o \in RequestChoices : Valid(o)} :
        ComputeUniqueKey(one) = ComputeUniqueKey(other) =>
            /\ one.url.page = other.url.page
            /\ one.keepUrlFragment /\ other.keepUrlFragment => one.url = other.url
            /\ one.useExtendedUniqueKey /\ other.useExtendedUniqueKey =>
                  one.method = other.method /\ one.payload = other.payload

=============================================================================
