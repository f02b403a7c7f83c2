--------------------------- MODULE CheerioCrawler ---------------------------
(***************************************************************************)
(* The way of one request through the CheerioCrawler, from the session it  *)
(* is given to the score the session gets: _runTaskFunction of             *)
(* BasicCrawler around _runRequestHandler.  The storages of requests are   *)
(* left to BasicCrawler; here a task only starts, succeeds or fails.       *)
(***************************************************************************)
EXTENDS SessionPool, ProxyConfiguration

CONSTANTS
    Tasks,          \* concurrent runs of _runTaskFunction
    User,           \* code of the user that calls the pool itself
    MaxLate         \* bound: navigations under way that nobody awaits

ASSUME CrawlerAssumption == Callers = Tasks \cup {User} /\ User \notin Tasks /\ MaxLate \in Nat

VARIABLES
    place,          \* task |-> where its request is
    lateTimeouts,   \* sessions of navigations that the task no longer awaits
    successes       \* history: session |-> requests that succeeded with it

taskVars == <<place, lateTimeouts>>
vars == <<sessionVars, proxyVars, taskVars, successes>>

Init ==
    /\ SessionPoolInit /\ ProxyInit
    /\ place = [t \in Tasks |-> "idle"]
    /\ lateTimeouts = {}
    /\ successes = [s \in Sessions |-> 0]

-----------------------------------------------------------------------------
(* What the crawler makes of an answer: the first postNavigationHook,      *)
(* _parseResponse and _throwOnBlockedRequest, in this order.               *)
Statuses == {"ok", "blocked", "notAcceptable", "serverError"}
Types == {"html", "json", "other"}
SupportedMimeTypes == {"html", "json"}
Responses == [status : Statuses, type : Types]

AbortDownloadOfBody(r) ==
    \/ r.status = "notAcceptable"
    \/ r.type \notin SupportedMimeTypes /\ r.status # "serverError"

Outcome(r) ==
    IF AbortDownloadOfBody(r) THEN "noRetry"
    ELSE CASE r.status = "serverError" -> "retry"
           [] r.status = "blocked" -> "retire"
           [] OTHER -> "handle"

-----------------------------------------------------------------------------
(* A session is asked for.                                                 *)
FetchSession(t) ==
    /\ place[t] = "idle"
    /\ GetSession(t)
    /\ place' = [place EXCEPT ![t] = "session"]
    /\ UNCHANGED <<storeVars, proxyVars, lateTimeouts, successes>>

(* It is there; _runRequestHandler gets a proxy for it.  A request with    *)
(* skipNavigation goes to the handler at once.                             *)
RunRequestHandler(t) ==
    /\ place[t] = "session"
    /\ ~Waiting(t) /\ picked[t] # None
    /\ \E url \in {ProxyUrls[i] : i \in 1 .. Len(ProxyUrls)} :
          HandleCustomUrl(ids[picked[t]], url)
    /\ \E skipNavigation \in BOOLEAN :
          place' = [place EXCEPT ![t] = IF skipNavigation THEN "handling" ELSE "navigating"]
    /\ UNCHANGED <<sessionVars, lateTimeouts, successes>>

(* createSessionFunction threw: _timeoutAndRetry asks again, or the task   *)
(* fails.                                                                  *)
FetchSessionFails(t) ==
    /\ place[t] = "session"
    /\ ~Waiting(t) /\ picked[t] = None
    /\ place' = [place EXCEPT ![t] = "idle"]
    /\ UNCHANGED <<sessionVars, proxyVars, lateTimeouts, successes>>

Ends(t) ==
    /\ place' = [place EXCEPT ![t] = "idle"]
    /\ picked' = [picked EXCEPT ![t] = None]
    /\ UNCHANGED <<creating, added, storeVars, proxyVars>>

(* got answers.                                                            *)
Responds(t, r) ==
    /\ place[t] = "navigating"
    /\ \/ /\ Outcome(r) = "handle"
          /\ place' = [place EXCEPT ![t] = "handling"]
          /\ UNCHANGED <<sessionVars, proxyVars, successes>>
       \/ /\ Outcome(r) = "retire"
          /\ Retire(picked[t])
          /\ Ends(t)
          /\ UNCHANGED successes
       \/ /\ Outcome(r) \in {"retry", "noRetry"}
          /\ Ends(t)
          /\ UNCHANGED <<born, sessions, sessionMap, ids, score, expired, successes>>
    /\ UNCHANGED lateTimeouts

(* got gives up before the task does.                                      *)
HandleRequestTimeout(t) ==
    /\ place[t] = "navigating"
    /\ MarkBad(picked[t])
    /\ Ends(t)
    /\ UNCHANGED <<lateTimeouts, successes>>

(* addTimeoutToPromise gives up first: the rejection of got, and its       *)
(* markBad, come when the request may be under way again.                  *)
NavigationAbandoned(t) ==
    /\ place[t] = "navigating"
    /\ Cardinality(lateTimeouts) < MaxLate
    /\ lateTimeouts' = lateTimeouts \cup {picked[t]}
    /\ Ends(t)
    /\ UNCHANGED <<born, sessions, sessionMap, ids, score, expired, successes>>

LateRequestTimeout(s) ==
    /\ s \in lateTimeouts
    /\ lateTimeouts' = lateTimeouts \ {s}
    /\ MarkBad(s)
    /\ UNCHANGED <<place, callVars, storeVars, proxyVars, successes>>

(* An error of got or of a hook, an error or a timeout of the              *)
(* requestHandler: the session's score stays.                              *)
RequestFails(t) ==
    /\ place[t] \in {"navigating", "handling"}
    /\ Ends(t)
    /\ UNCHANGED <<born, sessions, sessionMap, ids, score, expired, lateTimeouts, successes>>

(* The requestHandler marks or retires the session itself.                 *)
HandlerMarks(t) ==
    /\ place[t] = "handling"
    /\ MarkBad(picked[t]) \/ Retire(picked[t])
    /\ UNCHANGED <<callVars, storeVars, proxyVars, taskVars, successes>>

(* The request is marked as handled and the session as good.               *)
RequestSucceeds(t) ==
    /\ place[t] = "handling"
    /\ MarkGood(picked[t])
    /\ successes' = [successes EXCEPT ![picked[t]] = @ + 1]
    /\ Ends(t)
    /\ UNCHANGED lateTimeouts

-----------------------------------------------------------------------------
(* What happens beside the tasks.                                          *)
PoolSteps ==
    /\ \/ /\ \/ \E c \in Callers : \/ CreationFails(c)
                                   \/ \E s \in Sessions : SessionCreated(c, s)
             \/ \E id \in Names : AddSession(User, id)
          /\ UNCHANGED storeVars
       \/ PersistState
       \/ \E s \in Sessions : Expire(s)
    /\ UNCHANGED <<proxyVars, taskVars, successes>>

RestartCrawler ==
    /\ Restart
    /\ nextCustomUrlIndex' = 0 /\ usedProxyUrls' = <<>>
    /\ place' = [t \in Tasks |-> "idle"]
    /\ lateTimeouts' = {}
    /\ successes' = [s \in Sessions |-> IF s \in sessions' THEN stored[s].usage ELSE 0]

Next ==
    \/ \E t \in Tasks : \/ FetchSession(t) \/ FetchSessionFails(t) \/ RunRequestHandler(t)
                        \/ HandleRequestTimeout(t) \/ NavigationAbandoned(t)
                        \/ RequestFails(t) \/ HandlerMarks(t) \/ RequestSucceeds(t)
                        \/ \E r \in Responses : Responds(t, r)
    \/ \E s \in Sessions : LateRequestTimeout(s)
    \/ PoolSteps
    \/ RestartCrawler

Spec == Init /\ [][Next]_vars
-----------------------------------------------------------------------------
(* Properties.                                                             *)

(* Calls of getSession check the size before they await, so each other     *)
(* task may add one session beyond maxPoolSize, and addSession adds to a   *)
(* full pool.  The pool never grows further, however sessions are retired, *)
(* removed, restored and recreated.                                        *)
PoolSizeBounded ==
    Cardinality(sessions) + Cardinality({t \in Tasks : creating[t] # None})
        <= MaxPoolSize + Cardinality(Tasks) - 1 + added

(* A use of a session is counted when its request ends, so a session that  *)
(* several tasks share may be used more than maxUsageCount times, but only *)
(* once more by each further task, whatever else is marked meanwhile.      *)
OveruseBounded ==
    \A s \in Sessions : successes[s] < MaxUsageCount + Cardinality(Tasks)

(* Proxies take turns: of the sessions that got one, no proxy has two more *)
(* than another has, although requests of old and new sessions mix.        *)
UsersOf(i) == {id \in DOMAIN usedProxyUrls : usedProxyUrls[id] = ProxyUrls[i]}
ProxiesBalanced ==
    \A i, j \in 1 .. Len(ProxyUrls) :
        Cardinality(UsersOf(i)) <= Cardinality(UsersOf(j)) + 1
=============================================================================
