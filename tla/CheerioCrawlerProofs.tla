------------------------ MODULE CheerioCrawlerProofs ------------------------
(***************************************************************************)
(* The pool of sessions under the tasks of a CheerioCrawler: its Map       *)
(* agrees with its array, it grows by no more than the calls that were     *)
(* under way, no session is overused by more than the tasks that share it, *)
(* and the proxies take turns.                                             *)
(***************************************************************************)
EXTENDS CheerioCrawler, FiniteSetTheorems, TLAPS

Scored == [error : Int, usage : Nat]

SessionTypeOK ==
    /\ born \subseteq Sessions /\ sessions \subseteq born
    /\ ids \in [Sessions -> Sessions \cup Names]
    /\ score \in [Sessions -> Scored]
    /\ creating \in [Callers -> Names \cup {Anonymous, None}]
    /\ picked \in [Callers -> born \cup {None}]
    /\ added \in Nat
    /\ DOMAIN stored \subseteq born /\ \A s \in DOMAIN stored : stored[s] \in Scored
    /\ place \in [Tasks -> {"idle", "session", "navigating", "handling"}]
    /\ lateTimeouts \subseteq born
    /\ successes \in [Sessions -> Nat]

(* A session has an id of the user's or its own.  The id of a call that    *)
(* awaits its session is free, and the user is the only one to ask for it; *)
(* sessions that may be restored have different ids.                       *)
IdsApart ==
    /\ \A s \in Sessions : ids[s] \in Names \cup {s}
    /\ \A t \in Tasks : creating[t] \in {None, Anonymous}
    /\ creating[User] \in {None} \cup (Names \ DOMAIN sessionMap)
    /\ \A s, x \in DOMAIN stored : ids[s] = ids[x] => s = x

(* Sessions, and calls that will add one.                                  *)
WaitingTasks == {t \in Tasks : Waiting(t)}
UserWaits == IF Waiting(User) THEN 1 ELSE 0
Room == MaxPoolSize + Cardinality(Tasks) - 1 + added

RoomLeft ==
    /\ Cardinality(sessions) + Cardinality(WaitingTasks) + UserWaits <= Room
    /\ UserWaits <= added
    /\ Cardinality(DOMAIN stored) <= Room

(* What has succeeded was counted, and each task that has a session will   *)
(* use it once.                                                            *)
Holders(s) == {t \in Tasks : picked[t] = s}

UsesCounted ==
    /\ \A s \in Sessions :
          /\ successes[s] <= score[s].usage
          /\ s \notin born => successes[s] = 0
          /\ successes[s] + Cardinality(Holders(s)) <= MaxUsageCount - 1 + Cardinality(Tasks)
    /\ \A t \in Tasks : place[t] \in {"navigating", "handling"} => picked[t] # None

SessionInv == SessionTypeOK /\ MapAgrees /\ IdsApart /\ RoomLeft /\ UsesCounted

(* The first n proxies have one session more than the q of the others.     *)
Shared(q, n) ==
    \A i \in 1 .. Len(ProxyUrls) :
        /\ IsFiniteSet(UsersOf(i))
        /\ Cardinality(UsersOf(i)) = IF i <= n THEN q + 1 ELSE q

(* The next proxy is the first of those that have one session less.        *)
Turns ==
    /\ nextCustomUrlIndex \in 0 .. Len(ProxyUrls) - 1
    /\ \E q \in Nat : Shared(q, nextCustomUrlIndex)

-----------------------------------------------------------------------------
(* The proxies.                                                            *)

NoProxyTwice == \A i, j \in 1 .. Len(ProxyUrls) : ProxyUrls[i] = ProxyUrls[j] => i = j

(* Nobody has a proxy yet.                                                 *)
LEMMA NoUsers == nextCustomUrlIndex = 0 /\ usedProxyUrls = <<>> => Turns
<1> SUFFICES ASSUME nextCustomUrlIndex = 0, usedProxyUrls = <<>>
             PROVE  Turns
  OBVIOUS
<1>1. \A i \in 1 .. Len(ProxyUrls) : UsersOf(i) = {}
  BY DEF UsersOf
<1>2. IsFiniteSet({}) /\ Cardinality({}) = 0
  BY FS_EmptySet
<1>3. Shared(0, nextCustomUrlIndex)
  <2>1. \A i \in 1 .. Len(ProxyUrls) : ~(i <= nextCustomUrlIndex)
    BY ProxyAssumption
  <2> QED
    BY <1>1, <1>2, <2>1, Zenon DEF Shared
<1>4. nextCustomUrlIndex \in 0 .. Len(ProxyUrls) - 1
  BY ProxyAssumption
<1> QED
  BY <1>3, <1>4 DEF Turns

(* A session gets the next proxy, or has its own.                          *)
LEMMA UrlTurns ==
    ASSUME NoProxyTwice, Turns, NEW id, NEW url, HandleCustomUrl(id, url)
    PROVE  Turns'
<1> DEFINE L == Len(ProxyUrls)
           n == nextCustomUrlIndex
<1>1. CASE UNCHANGED proxyVars
  BY <1>1 DEF Turns, Shared, UsersOf, proxyVars
<1>2. CASE /\ id \notin DOMAIN usedProxyUrls
           /\ Rotates
           /\ Remembers(id, ProxyUrls[n + 1])
  <2>1. n \in 0 .. L - 1 /\ L \in Nat \ {0}
    BY ProxyAssumption DEF Turns
  <2>2. PICK q \in Nat : Shared(q, n)
    BY DEF Turns
  <2>3. /\ DOMAIN usedProxyUrls' = DOMAIN usedProxyUrls \cup {id}
        /\ usedProxyUrls'[id] = ProxyUrls[n + 1]
        /\ \A x \in DOMAIN usedProxyUrls : usedProxyUrls'[x] = usedProxyUrls[x]
    BY <1>2 DEF Remembers
  <2>4. \A i \in 1 .. L : UsersOf(i)' = IF i = n + 1 THEN UsersOf(i) \cup {id} ELSE UsersOf(i)
    BY <1>2, <2>1, <2>3 DEF UsersOf, NoProxyTwice
  <2>5. \A i \in 1 .. L : id \notin UsersOf(i)
    BY <1>2 DEF UsersOf
  <2>6. \A i \in 1 .. L :
          /\ IsFiniteSet(UsersOf(i)')
          /\ Cardinality(UsersOf(i)') = IF i <= n + 1 THEN q + 1 ELSE q
    <3> TAKE i \in 1 .. L
    <3>1. CASE i = n + 1
      BY <2>1, <2>2, <2>4, <2>5, <3>1, FS_AddElement DEF Shared
    <3>2. CASE i # n + 1
      BY <2>1, <2>2, <2>4, <3>2 DEF Shared
    <3> QED
      BY <3>1, <3>2
  <2>7. CASE n + 1 < L
    <3>1. n' = n + 1
      BY <1>2, <2>1, <2>7 DEF Rotates
    <3>2. Shared(q, n)'
      BY <2>6, <3>1 DEF Shared
    <3> QED
      BY <2>1, <2>7, <3>1, <3>2 DEF Turns
  <2>8. CASE n + 1 = L
    <3>1. n' = 0
      BY <1>2, <2>1, <2>8 DEF Rotates
    <3>2. Shared(q + 1, n)'
      BY <2>1, <2>6, <2>8, <3>1 DEF Shared
    <3> QED
      BY <2>1, <3>1, <3>2 DEF Turns
  <2> QED
    BY <2>1, <2>7, <2>8
<1> QED
  BY <1>1, <1>2 DEF HandleCustomUrl, NextUrl

-----------------------------------------------------------------------------
(* Facts about the pool's operators.                                       *)

(* There are finitely many tasks and sessions.                             *)
LEMMA FiniteSets ==
    /\ IsFiniteSet(Tasks) /\ Cardinality(Tasks) \in Nat
    /\ \A S : S \subseteq Sessions \/ S \subseteq Tasks => IsFiniteSet(S) /\ Cardinality(S) \in Nat
<1>1. IsFiniteSet(Tasks)
  BY CrawlerAssumption, SessionAssumption, FS_Subset
<1> QED
  BY <1>1, SessionAssumption, FS_Subset, FS_CardinalityType

(* Every mark and retirement counts a use.                                 *)
LEMMA MarksCount ==
    ASSUME NEW x \in Scored, NEW late \in BOOLEAN
    PROVE  \A y \in {Good(x, late), Bad(x, late), Retired(x)} :
               y \in Scored /\ y.usage >= x.usage + 1
<1> USE SessionAssumption DEF Scored
<1>1. /\ x.error \in Int /\ x.usage \in Nat
      /\ MaxErrorScore \in Nat /\ BadScore \in Nat /\ ErrorScoreDecrement \in Nat
  OBVIOUS
<1>2. \A y \in Scored : Retired(y) \in Scored /\ Retired(y).usage = y.usage + 1
  BY <1>1 DEF Retired
<1>3. \A y \in Scored : MaybeSelfRetire(y, late) \in Scored /\ MaybeSelfRetire(y, late).usage >= y.usage
  BY <1>2 DEF MaybeSelfRetire
<1>4. \A e \in Int : [error |-> e, usage |-> x.usage + 1] \in Scored
  BY <1>1
<1>5. Good(x, late) \in Scored /\ Good(x, late).usage >= x.usage + 1
  BY <1>1, <1>3, <1>4 DEF Good
<1>6. Bad(x, late) \in Scored /\ Bad(x, late).usage >= x.usage + 1
  BY <1>1, <1>3, <1>4 DEF Bad
<1> QED
  BY <1>1, <1>2, <1>5, <1>6

(* So it is for the session that is marked.                                *)
LEMMA SessionMarked ==
    ASSUME score \in [Sessions -> Scored], NEW s \in Sessions,
           MarkGood(s) \/ MarkBad(s) \/ Retire(s)
    PROVE  \E x \in Scored : score' = [score EXCEPT ![s] = x] /\ x.usage >= score[s].usage + 1
<1> DEFINE late == s \in expired
<1>1. score[s] \in Scored /\ late \in BOOLEAN
  OBVIOUS
<1>2. \A y \in {Good(score[s], late), Bad(score[s], late), Retired(score[s])} :
         y \in Scored /\ y.usage >= score[s].usage + 1
  BY <1>1, MarksCount
<1>3. \E y \in {Good(score[s], late), Bad(score[s], late), Retired(score[s])} :
         score' = [score EXCEPT ![s] = y]
  BY DEF MarkGood, MarkBad, Retire, Scores
<1> HIDE DEF late
<1> QED
  BY <1>2, <1>3

(* Sessions leave the array and the Map together.                          *)
LEMMA MapDrops ==
    ASSUME MapAgrees, NEW gone \in SUBSET sessions, Drops(gone), UNCHANGED ids
    PROVE  MapAgrees' /\ DOMAIN sessionMap' \subseteq DOMAIN sessionMap
BY DEF MapAgrees, Drops, RestrictMap

(* A new session joins both, under an id that is free.                     *)
LEMMA MapJoins ==
    ASSUME SessionTypeOK, MapAgrees, NEW s \in Sessions \ born,
           NEW id \in (Sessions \cup Names) \ DOMAIN sessionMap,
           NEW gone \in SUBSET sessions, Joins(s, id, gone)
    PROVE  MapAgrees' /\ DOMAIN sessionMap' \subseteq DOMAIN sessionMap \cup {id}
<1>1. /\ \A x \in sessions : ids'[x] = ids[x] /\ x # s
      /\ ids'[s] = id
  BY DEF Joins, SessionTypeOK
<1>2. /\ DOMAIN sessionMap' = (DOMAIN sessionMap \ {ids[x] : x \in gone}) \cup {id}
      /\ sessionMap'[id] = s
      /\ \A k \in DOMAIN sessionMap \ {ids[x] : x \in gone} : sessionMap'[k] = sessionMap[k]
  BY DEF Joins, RestrictMap
<1>3. sessions' = (sessions \ gone) \cup {s}
  BY DEF Joins
<1>4. DOMAIN sessionMap' = {ids'[x] : x \in sessions'}
  BY <1>1, <1>2, <1>3 DEF MapAgrees
<1>5. \A x \in sessions' : sessionMap'[ids'[x]] = x
  BY <1>1, <1>2, <1>3 DEF MapAgrees
<1> QED
  BY <1>2, <1>4, <1>5 DEF MapAgrees

(* Nobody else has the id that a session gets for itself.                  *)
LEMMA OwnIdFree ==
    ASSUME SessionTypeOK, MapAgrees, IdsApart, NEW s \in Sessions \ born
    PROVE  s \notin DOMAIN sessionMap
BY SessionAssumption DEF SessionTypeOK, MapAgrees, IdsApart

-----------------------------------------------------------------------------
(* The parts of the invariant.                                             *)

(* Uses stay counted while tasks only give their sessions back.            *)
LEMMA UsesKept ==
    ASSUME SessionInv, born \subseteq born', UNCHANGED successes,
           successes' \in [Sessions -> Nat], score' \in [Sessions -> Scored],
           \A s \in Sessions : score[s].usage <= score'[s].usage,
           \A t \in Tasks : picked'[t] = picked[t] \/ picked'[t] = None,
           \A t \in Tasks : place'[t] \in {"navigating", "handling"} =>
               picked'[t] # None
    PROVE  UsesCounted'
<1>1. \A s \in Sessions : Holders(s)' \subseteq Holders(s)
  BY SessionAssumption DEF Holders
<1>2. \A s \in Sessions : /\ Cardinality(Holders(s)') <= Cardinality(Holders(s))
                          /\ Cardinality(Holders(s)') \in Nat /\ Cardinality(Holders(s)) \in Nat
  BY <1>1, FiniteSets, FS_Subset DEF Holders
<1>3. \A s \in Sessions : successes[s] <= score'[s].usage
  BY DEF SessionInv, SessionTypeOK, UsesCounted, Scored
<1>4. \A s \in Sessions : successes[s] + Cardinality(Holders(s)') <= MaxUsageCount - 1 + Cardinality(Tasks)
  BY <1>2, FiniteSets, SessionAssumption DEF SessionInv, SessionTypeOK, UsesCounted
<1> QED
  BY <1>3, <1>4 DEF SessionInv, UsesCounted

(* A task is given a session that it may use, or a new one.                *)
LEMMA UsesPicked ==
    ASSUME SessionInv, NEW t \in Tasks, NEW s \in Sessions, successes[s] < MaxUsageCount,
           picked' = [picked EXCEPT ![t] = s], born \subseteq born',
           UNCHANGED <<successes, score>>,
           \A x \in Tasks : place'[x] \in {"navigating", "handling"} => place[x] = place'[x]
    PROVE  UsesCounted'
<1> USE DEF SessionInv, SessionTypeOK
<1>1. t \in Callers /\ \A x \in Tasks : x \in Callers
  BY CrawlerAssumption
<1>2. Cardinality(Holders(s)') <= Cardinality(Tasks) /\ Cardinality(Holders(s)') \in Nat
  BY FiniteSets, FS_Subset DEF Holders
<1>3. successes[s] + Cardinality(Holders(s)') <= MaxUsageCount - 1 + Cardinality(Tasks)
  BY <1>2, FiniteSets, SessionAssumption
<1>4. \A x \in Sessions \ {s} : Holders(x)' \subseteq Holders(x)
  BY <1>1 DEF Holders
<1>5. \A x \in Sessions : /\ Cardinality(Holders(x)') \in Nat /\ Cardinality(Holders(x)) \in Nat
  BY FiniteSets DEF Holders
<1>6. \A x \in Sessions \ {s} : Cardinality(Holders(x)') <= Cardinality(Holders(x))
  BY <1>4, FiniteSets, FS_Subset DEF Holders
<1>7. \A x \in Sessions : successes[x] + Cardinality(Holders(x)') <= MaxUsageCount - 1 + Cardinality(Tasks)
  BY <1>3, <1>5, <1>6, FiniteSets, SessionAssumption DEF UsesCounted
<1>8. \A x \in Tasks : picked[x] # None => picked'[x] # None
  BY <1>1, SessionAssumption
<1> QED
  BY <1>7, <1>8 DEF UsesCounted

(* There is room while no sessions join and no calls begin.                *)
LEMMA RoomStays ==
    ASSUME SessionInv, sessions' \subseteq sessions, creating' = creating, added' = added,
           DOMAIN stored' \subseteq DOMAIN stored \/ DOMAIN stored' \subseteq sessions
    PROVE  RoomLeft'
<1> USE DEF SessionInv, SessionTypeOK
<1>1. Cardinality(sessions') <= Cardinality(sessions)
  BY FiniteSets, FS_Subset
<1>2. WaitingTasks' = WaitingTasks /\ UserWaits' = UserWaits
  BY DEF WaitingTasks, UserWaits, Waiting
<1>3. \/ Cardinality(DOMAIN stored') <= Cardinality(DOMAIN stored)
      \/ Cardinality(DOMAIN stored') <= Cardinality(sessions)
  BY FiniteSets, FS_Subset
<1>4. /\ Cardinality(sessions') \in Nat /\ Cardinality(sessions) \in Nat
      /\ Cardinality(DOMAIN stored') \in Nat /\ Cardinality(DOMAIN stored) \in Nat
      /\ Cardinality(WaitingTasks) \in Nat /\ UserWaits \in Nat
  BY FiniteSets DEF WaitingTasks, UserWaits
<1>5. Room \in Int /\ Room' = Room
  BY FiniteSets, SessionAssumption DEF Room
<1> QED
  BY <1>1, <1>2, <1>3, <1>4, <1>5 DEF RoomLeft

-----------------------------------------------------------------------------
(* The steps.                                                              *)

(* The array, the Map and the calls under way stay as they are, and        *)
(* nothing else is stored than what there is.                              *)
LEMMA PoolStays ==
    ASSUME SessionInv,
           UNCHANGED <<born, sessions, sessionMap, ids, creating, added>>,
           DOMAIN stored' \subseteq sessions \/ UNCHANGED stored
    PROVE  MapAgrees' /\ IdsApart' /\ RoomLeft'
<1> USE DEF SessionInv
<1>1. MapAgrees'
  BY DEF MapAgrees
<1>2. \A s, x \in DOMAIN stored' : ids[s] = ids[x] => s = x
  BY DEF MapAgrees, IdsApart
<1>3. IdsApart'
  BY <1>2 DEF IdsApart
<1>4. RoomLeft'
  BY RoomStays
<1> QED
  BY <1>1, <1>3, <1>4

(* A task goes on or ends, and a session may be marked.                    *)
LEMMA MarkStep ==
    ASSUME SessionInv,
           UNCHANGED <<born, sessions, sessionMap, ids, creating, added, stored, successes>>,
           \/ UNCHANGED score
           \/ \E s \in born : MarkBad(s) \/ Retire(s),
           \/ UNCHANGED <<picked, place>>
           \/ \E t \in Tasks : picked' = [picked EXCEPT ![t] = None] /\ place' = [place EXCEPT ![t] = "idle"]
           \/ \E t \in Tasks, p \in {"idle", "handling"} :
                 /\ place[t] = "navigating" \/ p = "idle"
                 /\ place' = [place EXCEPT ![t] = p] /\ UNCHANGED picked,
           lateTimeouts' \subseteq born
    PROVE  SessionInv'
<1> USE DEF SessionInv, SessionTypeOK
<1>1. /\ score' \in [Sessions -> Scored]
      /\ \A s \in Sessions : score[s].usage <= score'[s].usage
  <2>1. CASE UNCHANGED score
    BY <2>1 DEF Scored
  <2>2. ASSUME NEW s \in born, MarkBad(s) \/ Retire(s)
        PROVE  <1>1!:
    <3>1. PICK x \in Scored : score' = [score EXCEPT ![s] = x] /\ x.usage >= score[s].usage + 1
      BY <2>2, SessionMarked
    <3> QED
      BY <3>1 DEF Scored
  <2> QED
    BY <2>1, <2>2
<1>2. /\ picked' \in [Callers -> born \cup {None}]
      /\ place' \in [Tasks -> {"idle", "session", "navigating", "handling"}]
      /\ \A t \in Tasks : picked'[t] = picked[t] \/ picked'[t] = None
      /\ \A t \in Tasks : place'[t] \in {"navigating", "handling"} => picked'[t] # None
  BY CrawlerAssumption DEF UsesCounted
<1>3. SessionTypeOK'
  BY <1>1, <1>2
<1>4. UsesCounted'
  BY <1>1, <1>2, UsesKept
<1> QED
  BY <1>3, <1>4, PoolStays

(* A request succeeds: its use is counted when the task gives its session  *)
(* back.                                                                   *)
LEMMA SucceedsStep ==
    ASSUME SessionInv, NEW t \in Tasks, RequestSucceeds(t)
    PROVE  SessionInv'
<1> USE DEF SessionInv, SessionTypeOK, RequestSucceeds, Ends, storeVars
<1>0. UNCHANGED <<born, sessions, sessionMap, ids>>
  BY DEF MarkGood, Scores
<1>1. PICK s \in born : s = picked[t] /\ s \in Sessions /\ t \in Callers
  BY CrawlerAssumption DEF UsesCounted
<1>2. PICK x \in Scored : score' = [score EXCEPT ![s] = x] /\ x.usage >= score[s].usage + 1
  BY <1>1, SessionMarked
<1>3. SessionTypeOK'
  <2>1. score' \in [Sessions -> Scored] /\ successes' \in [Sessions -> Nat]
    BY <1>0, <1>1, <1>2
  <2>2. /\ picked' \in [Callers -> born \cup {None}]
        /\ place' \in [Tasks -> {"idle", "session", "navigating", "handling"}]
    BY <1>1
  <2> QED
    BY <1>0, <2>1, <2>2
<1>4. Holders(s)' = Holders(s) \ {t} /\ t \in Holders(s)
      /\ \A y \in Sessions \ {s} : Holders(y)' = Holders(y)
  BY <1>1, CrawlerAssumption, SessionAssumption DEF Holders
<1>5. IsFiniteSet(Holders(s)) /\ Cardinality(Holders(s)) \in Nat
  BY FiniteSets DEF Holders
<1>6. Cardinality(Holders(s)') = Cardinality(Holders(s)) - 1
  BY <1>4, <1>5, FS_RemoveElement
<1>7. successes'[s] + Cardinality(Holders(s)') = successes[s] + Cardinality(Holders(s))
  BY <1>1, <1>5, <1>6
<1>8. \A y \in Sessions :
         /\ successes'[y] <= score'[y].usage
         /\ y \notin born => successes'[y] = 0
  <2> TAKE y \in Sessions
  <2>1. CASE y = s
    BY <1>0, <1>1, <1>2, <2>1 DEF UsesCounted, Scored
  <2>2. CASE y # s
    BY <1>0, <1>1, <1>2, <2>2 DEF UsesCounted
  <2> QED
    BY <2>1, <2>2
<1>9. \A y \in Sessions :
         successes'[y] + Cardinality(Holders(y)') <= MaxUsageCount - 1 + Cardinality(Tasks)
  BY <1>1, <1>4, <1>7 DEF UsesCounted
<1>10. \A y \in Tasks : place'[y] \in {"navigating", "handling"} => picked'[y] # None
  <2>1. \A y \in Tasks \ {t} : picked'[y] = picked[y] /\ place'[y] = place[y]
    BY <1>1, CrawlerAssumption
  <2>2. place'[t] \notin {"navigating", "handling"}
    OBVIOUS
  <2>3. \A y \in Tasks : place[y] \in {"navigating", "handling"} => picked[y] # None
    BY DEF UsesCounted
  <2> HIDE DEF SessionInv, SessionTypeOK, RequestSucceeds, Ends, storeVars
  <2> QED
    BY <2>1, <2>2, <2>3
<1>11. UsesCounted'
  BY <1>0, <1>8, <1>9, <1>10 DEF UsesCounted
<1> QED
  BY <1>0, <1>3, <1>11, PoolStays

(* Steps of the tasks, but for asking for a session.                       *)
LEMMA TaskStep ==
    ASSUME SessionInv,
           \/ \E s \in Sessions : LateRequestTimeout(s)
           \/ \E t \in Tasks :
                 \/ FetchSessionFails(t) \/ HandleRequestTimeout(t) \/ NavigationAbandoned(t)
                 \/ RequestFails(t) \/ HandlerMarks(t) \/ RequestSucceeds(t)
                 \/ \E r \in Responses : Responds(t, r)
    PROVE  SessionInv'
<1> USE DEF SessionInv, storeVars, sessionVars, callVars, Ends
<1>1. \A t \in Tasks : place[t] \in {"navigating", "handling"} => picked[t] \in born
  BY CrawlerAssumption DEF UsesCounted, SessionTypeOK
<1>2. lateTimeouts \subseteq born
  BY DEF SessionTypeOK
<1>3. ASSUME NEW s \in Sessions, LateRequestTimeout(s)
      PROVE  SessionInv'
  BY <1>2, <1>3, MarkStep DEF LateRequestTimeout, MarkBad, Scores
<1>4. ASSUME NEW t \in Tasks, FetchSessionFails(t)
      PROVE  SessionInv'
  BY <1>2, <1>4, MarkStep DEF FetchSessionFails
<1>5. ASSUME NEW t \in Tasks, HandleRequestTimeout(t)
      PROVE  SessionInv'
  BY <1>1, <1>2, <1>5, MarkStep DEF HandleRequestTimeout, MarkBad, Scores
<1>6. ASSUME NEW t \in Tasks, NavigationAbandoned(t)
      PROVE  SessionInv'
  BY <1>1, <1>2, <1>6, MarkStep DEF NavigationAbandoned
<1>7. ASSUME NEW t \in Tasks, RequestFails(t)
      PROVE  SessionInv'
  BY <1>1, <1>2, <1>7, MarkStep DEF RequestFails
<1>8. ASSUME NEW t \in Tasks, HandlerMarks(t)
      PROVE  SessionInv'
  BY <1>1, <1>2, <1>8, MarkStep DEF HandlerMarks, MarkBad, Retire, Scores, taskVars
<1>9. ASSUME NEW t \in Tasks, NEW r \in Responses, Responds(t, r)
      PROVE  SessionInv'
  BY <1>1, <1>2, <1>9, MarkStep DEF Responds, Retire, Scores
<1> QED
  BY <1>3, <1>4, <1>5, <1>6, <1>7, <1>8, <1>9, SucceedsStep

(* A session that may be used has not been used too often.                 *)
LEMMA UsableUnused ==
    ASSUME SessionInv, NEW s \in Sessions, IsUsable(s)
    PROVE  successes[s] < MaxUsageCount
BY SessionAssumption DEF SessionInv, SessionTypeOK, UsesCounted, IsUsable, Usable, Scored

(* A task asks for a session: it gets one, or a place is free for the one  *)
(* it awaits.                                                              *)
LEMMA FetchStep ==
    ASSUME SessionInv, NEW t \in Tasks, FetchSession(t)
    PROVE  SessionInv'
<1> USE DEF SessionInv, SessionTypeOK, FetchSession, GetSession, storeVars
<1>0. /\ t \in Callers /\ t # User /\ creating[t] = None
      /\ \A x \in Tasks : x \in Callers
  BY CrawlerAssumption DEF Waiting
<1>1. \A x \in Tasks : place'[x] \in {"navigating", "handling"} => place[x] = place'[x] /\ x # t
  OBVIOUS
<1>2. CASE \E s \in sessions : IsUsable(s) /\ Picks(t, s) /\ UNCHANGED <<sessions, sessionMap>>
  <2>1. PICK s \in sessions : IsUsable(s) /\ Picks(t, s) /\ UNCHANGED <<sessions, sessionMap>>
    BY <1>2
  <2>2. SessionTypeOK'
    BY <1>0, <2>1 DEF Picks
  <2>3. UsesCounted'
    BY <1>1, <2>1, UsableUnused, UsesPicked DEF Picks
  <2> QED
    BY <2>1, <2>2, <2>3, PoolStays DEF Picks
<1>3. CASE /\ Creates(t, Anonymous)
           /\ \/ HasSpaceForSession /\ UNCHANGED <<sessions, sessionMap>>
              \/ RemoveRetiredSessions /\ \E s \in sessions : ~IsUsable(s)
  <2>1. PICK gone \in SUBSET sessions :
           /\ gone # {} \/ HasSpaceForSession
           /\ sessions' = sessions \ gone
           /\ MapAgrees' /\ DOMAIN sessionMap' \subseteq DOMAIN sessionMap
    <3>1. CASE HasSpaceForSession /\ UNCHANGED <<sessions, sessionMap>>
      <4>1. {} \in SUBSET sessions /\ sessions' = sessions \ {}
        BY <3>1
      <4>2. MapAgrees' /\ DOMAIN sessionMap' \subseteq DOMAIN sessionMap
        BY <3>1 DEF MapAgrees
      <4> QED
        BY <3>1, <4>1, <4>2
    <3>2. CASE RemoveRetiredSessions /\ \E s \in sessions : ~IsUsable(s)
      <4> DEFINE gone == {s \in sessions : ~IsUsable(s)}
      <4>1. gone \in SUBSET sessions /\ gone # {} /\ Drops(gone)
        BY <3>2 DEF RemoveRetiredSessions
      <4> QED
        BY <4>1, MapDrops DEF Drops
    <3> QED
      BY <1>3, <3>1, <3>2
  <2>2. SessionTypeOK'
    BY <1>0, <1>3, <2>1 DEF Creates
  <2>3. IdsApart'
    BY <1>0, <1>3, <2>1 DEF IdsApart, Creates
  <2>4. UsesCounted'
    <3>1. \A x \in Tasks : picked'[x] = picked[x] \/ picked'[x] = None
      BY <1>0, <1>3 DEF Creates
    <3>2. \A x \in Tasks : place'[x] \in {"navigating", "handling"} => picked'[x] # None
      BY <1>0, <1>1, <1>3 DEF Creates, UsesCounted
    <3> QED
      BY <3>1, <3>2, <2>2, UsesKept DEF Scored
  <2>5. RoomLeft'
    <3>1. WaitingTasks' = WaitingTasks \cup {t} /\ t \notin WaitingTasks
      BY <1>0, <1>3, SessionAssumption DEF WaitingTasks, Waiting, Creates
    <3>2. /\ Cardinality(WaitingTasks') = Cardinality(WaitingTasks) + 1
          /\ Cardinality(WaitingTasks) \in Nat /\ Cardinality(WaitingTasks') <= Cardinality(Tasks)
      BY <3>1, FiniteSets, FS_AddElement, FS_Subset DEF WaitingTasks
    <3>3. UserWaits' = UserWaits /\ UserWaits \in Nat
      BY <1>0, <1>3, CrawlerAssumption DEF UserWaits, Waiting, Creates
    <3>4. Room' = Room /\ Room \in Int
      BY FiniteSets, SessionAssumption DEF Room
    <3>5. Cardinality(sessions) \in Nat /\ Cardinality(sessions') \in Nat
      BY <2>2, FiniteSets
    <3>6. CASE gone # {}
      <4>1. Cardinality(sessions') < Cardinality(sessions)
        BY <2>1, <3>6, FiniteSets, FS_Subset
      <4> QED
        BY <3>2, <3>3, <3>4, <3>5, <4>1 DEF RoomLeft
    <3>7. CASE gone = {}
      <4>1. Cardinality(sessions') <= MaxPoolSize - 1
        BY <2>1, <3>5, <3>7, SessionAssumption DEF HasSpaceForSession
      <4> QED
        BY <3>2, <3>3, <3>4, <3>5, <4>1, FiniteSets, SessionAssumption DEF RoomLeft, Room
    <3> QED
      BY <3>6, <3>7
  <2> QED
    BY <2>1, <2>2, <2>3, <2>4, <2>5
<1> QED
  BY <1>2, <1>3

(* A session joins under an id that is free, and nobody else waits for.    *)
LEMMA JoinKeepsIds ==
    ASSUME SessionInv, NEW s \in Sessions \ born,
           NEW id \in (Names \cup {s}) \ DOMAIN sessionMap,
           NEW gone \in SUBSET sessions, Joins(s, id, gone), UNCHANGED stored,
           \A t \in Tasks : creating'[t] \in {None, creating[t]},
           creating'[User] = None \/ (creating'[User] = creating[User] /\ id \notin Names)
    PROVE  MapAgrees' /\ IdsApart'
<1> USE DEF SessionInv, SessionTypeOK
<1>1. MapAgrees' /\ DOMAIN sessionMap' \subseteq DOMAIN sessionMap \cup {id}
  BY MapJoins
<1>2. /\ ids'[s] = id
      /\ \A x \in Sessions \ {s} : ids'[x] = ids[x]
  BY DEF Joins
<1>3. \A x \in Sessions : ids'[x] \in Names \cup {x}
  BY <1>2 DEF IdsApart
<1>4. \A x, y \in DOMAIN stored' : ids'[x] = ids'[y] => x = y
  BY <1>2 DEF IdsApart
<1>5. creating'[User] \in {None} \cup (Names \ DOMAIN sessionMap')
  BY <1>1 DEF IdsApart
<1>6. \A t \in Tasks : creating'[t] \in {None, Anonymous}
  BY DEF IdsApart
<1> QED
  BY <1>1, <1>3, <1>4, <1>5, <1>6 DEF IdsApart

(* One more session.                                                       *)
LEMMA OneMore ==
    ASSUME SessionInv, NEW s \in Sessions \ born, NEW gone \in SUBSET sessions,
           sessions' = (sessions \ gone) \cup {s}
    PROVE  /\ Cardinality(sessions') <= Cardinality(sessions) + 1
           /\ Cardinality(sessions') \in Nat /\ Cardinality(sessions) \in Nat
<1> USE DEF SessionInv, SessionTypeOK
<1>1. sessions \cup {s} \subseteq Sessions /\ s \notin sessions
  OBVIOUS
<1>2. IsFiniteSet(sessions) /\ IsFiniteSet(sessions \cup {s}) /\ sessions' \subseteq sessions \cup {s}
  BY <1>1, FiniteSets
<1>3. Cardinality(sessions \cup {s}) = Cardinality(sessions) + 1
  BY <1>1, <1>2, FS_AddElement
<1> QED
  BY <1>2, <1>3, FS_Subset, FS_CardinalityType

(* createSessionFunction resolves for a task or for the user.              *)
LEMMA CreatedStep ==
    ASSUME SessionInv, NEW c \in Callers, NEW s \in Sessions, SessionCreated(c, s),
           UNCHANGED <<storeVars, taskVars, successes>>
    PROVE  SessionInv'
<1> USE DEF SessionInv, SessionTypeOK, storeVars, taskVars
<1>1. /\ s \in Sessions \ born /\ {} \in SUBSET sessions
      /\ creating[c] # None /\ creating' = [creating EXCEPT ![c] = None]
      /\ UNCHANGED <<score, added>>
      /\ c \in Tasks \/ c = User
  BY CrawlerAssumption DEF SessionCreated, Waiting
<1>2. s \notin DOMAIN sessionMap
  BY <1>1, OwnIdFree
<1>3. PICK id \in (Names \cup {s}) \ DOMAIN sessionMap :
         /\ Joins(s, id, {})
         /\ picked' = [picked EXCEPT ![c] = IF c = User THEN None ELSE s]
         /\ c # User => id \notin Names
  BY <1>1, <1>2, CrawlerAssumption, SessionAssumption DEF SessionCreated, IdsApart
<1>4. born' = born \cup {s} /\ sessions' = (sessions \ {}) \cup {s} /\ ids' = [ids EXCEPT ![s] = id]
  BY <1>3 DEF Joins
<1>5. SessionTypeOK'
  BY <1>1, <1>3, <1>4
<1>6. MapAgrees' /\ IdsApart'
  <2>1. /\ \A t \in Tasks : creating'[t] \in {None, creating[t]}
        /\ creating'[User] = None \/ (creating'[User] = creating[User] /\ id \notin Names)
    BY <1>1, <1>3, CrawlerAssumption
  <2>2. UNCHANGED stored
    OBVIOUS
  <2> HIDE DEF SessionInv, SessionTypeOK, storeVars, taskVars
  <2> QED
    BY <1>1, <1>3, <2>1, <2>2, JoinKeepsIds
<1>7. RoomLeft'
  <2>1. /\ Cardinality(sessions') <= Cardinality(sessions) + 1
        /\ Cardinality(sessions') \in Nat /\ Cardinality(sessions) \in Nat
    BY <1>1, <1>4, OneMore
  <2>2. Room' = Room /\ Room \in Int
    BY <1>1, FiniteSets, SessionAssumption DEF Room
  <2>3. IsFiniteSet(WaitingTasks) /\ Cardinality(WaitingTasks) \in Nat
    BY FiniteSets DEF WaitingTasks
  <2>4. CASE c = User
    <3>1. UserWaits = 1 /\ UserWaits' = 0
      BY <1>1, <2>4, SessionAssumption DEF UserWaits, Waiting
    <3>2. WaitingTasks' = WaitingTasks
      BY <1>1, <2>4, CrawlerAssumption DEF WaitingTasks, Waiting
    <3> QED
      BY <1>1, <2>1, <2>2, <2>3, <3>1, <3>2 DEF RoomLeft
  <2>5. CASE c # User
    <3>1. UserWaits' = UserWaits /\ UserWaits \in Nat
      BY <1>1, <2>5, CrawlerAssumption DEF UserWaits, Waiting
    <3>2. c \in WaitingTasks /\ WaitingTasks' = WaitingTasks \ {c}
      BY <1>1, <2>5, CrawlerAssumption, SessionAssumption DEF WaitingTasks, Waiting
    <3>3. Cardinality(WaitingTasks') = Cardinality(WaitingTasks) - 1
      BY <2>3, <3>2, FS_RemoveElement
    <3> QED
      BY <1>1, <2>1, <2>2, <2>3, <3>1, <3>3 DEF RoomLeft
  <2> QED
    BY <2>4, <2>5
<1>8. UsesCounted'
  <2>1. CASE c = User
    <3>1. \A t \in Tasks : picked'[t] = picked[t]
      BY <1>3, <2>1, CrawlerAssumption
    <3>2. \A t \in Tasks : place'[t] \in {"navigating", "handling"} => picked'[t] # None
      BY <3>1 DEF UsesCounted
    <3> QED
      BY <1>1, <1>4, <1>5, <3>1, <3>2, UsesKept DEF Scored
  <2>2. CASE c # User
    <3>1. successes[s] < MaxUsageCount
      BY <1>1, SessionAssumption DEF UsesCounted
    <3> QED
      BY <1>1, <1>3, <1>4, <2>2, <3>1, UsesPicked
  <2> QED
    BY <2>1, <2>2
<1> QED
  BY <1>5, <1>6, <1>7, <1>8

(* addSession makes room if it can, and adds now or later.                 *)
LEMMA AddStep ==
    ASSUME SessionInv, NEW name \in Names, AddSession(User, name),
           UNCHANGED <<storeVars, taskVars, successes>>
    PROVE  SessionInv'
<1> USE DEF SessionInv, SessionTypeOK, storeVars, taskVars
<1>1. PICK gone \in SUBSET sessions :
         \/ Drops(gone) /\ Creates(User, name) /\ UNCHANGED <<born, ids>>
         \/ (\E s \in Sessions \ born : Joins(s, name, gone)) /\ UNCHANGED <<creating, picked>>
  <2> DEFINE unusable == {s \in sessions : ~IsUsable(s)}
  <2>1. {} \in SUBSET sessions /\ unusable \in SUBSET sessions
    OBVIOUS
  <2> HIDE DEF unusable
  <2>2. CASE HasSpaceForSession
    BY <2>1, <2>2 DEF AddSession
  <2>3. CASE ~HasSpaceForSession
    BY <2>1, <2>3 DEF AddSession, unusable
  <2> QED
    BY <2>2, <2>3
<1>2. /\ name \notin DOMAIN sessionMap /\ creating[User] = None
      /\ added' = added + 1 /\ UNCHANGED <<score, expired>>
      /\ User \in Callers
  BY CrawlerAssumption DEF AddSession, Waiting
<1>3. /\ Cardinality(DOMAIN stored) \in Nat
      /\ Room' = Room + 1 /\ Room \in Int
      /\ Cardinality(WaitingTasks) \in Nat
      /\ UserWaits = 0
  BY <1>2, FiniteSets, SessionAssumption DEF Room, WaitingTasks, UserWaits, Waiting
<1>4. CASE Drops(gone) /\ Creates(User, name) /\ UNCHANGED <<born, ids>>
  <2>1. sessions' = sessions \ gone /\ MapAgrees' /\ DOMAIN sessionMap' \subseteq DOMAIN sessionMap
    BY <1>4, MapDrops DEF Drops
  <2>2. \A t \in Tasks : t # User /\ creating'[t] = creating[t] /\ picked'[t] = picked[t]
    BY <1>4, CrawlerAssumption DEF Creates
  <2>3. creating'[User] = name /\ name # None
    BY <1>2, <1>4, SessionAssumption DEF Creates
  <2>4. SessionTypeOK'
    BY <1>2, <1>4, <2>1 DEF Creates
  <2>5. IdsApart'
    BY <1>2, <1>4, <2>1, <2>2, <2>3 DEF IdsApart
  <2>6. Cardinality(sessions') <= Cardinality(sessions) /\ Cardinality(sessions') \in Nat
        /\ Cardinality(sessions) \in Nat
    BY <2>1, <2>4, FiniteSets, FS_Subset
  <2>7. WaitingTasks' = WaitingTasks /\ UserWaits' = 1
    BY <2>2, <2>3 DEF WaitingTasks, UserWaits, Waiting
  <2>8. RoomLeft'
    BY <1>2, <1>3, <2>6, <2>7 DEF RoomLeft
  <2>9. UsesCounted'
    <3>1. \A t \in Tasks : place'[t] \in {"navigating", "handling"} => picked'[t] # None
      BY <2>2 DEF UsesCounted
    <3> QED
      BY <1>2, <1>4, <2>2, <2>4, <3>1, UsesKept DEF Scored
  <2> QED
    BY <2>1, <2>4, <2>5, <2>8, <2>9
<1>5. CASE (\E s \in Sessions \ born : Joins(s, name, gone)) /\ UNCHANGED <<creating, picked>>
  <2>1. PICK s \in Sessions \ born : Joins(s, name, gone)
    BY <1>5
  <2>2. born' = born \cup {s} /\ sessions' = (sessions \ gone) \cup {s} /\ ids' = [ids EXCEPT ![s] = name]
    BY <2>1 DEF Joins
  <2>3. SessionTypeOK'
    BY <1>2, <1>5, <2>2
  <2>4. MapAgrees' /\ IdsApart'
    <3>1. /\ \A t \in Tasks : creating'[t] \in {None, creating[t]}
          /\ creating'[User] = None /\ UNCHANGED stored
          /\ name \in (Names \cup {s}) \ DOMAIN sessionMap
          /\ s \in Sessions \ born /\ gone \in SUBSET sessions
      BY <1>2, <1>5
    <3> HIDE DEF SessionInv, SessionTypeOK, storeVars, taskVars
    <3> QED
      BY <2>1, <3>1, JoinKeepsIds
  <2>5. /\ Cardinality(sessions') <= Cardinality(sessions) + 1
        /\ Cardinality(sessions') \in Nat /\ Cardinality(sessions) \in Nat
    BY <2>2, OneMore
  <2>6. WaitingTasks' = WaitingTasks /\ UserWaits' = UserWaits
    BY <1>5 DEF WaitingTasks, UserWaits, Waiting
  <2>7. RoomLeft'
    BY <1>2, <1>3, <2>5, <2>6 DEF RoomLeft
  <2>8. UsesCounted'
    <3>1. \A t \in Tasks : place'[t] \in {"navigating", "handling"} => picked'[t] # None
      BY <1>5 DEF UsesCounted
    <3> QED
      BY <1>2, <1>5, <2>2, <2>3, <3>1, UsesKept DEF Scored
  <2> QED
    BY <2>3, <2>4, <2>7, <2>8
<1> QED
  BY <1>1, <1>4, <1>5

(* What the snapshot has, and what is restored from it, is no more than    *)
(* there was; sessions that are not restored get back ids of their own.    *)
LEMMA RestartStep ==
    ASSUME SessionInv, RestartCrawler
    PROVE  SessionInv'
<1> USE DEF SessionInv, SessionTypeOK, RestartCrawler, Restart
<1> DEFINE loaded == {s \in DOMAIN stored : Usable(stored[s], s \in expired)}
<1>1. PICK back \in SUBSET DOMAIN stored :
         /\ \A s \in back : stored[s] \in Scored /\ stored[s].usage < MaxUsageCount
         /\ sessions' = back
         /\ sessionMap' = [id \in {ids[s] : s \in back} |-> CHOOSE s \in back : ids[s] = id]
         /\ score' = [s \in Sessions |-> IF s \in back THEN stored[s] ELSE Fresh]
         /\ ids' = [s \in Sessions |-> IF s \in back \cup DOMAIN stored' THEN ids[s] ELSE s]
  <2>1. loaded \in SUBSET DOMAIN stored /\ \A s \in loaded : stored[s] \in Scored /\ stored[s].usage < MaxUsageCount
    BY DEF Usable
  <2> QED
    BY <2>1 DEF MaybeLoadSessionPool
<1>2. UNCHANGED <<born, added>> /\ DOMAIN stored' \subseteq DOMAIN stored
      /\ \A s \in DOMAIN stored' : stored'[s] = stored[s]
  OBVIOUS
<1>3. Fresh \in Scored /\ Fresh.usage = 0
  BY DEF Fresh, Scored
<1>4. SessionTypeOK'
  <2>1. /\ creating' \in [Callers -> Names \cup {Anonymous, None}]
        /\ picked' \in [Callers -> born \cup {None}]
        /\ place' \in [Tasks -> {"idle", "session", "navigating", "handling"}]
        /\ lateTimeouts' \subseteq born
    OBVIOUS
  <2>2. /\ score' \in [Sessions -> Scored] /\ ids' \in [Sessions -> Sessions \cup Names]
        /\ sessions' \subseteq born
    BY <1>1, <1>3
  <2>3. successes' \in [Sessions -> Nat]
    BY <1>1 DEF Scored
  <2> QED
    BY <1>2, <2>1, <2>2, <2>3
<1>5. MapAgrees'
  <2>1. \A s, x \in back : ids[s] = ids[x] => s = x
    BY DEF IdsApart
  <2>2. \A s \in back : (CHOOSE x \in back : ids[x] = ids[s]) = s
    BY <2>1
  <2>3. \A s \in back : ids'[s] = ids[s]
    BY <1>1
  <2>4. DOMAIN sessionMap' = {ids[s] : s \in back} /\ \A s \in back : sessionMap'[ids[s]] = s
    BY <1>1, <2>2
  <2>5. {ids'[s] : s \in back} = {ids[s] : s \in back}
    BY <2>3
  <2> HIDE DEF SessionInv, SessionTypeOK, RestartCrawler, Restart
  <2> QED
    BY <1>1, <2>3, <2>4, <2>5 DEF MapAgrees
<1>6. IdsApart'
  <2>1. /\ \A t \in Tasks : creating'[t] = None
        /\ creating'[User] = None
    BY CrawlerAssumption
  <2>2. \A s, x \in DOMAIN stored' : ids'[s] = ids'[x] => s = x
    BY <1>1, <1>2 DEF IdsApart
  <2>3. \A s \in Sessions : ids'[s] \in Names \cup {s}
    BY <1>1 DEF IdsApart
  <2> QED
    BY <2>1, <2>2, <2>3 DEF IdsApart
<1>7. RoomLeft'
  <2>1. WaitingTasks' = {} /\ UserWaits' = 0
    BY CrawlerAssumption DEF WaitingTasks, UserWaits, Waiting
  <2>2. /\ Cardinality(sessions') <= Cardinality(DOMAIN stored)
        /\ Cardinality(DOMAIN stored') <= Cardinality(DOMAIN stored)
        /\ Cardinality(sessions') \in Nat /\ Cardinality(DOMAIN stored) \in Nat
        /\ Cardinality(DOMAIN stored') \in Nat
    BY <1>1, <1>2, <1>4, FiniteSets, FS_Subset
  <2>3. Room' = Room /\ Room \in Int
    BY <1>2, FiniteSets, SessionAssumption DEF Room
  <2>4. Cardinality({}) = 0
    BY FS_EmptySet
  <2> QED
    BY <1>2, <2>1, <2>2, <2>3, <2>4 DEF RoomLeft
<1>8. UsesCounted'
  <2>1. \A s \in Sessions : Holders(s)' = {}
    BY CrawlerAssumption, SessionAssumption DEF Holders
  <2>2. \A s \in Sessions : successes'[s] \in Nat /\ successes'[s] < MaxUsageCount
    BY <1>1, SessionAssumption DEF Scored
  <2>3. \A s \in Sessions : successes'[s] <= score'[s].usage /\ (s \notin born' => successes'[s] = 0)
    BY <1>1, <1>2, <1>3 DEF Scored
  <2>4. Cardinality({}) = 0
    BY FS_EmptySet
  <2>5. \A s \in Sessions : successes'[s] + Cardinality(Holders(s)') <= MaxUsageCount - 1 + Cardinality(Tasks)
    <3> HIDE DEF SessionInv, SessionTypeOK, RestartCrawler, Restart
    <3>1. MaxUsageCount \in Nat
      BY SessionAssumption
    <3> QED
      BY <2>1, <2>2, <2>4, <3>1, FiniteSets
  <2>6. \A t \in Tasks : place'[t] = "idle"
    OBVIOUS
  <2> QED
    BY <2>3, <2>5, <2>6 DEF UsesCounted
<1> QED
  BY <1>4, <1>5, <1>6, <1>7, <1>8

(* A call fails, a snapshot is written, a session expires, or a task that  *)
(* has a session goes on with its proxy.                                   *)
LEMMA QuietStep ==
    ASSUME SessionInv,
           UNCHANGED <<born, sessions, sessionMap, ids, score, picked, added, lateTimeouts, successes>>,
           \/ DOMAIN stored' \subseteq sessions /\ \A s \in DOMAIN stored' : stored'[s] = score[s]
           \/ UNCHANGED stored,
           UNCHANGED creating \/ \E c \in Callers : creating' = [creating EXCEPT ![c] = None],
           \/ UNCHANGED place
           \/ \E t \in Tasks, p \in {"handling", "navigating"} :
                 picked[t] # None /\ place' = [place EXCEPT ![t] = p]
    PROVE  SessionInv'
<1> USE DEF SessionInv, SessionTypeOK
<1>1. SessionTypeOK'
  <2>1. \A s \in DOMAIN stored' : stored'[s] \in Scored
    OBVIOUS
  <2>2. creating' \in [Callers -> Names \cup {Anonymous, None}]
    OBVIOUS
  <2>3. place' \in [Tasks -> {"idle", "session", "navigating", "handling"}]
    OBVIOUS
  <2> QED
    BY <2>1, <2>2, <2>3
<1>2. UsesCounted'
  <2>1. \A t \in Tasks : place'[t] \in {"navigating", "handling"} => picked'[t] # None
    BY DEF UsesCounted
  <2> QED
    BY <1>1, <2>1, UsesKept DEF Scored
<1>3. MapAgrees'
  BY DEF MapAgrees
<1>4. \A c \in Callers : creating'[c] \in {creating[c], None}
  OBVIOUS
<1>5. IdsApart'
  BY <1>4, CrawlerAssumption DEF IdsApart, MapAgrees
<1>6. RoomLeft'
  <2>1. WaitingTasks' \subseteq WaitingTasks /\ UserWaits' <= UserWaits
        /\ UserWaits' \in Nat /\ UserWaits \in Nat
    BY <1>4, CrawlerAssumption DEF WaitingTasks, UserWaits, Waiting
  <2>2. /\ Cardinality(WaitingTasks') <= Cardinality(WaitingTasks)
        /\ Cardinality(WaitingTasks') \in Nat /\ Cardinality(WaitingTasks) \in Nat
    BY <2>1, FiniteSets, FS_Subset DEF WaitingTasks
  <2>3. \/ Cardinality(DOMAIN stored') <= Cardinality(DOMAIN stored)
        \/ Cardinality(DOMAIN stored') <= Cardinality(sessions)
    BY <1>1, FiniteSets, FS_Subset
  <2>4. /\ Cardinality(sessions) \in Nat
        /\ Cardinality(DOMAIN stored') \in Nat /\ Cardinality(DOMAIN stored) \in Nat
    BY <1>1, FiniteSets
  <2>5. Room \in Int /\ Room' = Room
    BY FiniteSets, SessionAssumption DEF Room
  <2> QED
    BY <2>1, <2>2, <2>3, <2>4, <2>5 DEF RoomLeft
<1> QED
  BY <1>1, <1>2, <1>3, <1>5, <1>6

(* A crawler starts with an empty pool.                                    *)
LEMMA InitSessionInv == Init => SessionInv
<1> SUFFICES ASSUME Init
             PROVE  SessionInv
  OBVIOUS
<1> USE DEF Init, SessionPoolInit
<1>1. DOMAIN stored = {} /\ DOMAIN sessionMap = {}
  OBVIOUS
<1>2. SessionTypeOK
  BY <1>1 DEF SessionTypeOK, Fresh, Scored
<1>3. MapAgrees
  BY <1>1 DEF MapAgrees
<1>4. IdsApart
  BY <1>1, CrawlerAssumption DEF IdsApart
<1>5. Cardinality({}) = 0
  BY FS_EmptySet
<1>6. RoomLeft
  <2>1. WaitingTasks = {} /\ UserWaits = 0
    BY CrawlerAssumption DEF WaitingTasks, UserWaits, Waiting
  <2>2. Room \in Nat
    BY FiniteSets, SessionAssumption DEF Room
  <2> QED
    BY <1>1, <1>5, <2>1, <2>2 DEF RoomLeft
<1>7. UsesCounted
  <2>1. \A s \in Sessions : Holders(s) = {}
    BY CrawlerAssumption, SessionAssumption DEF Holders
  <2>2. MaxUsageCount \in Nat \ {0}
    BY SessionAssumption
  <2>3. 0 + 0 <= MaxUsageCount - 1 + Cardinality(Tasks)
    BY <2>2, FiniteSets
  <2>4. \A s \in Sessions : successes[s] = 0 /\ score[s].usage = 0
    BY DEF Fresh
  <2>5. \A t \in Tasks : place[t] = "idle"
    OBVIOUS
  <2> HIDE DEF Init, SessionPoolInit
  <2> QED
    BY <1>5, <2>1, <2>3, <2>4, <2>5 DEF UsesCounted
<1> QED
  BY <1>2, <1>3, <1>4, <1>6, <1>7 DEF SessionInv

(* Every step of the tasks, the user and the pool keeps it.                *)
LEMMA StepSessionInv == SessionInv /\ [Next]_vars => SessionInv'
<1> SUFFICES ASSUME SessionInv, [Next]_vars
             PROVE  SessionInv'
  OBVIOUS
<1> USE DEF callVars, storeVars, taskVars
<1>1. ASSUME NEW t \in Tasks, RunRequestHandler(t)
      PROVE  SessionInv'
  BY <1>1, QuietStep DEF RunRequestHandler, sessionVars
<1>2. CASE PoolSteps
  <2>1. ASSUME NEW c \in Callers, CreationFails(c), UNCHANGED <<storeVars, taskVars, successes>>
        PROVE  SessionInv'
    BY <2>1, QuietStep DEF CreationFails
  <2>2. CASE PersistState /\ UNCHANGED <<taskVars, successes>>
    BY <2>2, QuietStep DEF PersistState, GetState
  <2>3. ASSUME NEW s \in Sessions, Expire(s), UNCHANGED <<taskVars, successes>>
        PROVE  SessionInv'
    BY <2>3, QuietStep DEF Expire
  <2> QED
    BY <1>2, <2>1, <2>2, <2>3, CreatedStep, AddStep DEF PoolSteps
<1>3. CASE UNCHANGED vars
  BY <1>3, QuietStep DEF vars, sessionVars
<1> QED
  BY <1>1, <1>2, <1>3, FetchStep, TaskStep, RestartStep DEF Next

(* The proxies take turns at every step.                                   *)
LEMMA StepTurns ==
    ASSUME NoProxyTwice
    PROVE  Turns /\ [Next]_vars => Turns'
<1> SUFFICES ASSUME Turns, [Next]_vars
             PROVE  Turns'
  OBVIOUS
<1>1. CASE UNCHANGED proxyVars
  BY <1>1 DEF Turns, Shared, UsersOf, proxyVars
<1>2. CASE RestartCrawler
  <2>1. nextCustomUrlIndex' = 0 /\ usedProxyUrls' = <<>>
    BY <1>2 DEF RestartCrawler
  <2>2. (nextCustomUrlIndex = 0 /\ usedProxyUrls = <<>> => Turns)'
    BY NoUsers, PTL
  <2> QED
    BY <2>1, <2>2
<1>3. CASE \E t \in Tasks : RunRequestHandler(t)
  BY <1>3, UrlTurns DEF RunRequestHandler
<1> QED
  BY <1>1, <1>2, <1>3 DEF Next, vars, PoolSteps, FetchSession, FetchSessionFails, Ends, Responds,
     HandleRequestTimeout, NavigationAbandoned, LateRequestTimeout, RequestFails, HandlerMarks,
     RequestSucceeds, sessionVars

-----------------------------------------------------------------------------
(* The inductive invariant of the pool of sessions under the tasks of a    *)
(* crawler, whatever fails, expires, is marked late or restarted.          *)
THEOREM SessionInvHolds == Spec => []SessionInv
BY InitSessionInv, StepSessionInv, PTL DEF Spec

(* getSession(id) finds exactly the sessions that the pool may hand out:   *)
(* ids are removed, given and restored together with their sessions.       *)
THEOREM MapAgreesHolds == Spec => []MapAgrees
<1>1. SessionInv => MapAgrees
  BY DEF SessionInv
<1> QED
  BY <1>1, SessionInvHolds, PTL

(* However many calls pass the check of the size before they await, the    *)
(* pool grows by one session for each of them at most.                     *)
THEOREM PoolSizeBoundedHolds == Spec => []PoolSizeBounded
<1>1. SessionInv => PoolSizeBounded
  <2> SUFFICES ASSUME SessionInv
               PROVE  PoolSizeBounded
    OBVIOUS
  <2>2. Cardinality(WaitingTasks) \in Nat /\ Cardinality(sessions) \in Nat /\ Room \in Int
    BY FiniteSets, SessionAssumption DEF SessionInv, SessionTypeOK, WaitingTasks, Room
  <2>3. Cardinality(sessions) + Cardinality(WaitingTasks) <= Room
    BY <2>2 DEF SessionInv, RoomLeft, UserWaits
  <2> QED
    BY <2>2, <2>3 DEF PoolSizeBounded, WaitingTasks, Waiting, Room
<1> QED
  BY <1>1, SessionInvHolds, PTL

(* A session succeeds less often than maxUsageCount and one time for each  *)
(* task, also when marks come late or make a retired session usable again. *)
THEOREM OveruseBoundedHolds == Spec => []OveruseBounded
<1>1. SessionInv => OveruseBounded
  <2>1. SUFFICES ASSUME SessionInv, NEW s \in Sessions
                 PROVE  successes[s] < MaxUsageCount + Cardinality(Tasks)
    BY DEF OveruseBounded
  <2>2. Cardinality(Holders(s)) \in Nat
    BY FiniteSets DEF Holders
  <2> QED
    BY <2>1, <2>2, FiniteSets, SessionAssumption DEF SessionInv, SessionTypeOK, UsesCounted
<1> QED
  BY <1>1, SessionInvHolds, PTL

(* If no proxy is listed twice, none has two sessions more than another.   *)
THEOREM ProxiesBalancedHolds ==
    ASSUME NoProxyTwice
    PROVE  Spec => []ProxiesBalanced
<1>1. Init => Turns
  BY NoUsers DEF Init, ProxyInit
<1>2. Turns => ProxiesBalanced
  <2>1. SUFFICES ASSUME NEW q \in Nat, Shared(q, nextCustomUrlIndex)
                 PROVE  ProxiesBalanced
    BY DEF Turns
  <2> QED
    BY <2>1 DEF Shared, ProxiesBalanced
<1> QED
  BY <1>1, <1>2, StepTurns, PTL DEF Spec
=============================================================================
