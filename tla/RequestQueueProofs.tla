------------------------- MODULE RequestQueueProofs -------------------------
(***************************************************************************)
(* Theorems about RequestQueue, for every set of requests and workers and  *)
(* every value of the other constants: the type invariant and the safety   *)
(* properties that the queue owes to QueueInv and to FinishInv.            *)
(***************************************************************************)
EXTENDS RequestQueue, FiniteSetTheorems, TLAPS

-----------------------------------------------------------------------------
(* The storage.                                                            *)

(* Sets of requests have a number of elements.                             *)
LEMMA RequestSets ==
    ASSUME NEW S, S \subseteq Requests
    PROVE  IsFiniteSet(S) /\ Cardinality(S) \in Nat
BY StorageAssumption, FS_Subset, FS_CardinalityType

(* What adding requests does to the Map.                                   *)
LEMMA AddToStoreEffect ==
    ASSUME StorageTypeOK, NEW rs \in SUBSET Requests, NEW b \in BOOLEAN,
           AddToStore(rs, b)
    PROVE  /\ StorageTypeOK'
           /\ \A r \in Present : requests'[r] # 0
           /\ \A r \in rs : requests'[r] # 0
           /\ handled \subseteq handled'
           /\ handled' \subseteq handled \cup (rs \ Present)
           /\ b \/ handled' = handled
<1> DEFINE new == rs \ Present
           n == Cardinality(Present)
<1>1. n \in Nat /\ Cardinality(new) \in Nat
  BY RequestSets DEF Present
<1>2. PICK rank \in [new -> (n + 1) .. (n + Cardinality(new))] :
          requests' = [r \in Requests |-> IF r \in new THEN rank[r] ELSE requests[r]]
  BY DEF AddToStore
<1>3. \A r \in new : rank[r] \in Nat /\ rank[r] # 0
  BY <1>1
<1>4. requests' \in [Requests -> Nat]
  BY <1>2, <1>3 DEF StorageTypeOK
<1>5. handled' = IF b THEN handled \cup new ELSE handled
  BY DEF AddToStore
<1>6. pendingRequestCount' \in Int
  BY <1>1 DEF AddToStore, StorageTypeOK
<1>7. /\ unsettled' \subseteq Requests
      /\ ~Eventual => unsettled' = {}
      /\ recentlyModified' \in BOOLEAN
  BY StorageAssumption DEF AddToStore, Writes, StorageTypeOK
<1>8. StorageTypeOK'
  BY <1>4, <1>5, <1>6, <1>7 DEF StorageTypeOK
<1>9. /\ \A r \in Present : requests'[r] # 0
      /\ \A r \in rs : requests'[r] # 0
  BY <1>2, <1>3 DEF Present
<1> QED
  BY <1>5, <1>8, <1>9

(* What updating a request does.                                           *)
LEMMA UpdateInStoreEffect ==
    ASSUME StorageTypeOK, NEW r \in Requests, NEW b \in BOOLEAN, UpdateInStore(r, b)
    PROVE  /\ StorageTypeOK'
           /\ \A s \in Present : requests'[s] # 0
           /\ handled \ {r} \subseteq handled'
           /\ handled' \subseteq handled \cup {r}
           /\ b => r \in handled'
<1>1. CASE r \notin Present
  <2>1. AddToStore({r}, b)
    BY <1>1 DEF UpdateInStore
  <2>2. b => r \in handled'
    BY <1>1, <2>1 DEF AddToStore
  <2> QED
    BY <2>1, <2>2, AddToStoreEffect
<1>2. CASE r \in Present
  <2>1. handled' = IF b THEN handled \cup {r} ELSE handled \ {r}
    BY <1>2 DEF UpdateInStore
  <2>2. pendingRequestCount' \in Int
    BY <1>2 DEF UpdateInStore, StorageTypeOK
  <2>3. /\ unsettled' \subseteq Requests
        /\ ~Eventual => unsettled' = {}
        /\ recentlyModified' \in BOOLEAN
        /\ requests' = requests
    BY <1>2, StorageAssumption DEF UpdateInStore, Writes, StorageTypeOK
  <2> QED
    BY <2>1, <2>2, <2>3 DEF StorageTypeOK, Present
<1> QED
  BY <1>1, <1>2

(* The storage starts typed.                                               *)
LEMMA StorageInitType == StorageInit => StorageTypeOK
<1> SUFFICES ASSUME StorageInit PROVE StorageTypeOK
  OBVIOUS
<1>1. PICK left \in SUBSET Preloaded :
          /\ requests \in [Requests -> 0 .. Cardinality(left)]
          /\ handled \in SUBSET left
  BY DEF StorageInit
<1>2. left \subseteq Requests
  BY StorageAssumption
<1>3. Cardinality(left) \in Nat
  BY <1>2, RequestSets
<1>4. requests \in [Requests -> Nat]
  BY <1>1, <1>3
<1> QED
  BY <1>1, <1>2, <1>4 DEF StorageInit, StorageTypeOK

(* A change that only makes writes visible.                                *)
LEMMA SettleType ==
    ASSUME StorageTypeOK, GoesQuiet \/ \E r \in Requests : Settle(r)
    PROVE  StorageTypeOK' /\ requests' = requests /\ handled' = handled
BY DEF StorageTypeOK, GoesQuiet, Settle


-----------------------------------------------------------------------------
(* The types of the queue.                                                 *)

(* An enumeration of requests is a sequence of them.                       *)
LEMMA InOrderType ==
    ASSUME NEW S, S \subseteq Requests, NEW rank, NEW s \in InOrder(S, rank)
    PROVE  s \in Seq(Requests) /\ InSeq(s) \subseteq S
<1>1. Cardinality(S) \in Nat
  BY RequestSets
<1>2. s \in [1 .. Cardinality(S) -> S]
  BY DEF InOrder
<1>3. s \in Seq(S)
  BY <1>1, <1>2
<1> QED
  BY <1>2, <1>3 DEF InSeq

(* The head reversed is a sequence of requests again.                      *)
LEMMA ReversedType ==
    ASSUME NEW s \in Seq(Requests)
    PROVE  Reversed(s) \in Seq(Requests) /\ InSeq(Reversed(s)) \subseteq InSeq(s)
<1>1. Len(s) \in Nat /\ DOMAIN s = 1 .. Len(s)
  OBVIOUS
<1>2. \A i \in 1 .. Len(s) : Len(s) + 1 - i \in 1 .. Len(s)
  BY <1>1
<1>3. \A i \in 1 .. Len(s) : s[Len(s) + 1 - i] \in Requests \cap InSeq(s)
  BY <1>1, <1>2 DEF InSeq
<1>4. Reversed(s) \in [1 .. Len(s) -> Requests \cap InSeq(s)]
  BY <1>3 DEF Reversed
<1> QED
  BY <1>1, <1>4 DEF InSeq

(* The requests of two sequences put together.                             *)
LEMMA InSeqConcat ==
    ASSUME NEW s \in Seq(Requests), NEW t \in Seq(Requests)
    PROVE  InSeq(s \o t) \subseteq InSeq(s) \cup InSeq(t)
BY DEF InSeq

(* Where Finishes and Goes leave the workers.                              *)
LEMMA FinishesType ==
    ASSUME ClientTypeOK, NEW w \in Workers, Finishes(w)
    PROVE  ClientTypeOK'
<1>1. NoCall \in CallType
  BY QueueAssumption DEF NoCall, CallType
<1> QED
  BY <1>1 DEF ClientTypeOK, Finishes, Places

(* A worker that goes to its next await.                                   *)
LEMMA GoesType ==
    ASSUME ClientTypeOK, NEW w \in Workers, NEW place \in Places, NEW c \in CallType,
           Goes(w, place, c)
    PROVE  ClientTypeOK'
BY DEF ClientTypeOK, Goes

(* The limit a query starts with.                                          *)
LEMMA DefaultLimitType ==
    ASSUME inProgress \subseteq Requests
    PROVE  DefaultLimit \in Nat
<1>1. Cardinality(inProgress) \in Nat
  BY RequestSets
<1> QED
  BY <1>1, QueueAssumption DEF DefaultLimit

(* A query that starts.                                                    *)
LEMMA StartQueryType ==
    ASSUME ClientTypeOK, QueryTypeOK, recentlyModified \in BOOLEAN,
           NEW w \in Workers, NEW c \in CallType, StartQuery(w, c)
    PROVE  ClientTypeOK' /\ QueryTypeOK'
<1>1. PICK q \in QueryIds :
         /\ queries' = [queries EXCEPT ![q] = [NoQuery EXCEPT !.status = "sent",
                                                              !.limit = c.limit,
                                                              !.db = ~recentlyModified]]
         /\ queryPromise' = q
         /\ Goes(w, "waiting", [c EXCEPT !.query = q])
  BY DEF StartQuery
<1>2. q \in 0 .. (1 + MaxResets)
  BY QueueAssumption DEF QueryIds
<1>3. [c EXCEPT !.query = q] \in CallType
  BY <1>2 DEF CallType
<1>4. ClientTypeOK'
  BY <1>1, <1>3, GoesType DEF Places
<1>5. [NoQuery EXCEPT !.status = "sent", !.limit = c.limit, !.db = ~recentlyModified]
         \in QueryType
  BY DEF NoQuery, QueryType, CallType
<1> QED
  BY <1>1, <1>2, <1>4, <1>5 DEF QueryTypeOK

(* _ensureHeadIsNonEmpty, on each of its ways.                             *)
LEMMA EnsureHeadType ==
    ASSUME ClientTypeOK, QueryTypeOK, recentlyModified \in BOOLEAN,
           NEW w \in Workers, NEW c \in CallType, EnsureHead(w, c)
    PROVE  ClientTypeOK' /\ QueryTypeOK'
<1>1. CASE queueHead # <<>>
  <2>1. [c EXCEPT !.consistent = TRUE] \in CallType
    BY DEF CallType
  <2> QED
    BY <1>1, <2>1, GoesType DEF EnsureHead, queryVars, QueryTypeOK, Places
<1>2. CASE queueHead = <<>> /\ queryPromise = 0
  BY <1>2, StartQueryType DEF EnsureHead
<1>3. CASE queueHead = <<>> /\ queryPromise # 0
  <2>1. [c EXCEPT !.query = queryPromise] \in CallType
    BY DEF CallType, QueryTypeOK
  <2>2. QueryTypeOK'
    BY <1>3 DEF EnsureHead, queryVars, QueryTypeOK
  <2>3. \/ Finishes(w)
        \/ Goes(w, "waiting", [c EXCEPT !.query = queryPromise])
    BY <1>3 DEF EnsureHead
  <2> QED
    BY <2>1, <2>2, <2>3, FinishesType, GoesType DEF Places
<1> QED
  BY <1>1, <1>2, <1>3

(* The operations on the caches keep their types.                          *)
LEMMA CachesType ==
    ASSUME QueueTypeOK, NEW r \in Requests, NEW rs \in SUBSET Requests, NEW hs
    PROVE  /\ AddRecentlyHandled(r) => recentlyHandled' \subseteq Requests
           /\ CacheRequests(rs, hs)
                 => requestsCache' \in [Requests -> {"absent", "pending", "handled"}]
           /\ StartsProgress(r) => inProgress' \subseteq Requests
           /\ EndsProgress(r) => inProgress' \subseteq Requests
BY DEF QueueTypeOK, AddRecentlyHandled, CacheRequests, StartsProgress, EndsProgress

(* The head without its first request.                                     *)
LEMMA HeadTailType ==
    ASSUME NEW s \in Seq(Requests), s # <<>>
    PROVE  /\ Head(s) \in Requests
           /\ Tail(s) \in Seq(Requests)
           /\ InSeq(Tail(s)) \subseteq InSeq(s)
           /\ Head(s) \in InSeq(s)
BY DEF InSeq

(* The queue starts typed.                                                 *)
LEMMA QueueInitType == QueueInit => TypeOK
<1> SUFFICES ASSUME QueueInit PROVE TypeOK
  OBVIOUS
<1>1. StorageTypeOK
  BY StorageInitType DEF QueueInit
<1>2. NoCall \in CallType /\ NoQuery \in QueryType
  BY QueueAssumption DEF NoCall, CallType, NoQuery, QueryType
<1>3. ClientTypeOK
  BY <1>2 DEF QueueInit, ClientTypeOK, Places
<1>4. QueueTypeOK
  BY DEF QueueInit, QueueTypeOK
<1>5. QueryTypeOK
  BY <1>2, QueueAssumption DEF QueueInit, QueryTypeOK
<1>6. RestTypeOK
  BY DEF QueueInit, RestTypeOK
<1> QED
  BY <1>1, <1>3, <1>4, <1>5, <1>6 DEF TypeOK

(* A worker that has a request, by its place.                              *)
LEMMA HolderHasRequest ==
    ASSUME TypeOK, HoldersHold, NEW w \in Workers, pc[w] \in Holding
    PROVE  req[w] \in Requests
BY DEF TypeOK, ClientTypeOK, HoldersHold

(* The types survive what a worker's caller decides.                       *)
LEMMA CallsType ==
    ASSUME TypeOK, HoldersHold, NEW w \in Workers, Calls(w)
    PROVE  TypeOK'
<1> USE DEF TypeOK
<1>0. NoCall \in CallType
  BY QueueAssumption DEF NoCall, CallType
<1>1. ASSUME NEW rs \in SUBSET Requests, NEW f \in BOOLEAN, AddRequests(w, rs, f)
      PROVE  TypeOK'
  <2> DEFINE requestsToAdd == {r \in rs : requestsCache[r] = "absent"}
  <2>1. [NoCall EXCEPT !.op = "add", !.front = f, !.batch = requestsToAdd] \in CallType
    BY <1>0 DEF CallType
  <2>2. ClientTypeOK'
    BY <1>1, <2>1, GoesType DEF AddRequests, Places
  <2> QED
    BY <1>1, <2>2 DEF AddRequests, storageVars, queueVars, queryVars, boundVars,
                      StorageTypeOK, QueueTypeOK, QueryTypeOK, RestTypeOK
<1>2. ASSUME NEW op \in {"fetch", "isEmpty"}, AskForHead(w, op)
      PROVE  TypeOK'
  <2>1. [NoCall EXCEPT !.op = op, !.limit = DefaultLimit] \in CallType
    BY <1>0, DefaultLimitType DEF CallType, QueueTypeOK
  <2>2. ClientTypeOK' /\ QueryTypeOK'
    BY <1>2, <2>1, EnsureHeadType DEF AskForHead, StorageTypeOK
  <2> QED
    BY <1>2, <2>2 DEF AskForHead, storageVars, queueVars, boundVars,
                      StorageTypeOK, QueueTypeOK, RestTypeOK
<1>3. CASE IsFinished(w)
  <2>1. [NoCall EXCEPT !.op = "isFinished", !.limit = DefaultLimit, !.known = Known]
           \in CallType
    BY <1>0, DefaultLimitType DEF CallType, Known, QueueTypeOK
  <2>2. ClientTypeOK' /\ QueryTypeOK'
    BY <1>3, <2>1, EnsureHeadType DEF IsFinished, StorageTypeOK
  <2> QED
    BY <1>3, <2>2 DEF IsFinished, storageVars, queueVars, boundVars,
                      StorageTypeOK, QueueTypeOK, RestTypeOK
<1>4. CASE ResetStuckQueue(w)
  <2>1. [NoCall EXCEPT !.op = "isFinished", !.limit = QueryHeadMinLength, !.known = Known]
           \in CallType
    BY <1>0, QueueAssumption DEF CallType, Known
  <2>2. ClientTypeOK' /\ QueryTypeOK'
    BY <1>4, <2>1, StartQueryType DEF ResetStuckQueue, StorageTypeOK
  <2>3. QueueTypeOK'
    BY <1>4 DEF ResetStuckQueue, QueueTypeOK
  <2> QED
    BY <1>4, <2>2, <2>3 DEF ResetStuckQueue, storageVars, StorageTypeOK, RestTypeOK
<1>5. ASSUME NEW place \in {"marking", "reclaiming"}, NEW c \in CallType,
             BeginUpdate(w, place, c)
      PROVE  TypeOK'
  <2>1. ClientTypeOK'
    BY <1>5, GoesType, FinishesType DEF BeginUpdate, Places, Holding
  <2> QED
    BY <1>5, <2>1 DEF BeginUpdate, storageVars, queueVars, queryVars, boundVars,
                      StorageTypeOK, QueueTypeOK, QueryTypeOK, RestTypeOK
<1>6. CASE MarkRequestHandled(w)
  <2>1. [NoCall EXCEPT !.op = "mark"] \in CallType
    BY <1>0 DEF CallType
  <2> QED
    BY <1>5, <1>6, <2>1 DEF MarkRequestHandled
<1>7. ASSUME NEW f \in BOOLEAN, ReclaimRequest(w, f)
      PROVE  TypeOK'
  <2>1. [NoCall EXCEPT !.op = "reclaim", !.front = f] \in CallType
    BY <1>0 DEF CallType
  <2> QED
    BY <1>5, <1>7, <2>1 DEF ReclaimRequest
<1> QED
  BY <1>1, <1>2, <1>3, <1>4, <1>6, <1>7 DEF Calls, FetchNextRequest, IsEmpty

(* The types survive what follows from a worker's awaits.                  *)
LEMMA ResumesType ==
    ASSUME TypeOK, HoldersHold, NEW w \in Workers, Resumes(w)
    PROVE  TypeOK'
<1> USE DEF TypeOK
<1>0. NoCall \in CallType /\ call[w] \in CallType
  BY QueueAssumption DEF NoCall, CallType, ClientTypeOK
<1>1. CASE StoreRequests(w)
  <2>1. PICK stored \in SUBSET call[w].batch :
           /\ AddToStore(stored, FALSE)
           /\ Goes(w, "added", [call[w] EXCEPT !.batch = stored,
                                               !.fresh = stored \ Present,
                                               !.done = stored \cap handled])
    BY <1>1 DEF StoreRequests
  <2>2. stored \in SUBSET Requests
    BY <1>0 DEF CallType
  <2>3. [call[w] EXCEPT !.batch = stored, !.fresh = stored \ Present,
                        !.done = stored \cap handled] \in CallType
    BY <1>0, <2>2 DEF CallType
  <2>4. ClientTypeOK' /\ StorageTypeOK'
    BY <2>1, <2>2, <2>3, GoesType, AddToStoreEffect DEF Places
  <2> QED
    BY <1>1, <2>4 DEF StoreRequests, queueVars, queryVars, boundVars,
                      QueueTypeOK, QueryTypeOK, RestTypeOK
<1>2. CASE RequestsAdded(w)
  <2> DEFINE c == call[w]
             new == c.fresh \ (inProgress \cup recentlyHandled)
  <2>1. c.batch \subseteq Requests /\ new \subseteq Requests /\ ToHead(new, c.front) \subseteq Requests
    BY <1>0 DEF CallType, ToHead
  <2>2. PICK s \in InOrder(ToHead(new, c.front), requests) :
           queueHead' = IF c.front THEN Reversed(s) \o queueHead ELSE queueHead \o s
    BY <1>2 DEF RequestsAdded
  <2>3. s \in Seq(Requests) /\ Reversed(s) \in Seq(Requests)
    BY <2>1, InOrderType, ReversedType
  <2>4. queueHead' \in Seq(Requests)
    BY <2>2, <2>3 DEF QueueTypeOK
  <2>5. assumedTotalCount' \in Nat
    <3>1. Cardinality(new) \in Nat
      BY <2>1, RequestSets
    <3> QED
      BY <1>2, <3>1 DEF RequestsAdded, QueueTypeOK
  <2>6. CacheRequests(c.batch, c.done) /\ Finishes(w)
    BY <1>2 DEF RequestsAdded
  <2>7. requestsCache' \in [Requests -> {"absent", "pending", "handled"}]
    BY <2>6 DEF CacheRequests, QueueTypeOK
  <2>8. QueueTypeOK' /\ ClientTypeOK'
    BY <1>2, <2>4, <2>5, <2>6, <2>7, FinishesType DEF RequestsAdded, QueueTypeOK
  <2> QED
    BY <1>2, <2>8 DEF RequestsAdded, storageVars, queryVars, boundVars,
                      StorageTypeOK, QueryTypeOK, RestTypeOK
<1>3. CASE Queried(w) \/ WakeUp(w)
  <2>1. ClientTypeOK' /\ QueryTypeOK'
    <3>1. CASE WakeUp(w)
      BY <1>0, <3>1, EnsureHeadType DEF WakeUp, StorageTypeOK
    <3>2. CASE Queried(w)
      <4> DEFINE c == call[w]
                 higherLimit == queueHead = <<>> /\ c.reached /\ c.limit < HeadMaxLimit
                 locallyConsistent == ~c.multi /\ assumedTotalCount <= assumedHandledCount
                 forConsistency == c.op = "isFinished" /\ ~c.db /\ ~locallyConsistent
                 next == [c EXCEPT !.limit = IF higherLimit THEN (3 * @ + 1) \div 2 ELSE @,
                                   !.iteration = IF @ > MaxConsistencyQueries
                                                 THEN @ ELSE @ + 1,
                                   !.reached = FALSE, !.db = FALSE, !.multi = FALSE]
                 final == [NoCall EXCEPT !.op = c.op, !.known = c.known,
                                         !.consistent = ~forConsistency]
      <4>1. \/ Goes(w, "ensured", final) /\ UNCHANGED queryVars
            \/ Goes(w, "sleeping", next) /\ UNCHANGED queryVars
            \/ EnsureHead(w, next)
        BY <3>2 DEF Queried
      <4>2. next \in CallType
        <5>1. (3 * c.limit + 1) \div 2 \in Nat
          BY <1>0 DEF CallType
        <5>2. c.limit \in Nat /\ c.iteration \in Nat /\ c.iteration + 1 \in Nat
          BY <1>0 DEF CallType
        <5>3. (IF higherLimit THEN (3 * c.limit + 1) \div 2 ELSE c.limit) \in Nat
          BY <5>1, <5>2
        <5>4. (IF c.iteration > MaxConsistencyQueries
               THEN c.iteration ELSE c.iteration + 1) \in Nat
          BY <5>2
        <5> HIDE DEF higherLimit
        <5> QED
          BY <1>0, <5>3, <5>4 DEF CallType
      <4>3. final \in CallType
        BY <1>0 DEF CallType
      <4> HIDE DEF next, final
      <4> QED
        BY <4>1, <4>2, <4>3, GoesType, EnsureHeadType
           DEF Places, queryVars, QueryTypeOK, StorageTypeOK
    <3> QED
      BY <1>3, <3>1, <3>2
  <2> QED
    BY <1>3, <2>1 DEF Queried, WakeUp, storageVars, queueVars, boundVars,
                      StorageTypeOK, QueueTypeOK, RestTypeOK
<1>4. CASE Answer(w)
  <2>1. ClientTypeOK'
    BY <1>4, FinishesType DEF Answer
  <2> QED
    BY <1>4, <2>1 DEF Answer, storageVars, queueVars, queryVars, boundVars,
                      StorageTypeOK, QueueTypeOK, QueryTypeOK, RestTypeOK
<1>5. CASE TakeHead(w)
  <2>1. queueHead' \in Seq(Requests)
    BY <1>5, HeadTailType DEF TakeHead, QueueTypeOK
  <2>2. CASE Finishes(w) /\ UNCHANGED inProgress
    BY <1>5, <2>1, <2>2, FinishesType
       DEF TakeHead, storageVars, queryVars, boundVars,
           StorageTypeOK, QueueTypeOK, QueryTypeOK, RestTypeOK
  <2>3. CASE ~(Finishes(w) /\ UNCHANGED inProgress)
    <3>1. /\ queueHead # <<>>
          /\ pc' = [pc EXCEPT ![w] = "getting"]
          /\ req' = [req EXCEPT ![w] = Head(queueHead)]
          /\ call' = [call EXCEPT ![w] = NoCall]
          /\ StartsProgress(Head(queueHead))
      BY <1>5, <2>3 DEF TakeHead
    <3>2. Head(queueHead) \in Requests
      BY <3>1, HeadTailType DEF QueueTypeOK
    <3>3. ClientTypeOK'
      BY <1>0, <3>1, <3>2 DEF ClientTypeOK, Places, Holding
    <3>4. QueueTypeOK'
      BY <1>5, <2>1, <3>1, <3>2 DEF TakeHead, StartsProgress, QueueTypeOK
    <3> QED
      BY <1>5, <3>3, <3>4 DEF TakeHead, storageVars, queryVars, boundVars,
                              StorageTypeOK, QueryTypeOK, RestTypeOK
  <2> QED
    BY <2>2, <2>3
<1>6. CASE GetRequest(w)
  <2>1. PICK answer \in Found(req[w]) : Goes(w, "got", [NoCall EXCEPT !.found = answer])
    BY <1>6 DEF GetRequest
  <2>2. [NoCall EXCEPT !.found = answer] \in CallType
    BY <1>0 DEF Found, CallType
  <2>3. ClientTypeOK'
    BY <2>1, <2>2, GoesType DEF Places, Holding
  <2> QED
    BY <1>6, <2>3 DEF GetRequest, storageVars, queueVars, queryVars, boundVars,
                      StorageTypeOK, QueueTypeOK, QueryTypeOK, RestTypeOK
<1>7. CASE RequestGot(w)
  <2>1. req[w] \in Requests
    BY <1>7, HolderHasRequest DEF RequestGot, Holding
  <2>2. ClientTypeOK'
    BY <1>0, <1>7, GoesType, FinishesType DEF RequestGot, Places, Holding
  <2>3. recentlyHandled' \subseteq Requests
    BY <1>7, <2>1 DEF RequestGot, AddRecentlyHandled, QueueTypeOK
  <2>4. timers' \in [Requests \X TimerKinds -> Nat]
    BY <1>7, <2>1 DEF RequestGot, RestTypeOK, TimerKinds
  <2> QED
    BY <1>7, <2>2, <2>3, <2>4 DEF RequestGot, storageVars, queryVars, boundVars,
                                  StorageTypeOK, QueueTypeOK, QueryTypeOK, RestTypeOK
<1>8. CASE UpdateRequest(w)
  <2>1. req[w] \in Requests
    BY <1>8, HolderHasRequest DEF UpdateRequest, Holding
  <2>2. StorageTypeOK'
    BY <1>8, <2>1, UpdateInStoreEffect DEF UpdateRequest
  <2>3. [call[w] EXCEPT !.done = {req[w]} \cap handled] \in CallType
    BY <1>0, <2>1 DEF CallType
  <2>4. ClientTypeOK'
    BY <1>8, <2>3, GoesType DEF UpdateRequest, Places, Holding
  <2> QED
    BY <1>8, <2>2, <2>4 DEF UpdateRequest, queueVars, queryVars, boundVars,
                            QueueTypeOK, QueryTypeOK, RestTypeOK
<1>9. CASE RequestMarked(w)
  <2>1. req[w] \in Requests
    BY <1>9, HolderHasRequest DEF RequestMarked, Holding
  <2>2. ClientTypeOK'
    BY <1>9, FinishesType DEF RequestMarked
  <2>3. QueueTypeOK'
    BY <1>9, <2>1 DEF RequestMarked, AddRecentlyHandled, CacheRequests, EndsProgress,
                      QueueTypeOK
  <2> QED
    BY <1>9, <2>2, <2>3 DEF RequestMarked, storageVars, queryVars, boundVars,
                            StorageTypeOK, QueryTypeOK, RestTypeOK
<1>10. CASE RequestReclaimed(w)
  <2>1. req[w] \in Requests
    BY <1>10, HolderHasRequest DEF RequestReclaimed, Holding
  <2>2. ClientTypeOK'
    BY <1>10, FinishesType DEF RequestReclaimed
  <2>3. requestsCache' \in [Requests -> {"absent", "pending", "handled"}]
    BY <1>10 DEF RequestReclaimed, CacheRequests, QueueTypeOK
  <2>4. timers' \in [Requests \X TimerKinds -> Nat]
    BY <1>10, <2>1 DEF RequestReclaimed, RestTypeOK, TimerKinds
  <2> QED
    BY <1>10, <2>2, <2>3, <2>4 DEF RequestReclaimed, storageVars, queryVars, boundVars,
                                   StorageTypeOK, QueueTypeOK, QueryTypeOK, RestTypeOK
<1> QED
  BY <1>1, <1>2, <1>3, <1>4, <1>5, <1>6, <1>7, <1>8, <1>9, <1>10 DEF Resumes

(* The types survive queries, timers, failures and other clients.          *)
LEMMA EnvironmentType ==
    ASSUME TypeOK, HoldersHold,
           \/ \E q \in QueryIds : ListHead(q) \/ HeadListed(q)
           \/ \E r \in Requests, kind \in TimerKinds : TimerFires(r, kind)
           \/ GoesWrong
           \/ OtherClientActs
           \/ StorageSettles
    PROVE  TypeOK'
<1> USE DEF TypeOK
<1>0. NoCall \in CallType /\ NoQuery \in QueryType
  BY QueueAssumption DEF NoCall, CallType, NoQuery, QueryType
<1>1. ASSUME NEW q \in QueryIds, ListHead(q)
      PROVE  TypeOK'
  <2>1. PICK items \in Listings(queries[q].limit) :
           queries' = [queries EXCEPT ![q].status = "answered",
                                      ![q].items = items,
                                      ![q].db = @ /\ ~recentlyModified,
                                      ![q].multi = hadMultipleClients]
    BY <1>1 DEF ListHead
  <2>2. items \subseteq Requests
    BY DEF Listings, Pending, Present
  <2>3. queries[q] \in QueryType
    BY DEF QueryTypeOK
  <2>4. [queries[q] EXCEPT !.status = "answered", !.items = items,
                           !.db = @ /\ ~recentlyModified,
                           !.multi = hadMultipleClients] \in QueryType
    BY <2>2, <2>3 DEF QueryType, RestTypeOK
  <2>5. queries' = [queries EXCEPT ![q] =
                      [queries[q] EXCEPT !.status = "answered", !.items = items,
                                         !.db = @ /\ ~recentlyModified,
                                         !.multi = hadMultipleClients]]
    BY <2>1, <2>3 DEF QueryTypeOK, QueryType
  <2>6. queries' \in [QueryIds -> QueryType]
    BY <2>4, <2>5 DEF QueryTypeOK
  <2> QED
    BY <1>1, <2>6 DEF ListHead, storageVars, clientVars, queueVars, boundVars,
                      StorageTypeOK, ClientTypeOK, QueueTypeOK, QueryTypeOK, RestTypeOK
<1>2. ASSUME NEW q \in QueryIds, HeadListed(q)
      PROVE  TypeOK'
  <2> DEFINE query == queries[q]
             usable == Usable(query.items)
             waiting == {w \in Workers : pc[w] = "waiting" /\ call[w].query = q}
             resumed(w) == [call[w] EXCEPT !.query = 0,
                                           !.limit = query.limit,
                                           !.reached = Cardinality(query.items) >= query.limit,
                                           !.db = query.db,
                                           !.multi = query.multi]
  <2>1. query \in QueryType
    BY DEF QueryTypeOK
  <2>2. usable \subseteq Requests
    BY <2>1 DEF Usable, QueryType
  <2>3. PICK s \in InOrder(usable \ InSeq(queueHead), requests) :
           queueHead' = queueHead \o s
    BY <1>2 DEF HeadListed
  <2>4. queueHead' \in Seq(Requests)
    <3>1. usable \ InSeq(queueHead) \subseteq Requests
      BY <2>2
    <3>2. s \in Seq(Requests)
      BY <3>1, InOrderType
    <3> QED
      BY <2>3, <3>2 DEF QueueTypeOK
  <2>5. requestsCache' \in [Requests -> {"absent", "pending", "handled"}]
    <3>1. CacheRequests(usable, {})
      BY <1>2 DEF HeadListed
    <3> QED
      BY <3>1 DEF CacheRequests, QueueTypeOK
  <2>6. QueryTypeOK'
    <3>1. queryPromise' = 0 /\ queries' = [queries EXCEPT ![q] = NoQuery]
      BY <1>2 DEF HeadListed, ClearsPromise
    <3> QED
      BY <1>0, <3>1, QueueAssumption DEF QueryTypeOK
  <2>7. ASSUME NEW w \in Workers PROVE resumed(w) \in CallType
    <3>1. call[w] \in CallType
      BY DEF ClientTypeOK
    <3>2. (Cardinality(query.items) >= query.limit) \in BOOLEAN
      OBVIOUS
    <3>3. query.limit \in Nat /\ query.db \in BOOLEAN /\ query.multi \in BOOLEAN
      BY <2>1 DEF QueryType
    <3>4. 0 \in 0 .. (1 + MaxResets)
      BY QueueAssumption
    <3> HIDE DEF query
    <3> QED
      BY <3>1, <3>2, <3>3, <3>4 DEF CallType
  <2>8. /\ pc' = [w \in Workers |-> IF w \in waiting THEN "queried" ELSE pc[w]]
        /\ call' = [w \in Workers |-> IF w \in waiting THEN resumed(w) ELSE call[w]]
        /\ req' = req
    BY <1>2 DEF HeadListed
  <2>9. ClientTypeOK'
    <3> HIDE DEF waiting, resumed
    <3> QED
      BY <2>7, <2>8 DEF ClientTypeOK, Places
  <2> QED
    BY <1>2, <2>4, <2>5, <2>6, <2>9 DEF HeadListed, storageVars, StorageTypeOK, boundVars,
                                        QueueTypeOK, RestTypeOK
<1>3. ASSUME NEW r \in Requests, NEW kind \in TimerKinds, TimerFires(r, kind)
      PROVE  TypeOK'
  <2>1. timers[<<r, kind>>] \in Nat /\ timers[<<r, kind>>] > 0
    BY <1>3 DEF TimerFires, Due, RestTypeOK
  <2>2. timers' \in [Requests \X TimerKinds -> Nat]
    <3> DEFINE t == <<r, kind>>
    <3>1. timers' = [timers EXCEPT ![t] = timers[t] - 1]
      BY <1>3 DEF TimerFires
    <3>2. timers[t] - 1 \in Nat
      BY <2>1
    <3>3. t \in Requests \X TimerKinds
      OBVIOUS
    <3> HIDE DEF t
    <3> QED
      BY <3>1, <3>2, <3>3 DEF RestTypeOK
  <2>3. queueHead' \in {queueHead, <<r>> \o queueHead, Append(queueHead, r)}
    BY <1>3 DEF TimerFires
  <2>4. queueHead' \in Seq(Requests)
    <3>1. queueHead \in Seq(Requests) /\ <<r>> \in Seq(Requests)
      BY DEF QueueTypeOK
    <3>2. <<r>> \o queueHead \in Seq(Requests) /\ Append(queueHead, r) \in Seq(Requests)
      BY <3>1
    <3> QED
      BY <2>3, <3>1, <3>2
  <2> QED
    BY <1>3, <2>2, <2>4 DEF TimerFires, EndsProgress, storageVars, clientVars, queryVars,
                            boundVars, StorageTypeOK, ClientTypeOK, QueueTypeOK,
                            QueryTypeOK, RestTypeOK
<1>4. ASSUME NEW w \in Workers, AddFails(w) \/ GetFails(w) \/ UpdateFails(w) \/ Abandon(w)
      PROVE  TypeOK'
  <2>1. Finishes(w) \/ Goes(w, "holding", NoCall)
    BY <1>4 DEF AddFails, GetFails, UpdateFails, Abandon
  <2>2. ClientTypeOK'
    BY <1>0, <2>1, FinishesType, GoesType DEF Places, Holding
  <2>3. failures' \in Nat /\ resets' = resets
    BY <1>4 DEF AddFails, GetFails, UpdateFails, Abandon, Fails, RestTypeOK
  <2> QED
    BY <1>4, <2>2, <2>3 DEF AddFails, GetFails, UpdateFails, Abandon, EndsProgress,
                            storageVars, queueVars, queryVars, StorageTypeOK,
                            QueueTypeOK, QueryTypeOK, RestTypeOK
<1>5. ASSUME NEW q \in QueryIds, QueryFails(q)
      PROVE  TypeOK'
  <2>1. [NoQuery EXCEPT !.status = "rejected"] \in QueryType
    BY DEF NoQuery, QueryType
  <2>2. queries' \in [QueryIds -> QueryType]
    BY <1>0, <1>5, <2>1 DEF QueryFails, QueryTypeOK
  <2>3. ClientTypeOK'
    BY <1>0, <1>5 DEF QueryFails, ClientTypeOK, Places
  <2>4. failures' \in Nat /\ resets' = resets
    BY <1>5 DEF QueryFails, Fails, RestTypeOK
  <2> QED
    BY <1>5, <2>2, <2>3, <2>4 DEF QueryFails, storageVars, queueVars, StorageTypeOK,
                                  QueueTypeOK, QueryTypeOK, RestTypeOK
<1>6. CASE OtherClientActs
  <2>1. StorageTypeOK'
    <3>1. ASSUME NEW r \in Requests, AddToStore({r}, FALSE) PROVE StorageTypeOK'
      BY <3>1, AddToStoreEffect
    <3>2. ASSUME NEW r \in Requests, UpdateInStore(r, TRUE) PROVE StorageTypeOK'
      BY <3>2, UpdateInStoreEffect
    <3> QED
      BY <1>6, <3>1, <3>2 DEF OtherClientActs, Pending, Present
  <2> QED
    BY <1>6, <2>1 DEF OtherClientActs, clientVars, queueVars, queryVars, boundVars,
                      ClientTypeOK, QueueTypeOK, QueryTypeOK, RestTypeOK
<1>7. CASE StorageSettles
  BY <1>7, SettleType DEF StorageSettles, clientVars, queueVars, queryVars, boundVars,
                          ClientTypeOK, QueueTypeOK, QueryTypeOK, RestTypeOK
<1> QED
  BY <1>1, <1>2, <1>3, <1>4, <1>5, <1>6, <1>7 DEF GoesWrong

(* Nobody but a worker that fetches or processes a request has one.        *)
LEMMA HoldersHoldStep ==
    ASSUME TypeOK, HoldersHold, [Next]_vars
    PROVE  HoldersHold'
<1> USE DEF HoldersHold, TypeOK, ClientTypeOK, QueueTypeOK
<1>0. None \notin Requests
  BY QueueAssumption
<1>1. ASSUME NEW w \in Workers, Finishes(w)
      PROVE  HoldersHold'
  BY <1>1 DEF Finishes, Holding
<1>2. ASSUME NEW w \in Workers, NEW place \in Places, NEW c,
             Goes(w, place, c), place \in Holding <=> pc[w] \in Holding
      PROVE  HoldersHold'
  BY <1>2 DEF Goes
<1>3. ASSUME NEW w \in Workers, NEW c, EnsureHead(w, c), pc[w] \notin Holding
      PROVE  HoldersHold'
  BY <1>1, <1>2, <1>3 DEF EnsureHead, StartQuery, Holding, Places
<1>4. ASSUME NEW w \in Workers, Calls(w)
      PROVE  HoldersHold'
  <2>1. ASSUME NEW place \in {"marking", "reclaiming"}, NEW c, BeginUpdate(w, place, c)
        PROVE  HoldersHold'
    BY <1>1, <1>2, <2>1 DEF BeginUpdate, Holding, Places
  <2>2. CASE MarkRequestHandled(w) \/ \E f \in BOOLEAN : ReclaimRequest(w, f)
    BY <2>1, <2>2 DEF MarkRequestHandled, ReclaimRequest
  <2>3. CASE \/ \E rs \in SUBSET Requests, f \in BOOLEAN : AddRequests(w, rs, f)
             \/ ResetStuckQueue(w)
    BY <1>2, <2>3 DEF AddRequests, ResetStuckQueue, StartQuery, Holding, Places
  <2>4. CASE FetchNextRequest(w) \/ IsEmpty(w) \/ IsFinished(w)
    <3>1. pc[w] \notin Holding
      BY <2>4 DEF FetchNextRequest, IsEmpty, IsFinished, AskForHead, Holding
    <3> QED
      BY <1>3, <2>4, <3>1 DEF FetchNextRequest, IsEmpty, IsFinished, AskForHead
  <2> QED
    BY <1>4, <2>2, <2>3, <2>4 DEF Calls
<1>5. ASSUME NEW w \in Workers, Resumes(w)
      PROVE  HoldersHold'
  <2>1. CASE RequestsAdded(w) \/ Answer(w) \/ RequestMarked(w) \/ RequestReclaimed(w)
    BY <1>1, <2>1 DEF RequestsAdded, Answer, RequestMarked, RequestReclaimed
  <2>2. CASE StoreRequests(w) \/ GetRequest(w) \/ UpdateRequest(w)
    BY <1>2, <2>2 DEF StoreRequests, GetRequest, UpdateRequest, Holding, Places
  <2>3. CASE RequestGot(w)
    BY <1>1, <1>2, <2>3 DEF RequestGot, Holding, Places
  <2>4. CASE Queried(w) \/ WakeUp(w)
    <3>1. pc[w] \notin Holding
      BY <2>4 DEF Queried, WakeUp, Holding
    <3> QED
      BY <1>2, <1>3, <2>4, <3>1 DEF Queried, WakeUp, Holding, Places
  <2>5. CASE TakeHead(w)
    <3>1. CASE Finishes(w)
      BY <1>1, <3>1
    <3>2. CASE ~Finishes(w)
      <4>1. /\ queueHead # <<>>
            /\ pc' = [pc EXCEPT ![w] = "getting"]
            /\ req' = [req EXCEPT ![w] = Head(queueHead)]
        BY <2>5, <3>2 DEF TakeHead
      <4>2. Head(queueHead) \in Requests
        BY <4>1, HeadTailType
      <4> QED
        BY <1>0, <4>1, <4>2 DEF Holding
    <3> QED
      BY <3>1, <3>2
  <2> QED
    BY <1>5, <2>1, <2>2, <2>3, <2>4, <2>5 DEF Resumes
<1>6. ASSUME NEW q \in QueryIds, ListHead(q) \/ HeadListed(q)
      PROVE  HoldersHold'
  <2>1. CASE ListHead(q)
    BY <2>1 DEF ListHead, clientVars
  <2>2. CASE HeadListed(q)
    <3>1. /\ req' = req
          /\ \A w \in Workers : pc'[w] = pc[w] \/ (pc[w] = "waiting" /\ pc'[w] = "queried")
      BY <2>2 DEF HeadListed
    <3> QED
      BY <3>1 DEF Holding
  <2> QED
    BY <1>6, <2>1, <2>2
<1>7. CASE \E r \in Requests, kind \in TimerKinds : TimerFires(r, kind)
  BY <1>7 DEF TimerFires, clientVars
<1>8. CASE GoesWrong
  <2>1. ASSUME NEW w \in Workers,
               AddFails(w) \/ GetFails(w) \/ UpdateFails(w) \/ Abandon(w)
        PROVE  HoldersHold'
    BY <1>1, <1>2, <2>1 DEF AddFails, GetFails, UpdateFails, Abandon, Holding, Places
  <2>2. ASSUME NEW q \in QueryIds, QueryFails(q)
        PROVE  HoldersHold'
    BY <2>2 DEF QueryFails, Holding
  <2> QED
    BY <1>8, <2>1, <2>2 DEF GoesWrong
<1>9. CASE OtherClientActs \/ StorageSettles
  BY <1>9 DEF OtherClientActs, StorageSettles, clientVars
<1>10. CASE UNCHANGED vars
  BY <1>10 DEF vars, clientVars
<1> QED
  BY <1>4, <1>5, <1>6, <1>7, <1>8, <1>9, <1>10 DEF Next

(* Every step of the queue and of its environment keeps the types.         *)
LEMMA TypeStep ==
    ASSUME TypeOK, HoldersHold, [Next]_vars
    PROVE  TypeOK'
<1>1. CASE \E w \in Workers : Calls(w) \/ Resumes(w)
  BY <1>1, CallsType, ResumesType
<1>2. CASE UNCHANGED vars
  BY <1>2 DEF vars, storageVars, clientVars, queueVars, queryVars, boundVars, TypeOK,
              StorageTypeOK, ClientTypeOK, QueueTypeOK, QueryTypeOK, RestTypeOK
<1> QED
  BY <1>1, <1>2, EnvironmentType DEF Next

(* Every reachable state is well-typed, and who has a request is where the *)
(* code has one in hand.                                                   *)
THEOREM TypeCorrect == Spec => [](TypeOK /\ HoldersHold)
<1>1. QueueInit => TypeOK /\ HoldersHold
  BY QueueInitType DEF QueueInit, HoldersHold, Holding
<1>2. TypeOK /\ HoldersHold /\ [Next]_vars => (TypeOK /\ HoldersHold)'
  BY TypeStep, HoldersHoldStep
<1> QED
  BY <1>1, <1>2, PTL DEF Spec

-----------------------------------------------------------------------------
(* The head as a list without duplicates.                                  *)
Distinct(s) == \A i, j \in DOMAIN s : s[i] = s[j] => i = j

(* A listing names no request twice.                                       *)
LEMMA InOrderDistinct ==
    ASSUME NEW S, S \subseteq Requests, NEW rank \in [Requests -> Nat],
           NEW s \in InOrder(S, rank)
    PROVE  Distinct(s)
<1>1. Cardinality(S) \in Nat
  BY RequestSets
<1>2. /\ s \in [1 .. Cardinality(S) -> S]
      /\ \A i, j \in 1 .. Cardinality(S) : i < j => rank[s[i]] < rank[s[j]]
  BY DEF InOrder
<1>3. ASSUME NEW i \in DOMAIN s, NEW j \in DOMAIN s, s[i] = s[j], i # j
      PROVE  FALSE
  <2>1. i \in 1 .. Cardinality(S) /\ j \in 1 .. Cardinality(S)
    BY <1>2, <1>3
  <2>2. i < j \/ j < i
    BY <1>1, <1>3, <2>1
  <2>3. rank[s[i]] \in Nat
    BY <1>2, <2>1
  <2> QED
    BY <1>2, <1>3, <2>1, <2>2, <2>3
<1> QED
  BY <1>3 DEF Distinct

(* Nor does it reversed.                                                   *)
LEMMA ReversedDistinct ==
    ASSUME NEW s \in Seq(Requests), Distinct(s)
    PROVE  Distinct(Reversed(s))
<1>1. Len(s) \in Nat /\ DOMAIN s = 1 .. Len(s) /\ DOMAIN Reversed(s) = 1 .. Len(s)
  BY DEF Reversed
<1>2. \A i \in 1 .. Len(s) : /\ Reversed(s)[i] = s[Len(s) + 1 - i]
                             /\ Len(s) + 1 - i \in 1 .. Len(s)
  BY <1>1 DEF Reversed
<1>3. ASSUME NEW i \in 1 .. Len(s), NEW j \in 1 .. Len(s), Reversed(s)[i] = Reversed(s)[j]
      PROVE  i = j
  <2>1. Len(s) + 1 - i = Len(s) + 1 - j
    BY <1>1, <1>2, <1>3 DEF Distinct
  <2> QED
    BY <1>1, <2>1
<1> QED
  BY <1>1, <1>3 DEF Distinct

(* Lists without a common element, one after the other.                    *)
LEMMA ConcatDistinct ==
    ASSUME NEW s \in Seq(Requests), NEW t \in Seq(Requests), Distinct(s), Distinct(t),
           InSeq(s) \cap InSeq(t) = {}
    PROVE  Distinct(s \o t)
<1>1. /\ Len(s) \in Nat /\ Len(t) \in Nat
      /\ DOMAIN s = 1 .. Len(s) /\ DOMAIN t = 1 .. Len(t)
      /\ DOMAIN (s \o t) = 1 .. (Len(s) + Len(t))
      /\ \A i \in 1 .. (Len(s) + Len(t)) :
            (s \o t)[i] = IF i <= Len(s) THEN s[i] ELSE t[i - Len(s)]
  OBVIOUS
<1>2. ASSUME NEW i \in DOMAIN (s \o t), NEW j \in DOMAIN (s \o t),
             (s \o t)[i] = (s \o t)[j]
      PROVE  i = j
  <2>1. i \in Nat /\ j \in Nat
    BY <1>1
  <2>2. CASE i <= Len(s) /\ j <= Len(s)
    BY <1>1, <1>2, <2>1, <2>2 DEF Distinct
  <2>3. CASE i > Len(s) /\ j > Len(s)
    <3>1. i - Len(s) \in DOMAIN t /\ j - Len(s) \in DOMAIN t
      BY <1>1, <2>1, <2>3
    <3>2. t[i - Len(s)] = t[j - Len(s)]
      BY <1>1, <1>2, <2>1, <2>3
    <3>3. i - Len(s) = j - Len(s)
      BY <3>1, <3>2 DEF Distinct
    <3> QED
      BY <1>1, <2>1, <3>3
  <2>4. CASE i <= Len(s) /\ j > Len(s)
    <3>1. i \in DOMAIN s /\ j - Len(s) \in DOMAIN t
      BY <1>1, <2>1, <2>4
    <3>2. s[i] = t[j - Len(s)]
      BY <1>1, <1>2, <2>1, <2>4
    <3> QED
      BY <3>1, <3>2 DEF InSeq
  <2>5. CASE i > Len(s) /\ j <= Len(s)
    <3>1. j \in DOMAIN s /\ i - Len(s) \in DOMAIN t
      BY <1>1, <2>1, <2>5
    <3>2. s[j] = t[i - Len(s)]
      BY <1>1, <1>2, <2>1, <2>5
    <3> QED
      BY <3>1, <3>2 DEF InSeq
  <2> QED
    BY <1>1, <2>1, <2>2, <2>3, <2>4, <2>5
<1> QED
  BY <1>2 DEF Distinct

(* Nor does the rest of a head.                                            *)
LEMMA TailDistinct ==
    ASSUME NEW s \in Seq(Requests), s # <<>>, Distinct(s)
    PROVE  Distinct(Tail(s)) /\ Head(s) \notin InSeq(Tail(s))
<1>1. /\ Len(s) \in Nat /\ Len(s) >= 1
      /\ DOMAIN s = 1 .. Len(s)
      /\ DOMAIN Tail(s) = 1 .. (Len(s) - 1)
      /\ \A i \in 1 .. (Len(s) - 1) : Tail(s)[i] = s[i + 1]
      /\ Head(s) = s[1]
  OBVIOUS
<1>2. \A i \in 1 .. (Len(s) - 1) : i + 1 \in 1 .. Len(s) /\ i + 1 # 1
  BY <1>1
<1>3. ASSUME NEW i \in DOMAIN Tail(s), NEW j \in DOMAIN Tail(s), Tail(s)[i] = Tail(s)[j]
      PROVE  i = j
  <2>1. i + 1 = j + 1
    BY <1>1, <1>2, <1>3 DEF Distinct
  <2> QED
    BY <1>1, <2>1
<1>4. \A i \in DOMAIN Tail(s) : Tail(s)[i] # Head(s)
  BY <1>1, <1>2 DEF Distinct
<1> QED
  BY <1>3, <1>4 DEF Distinct, InSeq

(* The head stays a list without duplicates: what joins it is not in it.   *)
LEMMA HeadDistinctStep ==
    ASSUME TypeOK, HeadDistinct, [Next]_vars
    PROVE  HeadDistinct'
<1> USE DEF TypeOK, QueueTypeOK
<1>0. Distinct(queueHead) /\ (HeadDistinct' <=> Distinct(queueHead'))
  BY DEF Distinct, HeadDistinct
<1>1. CASE queueHead' = queueHead
  BY <1>0, <1>1
<1>2. ASSUME NEW w \in Workers, RequestsAdded(w)
      PROVE  HeadDistinct'
  <2> DEFINE c == call[w]
             new == c.fresh \ (inProgress \cup recentlyHandled)
             joins == ToHead(new, c.front)
  <2>1. PICK s \in InOrder(joins, requests) :
          queueHead' = IF c.front THEN Reversed(s) \o queueHead ELSE queueHead \o s
    BY <1>2 DEF RequestsAdded
  <2>2. joins \subseteq Requests /\ joins \cap InSeq(queueHead) = {}
    BY DEF ToHead, ClientTypeOK, CallType
  <2>3. requests \in [Requests -> Nat]
    BY DEF StorageTypeOK
  <2> HIDE DEF joins, c
  <2>4. /\ s \in Seq(Requests) /\ InSeq(s) \subseteq joins /\ Distinct(s)
        /\ Reversed(s) \in Seq(Requests) /\ InSeq(Reversed(s)) \subseteq joins
        /\ Distinct(Reversed(s))
    BY <2>2, <2>3, InOrderType, InOrderDistinct, ReversedType, ReversedDistinct
  <2>5. CASE c.front
    BY <1>0, <2>1, <2>2, <2>4, <2>5, ConcatDistinct
  <2>6. CASE ~c.front
    BY <1>0, <2>1, <2>2, <2>4, <2>6, ConcatDistinct
  <2> QED
    BY <2>5, <2>6
<1>3. ASSUME NEW q \in QueryIds, HeadListed(q)
      PROVE  HeadDistinct'
  <2> DEFINE joins == Usable(queries[q].items) \ InSeq(queueHead)
  <2>1. PICK s \in InOrder(joins, requests) : queueHead' = queueHead \o s
    BY <1>3 DEF HeadListed
  <2>2. joins \subseteq Requests /\ joins \cap InSeq(queueHead) = {}
    BY DEF Usable, QueryTypeOK, QueryType
  <2>3. requests \in [Requests -> Nat]
    BY DEF StorageTypeOK
  <2> HIDE DEF joins
  <2>4. s \in Seq(Requests) /\ InSeq(s) \subseteq joins /\ Distinct(s)
    BY <2>2, <2>3, InOrderType, InOrderDistinct
  <2> QED
    BY <1>0, <2>1, <2>2, <2>4, ConcatDistinct
<1>4. ASSUME NEW w \in Workers, TakeHead(w)
      PROVE  HeadDistinct'
  <2>1. queueHead' = IF queueHead = <<>> THEN <<>> ELSE Tail(queueHead)
    BY <1>4 DEF TakeHead
  <2> QED
    BY <1>0, <2>1, TailDistinct DEF Distinct
<1>5. ASSUME NEW r \in Requests, NEW kind \in TimerKinds, TimerFires(r, kind)
      PROVE  HeadDistinct'
  <2>1. \/ queueHead' = queueHead
        \/ r \notin InSeq(queueHead) /\ queueHead' = <<r>> \o queueHead
        \/ r \notin InSeq(queueHead) /\ queueHead' = queueHead \o <<r>>
    BY <1>5 DEF TimerFires
  <2>2. <<r>> \in Seq(Requests) /\ InSeq(<<r>>) = {r} /\ Distinct(<<r>>)
    BY DEF InSeq, Distinct
  <2>3. CASE r \notin InSeq(queueHead) /\ queueHead' = <<r>> \o queueHead
    BY <1>0, <2>2, <2>3, ConcatDistinct
  <2>4. CASE r \notin InSeq(queueHead) /\ queueHead' = queueHead \o <<r>>
    BY <1>0, <2>2, <2>4, ConcatDistinct
  <2> QED
    BY <1>1, <2>1, <2>3, <2>4
<1>6. ASSUME NEW w \in Workers, ResetStuckQueue(w)
      PROVE  HeadDistinct'
  BY <1>6 DEF ResetStuckQueue, HeadDistinct
<1>7. ASSUME NEW w \in Workers, Calls(w) \/ Resumes(w)
      PROVE  HeadDistinct'
  <2>1. \/ queueHead' = queueHead
        \/ RequestsAdded(w) \/ TakeHead(w) \/ ResetStuckQueue(w)
    BY <1>7 DEF Calls, Resumes, AddRequests, FetchNextRequest, IsEmpty, AskForHead,
         IsFinished, MarkRequestHandled, ReclaimRequest, BeginUpdate, StoreRequests,
         Queried, WakeUp, Answer, GetRequest, RequestGot, UpdateRequest, RequestMarked,
         RequestReclaimed, queueVars
  <2> QED
    BY <1>1, <1>2, <1>4, <1>6, <2>1
<1>8. CASE GoesWrong \/ OtherClientActs \/ StorageSettles \/ UNCHANGED vars
           \/ \E q \in QueryIds : ListHead(q)
  <2>1. queueHead' = queueHead
    BY <1>8 DEF GoesWrong, AddFails, GetFails, UpdateFails, Abandon, QueryFails,
         OtherClientActs, StorageSettles, ListHead, vars, queueVars
  <2> QED
    BY <1>1, <2>1
<1> QED
  BY <1>3, <1>5, <1>7, <1>8 DEF Next

-----------------------------------------------------------------------------
(* A step that leaves what a worker holds and knows of it as it is.        *)
ClientsUndisturbed ==
    \A w \in Workers :
        /\ req'[w] \in {req[w], None}
        /\ \/ pc'[w] \notin {"marked", "got"}
           \/ pc'[w] = pc[w] /\ call'[w] = call[w] /\ req'[w] = req[w]

(* A step that only adds fresh requests to the head and to the storage.    *)
Undisturbed ==
    /\ inProgress' = inProgress
    /\ recentlyHandled' = recentlyHandled
    /\ timers' = timers
    /\ InSeq(queueHead') \cap (inProgress \cup recentlyHandled) = {}
    /\ handled \subseteq handled'
    /\ Present \subseteq Present'
    /\ OtherClients \/ handled' = handled

(* Finishing an operation disturbs no owner.                               *)
LEMMA FinishesUndisturbed ==
    ASSUME ClientTypeOK, NEW w \in Workers, Finishes(w)
    PROVE  ClientsUndisturbed
BY DEF ClientTypeOK, Finishes, ClientsUndisturbed

(* Nor does going to the next await.                                       *)
LEMMA GoesUndisturbed ==
    ASSUME ClientTypeOK, NEW w \in Workers, NEW c,
           NEW place \in Places \ {"marked", "got"}, Goes(w, place, c)
    PROVE  ClientsUndisturbed
BY DEF ClientTypeOK, Goes, ClientsUndisturbed

(* Nor does _ensureHeadIsNonEmpty.                                         *)
LEMMA EnsureHeadUndisturbed ==
    ASSUME ClientTypeOK, NEW w \in Workers, NEW c, EnsureHead(w, c)
    PROVE  ClientsUndisturbed
<1>1. \/ Finishes(w)
      \/ \E d : Goes(w, "ensured", d)
      \/ \E d : Goes(w, "waiting", d)
  BY DEF EnsureHead, StartQuery
<1> QED
  BY <1>1, FinishesUndisturbed, GoesUndisturbed DEF Places

(* What disturbs no owner keeps the ownership invariant.                   *)
LEMMA UndisturbedOwnership ==
    ASSUME TypeOK, Ownership, ClientsUndisturbed, Undisturbed, None \notin Requests
    PROVE  Ownership'
<1> USE DEF Ownership, Undisturbed, ClientsUndisturbed
<1>1. HeldInProgress'
  BY DEF HeldInProgress
<1>2. HeldByOne'
  BY DEF HeldByOne
<1>3. TimerAlone'
  BY DEF TimerAlone
<1>4. RememberedDone'
  BY DEF RememberedDone, TypeOK, QueueTypeOK
<1>5. KnowledgeTrue'
  <2>1. ASSUME NEW w \in Workers, pc'[w] \in {"marked", "got"}
        PROVE  pc'[w] = pc[w] /\ call'[w] = call[w] /\ req'[w] = req[w]
    BY <2>1
  <2>2. ~OtherClients => Pending \subseteq Pending'
    BY DEF Pending
  <2> QED
    BY <2>1, <2>2 DEF KnowledgeTrue
<1>6. HeadFresh'
  BY DEF HeadFresh
<1> QED
  BY <1>1, <1>2, <1>3, <1>4, <1>5, <1>6

(* The callers' steps: only a reset disturbs who holds what, and then all  *)
(* holders are done.                                                       *)
LEMMA CallsOwnership ==
    ASSUME TypeOK, HoldersHold, Ownership, Calm', NEW w \in Workers, Calls(w)
    PROVE  Ownership'
<1> USE DEF TypeOK
<1>1. CASE ResetStuckQueue(w)
  <2>1. resets \in Nat /\ resets' = resets + 1
    BY <1>1 DEF ResetStuckQueue, RestTypeOK
  <2>2. TimelyHolders
    BY <2>1 DEF Calm
  <2>3. /\ \A v \in Workers : pc[v] \notin Holding
        /\ \A r \in Requests, k \in TimerKinds : timers[<<r, k>>] = 0
    BY <1>1, <2>2 DEF ResetStuckQueue, RestTypeOK
  <2>4. /\ queueHead' = <<>> /\ inProgress' = {} /\ recentlyHandled' = {}
        /\ timers' = timers
        /\ \E c : Goes(w, "waiting", c)
    BY <1>1 DEF ResetStuckQueue, StartQuery
  <2>5. /\ \A v \in Workers : req'[v] = None
        /\ \A v \in Workers : pc'[v] \notin {"marked", "got"}
    BY <2>3, <2>4 DEF Goes, ClientTypeOK, HoldersHold, Holding
  <2>6. HeldInProgress' /\ HeldByOne' /\ KnowledgeTrue'
    BY <2>5 DEF HeldInProgress, HeldByOne, KnowledgeTrue
  <2>7. TimerAlone' /\ RememberedDone' /\ HeadFresh'
    BY <2>3, <2>4 DEF TimerAlone, RememberedDone, HeadFresh
  <2> QED
    BY <2>6, <2>7 DEF Ownership
<1>2. CASE ~ResetStuckQueue(w)
  <2>1. /\ UNCHANGED <<storageVars, queueVars, timers>>
        /\ \/ Finishes(w)
           \/ \E place \in {"adding", "marking", "reclaiming"}, rs \in SUBSET Requests,
                 f \in BOOLEAN : \E c : Goes(w, place, c)
           \/ \E c : EnsureHead(w, c)
    BY <1>2 DEF Calls, AddRequests, FetchNextRequest, IsEmpty, AskForHead, IsFinished,
         MarkRequestHandled, ReclaimRequest, BeginUpdate
  <2>2. ClientsUndisturbed
    BY <2>1, FinishesUndisturbed, GoesUndisturbed, EnsureHeadUndisturbed
       DEF Places, Holding
  <2>3. Undisturbed
    BY <2>1 DEF Undisturbed, storageVars, queueVars, Present, Ownership, HeadFresh
  <2> QED
    BY <2>2, <2>3, UndisturbedOwnership, QueueAssumption
<1> QED
  BY <1>1, <1>2

(* What a new listing or addition puts in the head is fresh.               *)
LEMMA HeadStaysFresh ==
    ASSUME TypeOK, HeadFresh, NEW S, S \subseteq Requests,
           S \cap (inProgress \cup recentlyHandled) = {},
           NEW s \in InOrder(S, requests),
           \/ queueHead' = queueHead \o s
           \/ queueHead' = Reversed(s) \o queueHead
    PROVE  InSeq(queueHead') \cap (inProgress \cup recentlyHandled) = {}
<1>1. /\ s \in Seq(Requests) /\ InSeq(s) \subseteq S
      /\ Reversed(s) \in Seq(Requests) /\ InSeq(Reversed(s)) \subseteq S
      /\ queueHead \in Seq(Requests)
  BY InOrderType, ReversedType DEF TypeOK, QueueTypeOK
<1>2. InSeq(queueHead') \subseteq InSeq(queueHead) \cup S
  BY <1>1, InSeqConcat
<1> QED
  BY <1>2 DEF HeadFresh

(* What the storage does to a request somebody writes.                     *)
LEMMA StoreGrows ==
    ASSUME StorageTypeOK, NEW rs \in SUBSET Requests, NEW h \in BOOLEAN,
           AddToStore(rs, h)
    PROVE  /\ Present' = Present \cup rs
           /\ handled \subseteq handled'
           /\ h => rs \ Present \subseteq handled'
           /\ handled' \subseteq handled \cup rs
           /\ ~h => handled' = handled
<1>1. PICK rank \in [(rs \ Present) -> (Cardinality(Present) + 1)
                        .. (Cardinality(Present) + Cardinality(rs \ Present))] :
        requests' = [r \in Requests |->
                        IF r \in rs \ Present THEN rank[r] ELSE requests[r]]
  BY DEF AddToStore
<1>2. Cardinality(Present) \in Nat
  BY RequestSets DEF Present
<1>3. \A r \in rs \ Present : rank[r] # 0
  BY <1>1, <1>2
<1>4. Present' = Present \cup rs
  BY <1>1, <1>3 DEF Present
<1> QED
  BY <1>4 DEF AddToStore

(* updateRequest of the storage changes no other request.                  *)
LEMMA StoreUpdates ==
    ASSUME StorageTypeOK, NEW r \in Requests, NEW h \in BOOLEAN, UpdateInStore(r, h)
    PROVE  /\ Present \subseteq Present'
           /\ handled' \ {r} = handled \ {r}
           /\ h => r \in handled'
<1>1. CASE r \notin Present
  <2> DEFINE rs == {r}
  <2>1. AddToStore(rs, h) /\ rs \in SUBSET Requests
    BY <1>1 DEF UpdateInStore
  <2> HIDE DEF rs
  <2>2. /\ Present' = Present \cup rs
        /\ handled \subseteq handled'
        /\ h => rs \ Present \subseteq handled'
        /\ handled' \subseteq handled \cup rs
    BY <2>1, StoreGrows
  <2> QED
    BY <1>1, <2>2 DEF rs
<1>2. CASE r \in Present
  BY <1>2 DEF UpdateInStore, Present
<1> QED
  BY <1>1, <1>2

(* The steps in which a worker takes, looks up, writes or gives up a       *)
(* request keep who owns what.                                             *)
LEMMA TakeHeadOwnership ==
    ASSUME TypeOK, HeadDistinct, Ownership, NEW w \in Workers, TakeHead(w)
    PROVE  Ownership'
<1> USE DEF TypeOK, ClientTypeOK, QueueTypeOK
<1>0. None \notin Requests
  BY QueueAssumption
<1>1. /\ recentlyHandled' = recentlyHandled /\ timers' = timers
      /\ UNCHANGED storageVars
      /\ queueHead' = IF queueHead = <<>> THEN <<>> ELSE Tail(queueHead)
  BY <1>0 DEF TakeHead
<1>2. InSeq(queueHead') \subseteq InSeq(queueHead)
  BY <1>1, HeadTailType
<1>3. Present' = Present /\ handled' = handled
  BY <1>1 DEF storageVars, Present
<1>4. CASE Finishes(w) /\ UNCHANGED inProgress
  <2>1. ClientsUndisturbed
    BY <1>4, FinishesUndisturbed
  <2>2. Undisturbed
    BY <1>1, <1>2, <1>3, <1>4 DEF Undisturbed, Ownership, HeadFresh
  <2> QED
    BY <1>0, <2>1, <2>2, UndisturbedOwnership
<1>5. CASE ~(Finishes(w) /\ UNCHANGED inProgress)
  <2> DEFINE h == Head(queueHead)
  <2>1. /\ queueHead # <<>>
        /\ h \notin inProgress \cup recentlyHandled
        /\ pc' = [pc EXCEPT ![w] = "getting"]
        /\ req' = [req EXCEPT ![w] = h]
        /\ call' = [call EXCEPT ![w] = NoCall]
        /\ inProgress' = inProgress \cup {h}
    BY <1>5 DEF TakeHead, StartsProgress
  <2>2. h \in Requests /\ h \notin InSeq(queueHead')
    <3>1. Distinct(queueHead)
      BY DEF HeadDistinct, Distinct
    <3> QED
      BY <1>1, <2>1, <3>1, HeadTailType, TailDistinct
  <2> HIDE DEF h
  <2>3. \A v \in Workers : req[v] # h
    BY <1>0, <2>1, <2>2 DEF Ownership, HeldInProgress
  <2>4. HeldInProgress' /\ HeldByOne'
    BY <2>1, <2>3 DEF Ownership, HeldInProgress, HeldByOne
  <2>5. \A k \in TimerKinds : ~(timers[<<h, k>>] > 0)
    BY <2>1, <2>2 DEF Ownership, TimerAlone
  <2>6. TimerAlone'
    BY <1>1, <2>1, <2>5 DEF Ownership, TimerAlone
  <2>7. RememberedDone'
    BY <1>1, <1>3, <2>1 DEF Ownership, RememberedDone
  <2>8. KnowledgeTrue'
    BY <1>1, <1>3, <2>1 DEF Ownership, KnowledgeTrue, Pending
  <2>9. HeadFresh'
    BY <1>1, <1>2, <2>1, <2>2 DEF Ownership, HeadFresh
  <2> QED
    BY <2>4, <2>6, <2>7, <2>8, <2>9 DEF Ownership
<1> QED
  BY <1>4, <1>5

(* getRequest answers.                                                     *)
LEMMA GetRequestOwnership ==
    ASSUME TypeOK, HoldersHold, Ownership, NEW w \in Workers, GetRequest(w)
    PROVE  Ownership'
<1> USE DEF TypeOK, ClientTypeOK
<1>1. PICK answer \in Found(req[w]) : Goes(w, "got", [NoCall EXCEPT !.found = answer])
  BY DEF GetRequest
<1>2. /\ pc' = [pc EXCEPT ![w] = "got"] /\ req' = req
      /\ call' = [call EXCEPT ![w] = [NoCall EXCEPT !.found = answer]]
  BY <1>1 DEF Goes
<1>3. call'[w].found = answer
  BY <1>2 DEF NoCall
<1>4. /\ answer = "handled" => req[w] \in handled
      /\ answer = "pending" => req[w] \in Pending
  BY DEF Found, Pending
<1>5. UNCHANGED <<storageVars, queueVars, timers>>
  BY DEF GetRequest
<1>6. Pending' = Pending
  BY <1>5 DEF storageVars, Pending, Present
<1>7. KnowledgeTrue'
  BY <1>2, <1>3, <1>4, <1>5, <1>6 DEF Ownership, KnowledgeTrue, storageVars
<1> QED
  BY <1>2, <1>5, <1>7 DEF Ownership, HeldInProgress, HeldByOne, TimerAlone,
     RememberedDone, HeadFresh, storageVars, queueVars

(* A worker hands its request over to a timer that keeps it in progress.   *)
LEMMA TimerSetOwnership ==
    ASSUME TypeOK, Ownership, NEW w \in Workers, req[w] \in Requests, Finishes(w),
           NEW kind \in TimerKinds,
           timers' = [timers EXCEPT ![<<req[w], kind>>] = @ + 1],
           UNCHANGED <<storageVars, queueHead, inProgress, recentlyHandled>>
    PROVE  Ownership'
<1> USE DEF TypeOK, ClientTypeOK, RestTypeOK
<1>0. None \notin Requests
  BY QueueAssumption
<1>1. /\ pc' = [pc EXCEPT ![w] = "idle"]
      /\ req' = [req EXCEPT ![w] = None]
      /\ call' = [call EXCEPT ![w] = NoCall]
  BY DEF Finishes
<1>2. \A v \in Workers \ {w} : req[v] # req[w]
  BY <1>0 DEF Ownership, HeldByOne
<1>3. /\ \A k \in TimerKinds : timers[<<req[w], k>>] = 0
      /\ req[w] \in inProgress /\ req[w] \notin recentlyHandled
  BY <1>0 DEF Ownership, TimerAlone, HeldInProgress, RememberedDone
<1>4. /\ timers'[<<req[w], kind>>] = 1
      /\ \A r \in Requests, k \in TimerKinds :
            r # req[w] \/ k # kind => timers'[<<r, k>>] = timers[<<r, k>>]
  BY <1>3
<1>5. HeldInProgress' /\ HeldByOne'
  BY <1>1, <1>2 DEF Ownership, HeldInProgress, HeldByOne
<1>6. TimerAlone'
  <2> SUFFICES ASSUME NEW r \in Requests, NEW k \in TimerKinds, timers'[<<r, k>>] > 0
               PROVE  /\ timers'[<<r, k>>] = 1
                      /\ \A j \in TimerKinds \ {k} : timers'[<<r, j>>] = 0
                      /\ r \in inProgress
                      /\ r \notin recentlyHandled
                      /\ \A v \in Workers : req'[v] # r
    BY DEF TimerAlone
  <2>1. CASE r = req[w]
    BY <1>0, <1>1, <1>2, <1>3, <1>4, <2>1
  <2>2. CASE r # req[w]
    <3>1. timers[<<r, k>>] > 0 /\ \A j \in TimerKinds : timers'[<<r, j>>] = timers[<<r, j>>]
      BY <1>4, <2>2
    <3> QED
      BY <1>0, <1>1, <3>1 DEF Ownership, TimerAlone
  <2> QED
    BY <2>1, <2>2
<1>7. RememberedDone' /\ KnowledgeTrue' /\ HeadFresh'
  BY <1>0, <1>1 DEF Ownership, RememberedDone, KnowledgeTrue, HeadFresh, storageVars,
     Pending, Present, QueueTypeOK
<1> QED
  BY <1>5, <1>6, <1>7 DEF Ownership

(* A worker is done with a request, which may be remembered as handled,    *)
(* then or at the same time as it leaves inProgress.                       *)
LEMMA DoneOwnership ==
    ASSUME TypeOK, Ownership, NEW w \in Workers, req[w] \in Requests, Finishes(w),
           UNCHANGED <<storageVars, queueHead, timers>>,
           inProgress' \in {inProgress, inProgress \ {req[w]}},
           \/ recentlyHandled' = recentlyHandled
           \/ req[w] \in handled /\ AddRecentlyHandled(req[w])
    PROVE  Ownership'
<1> USE DEF TypeOK, ClientTypeOK, QueueTypeOK
<1>0. None \notin Requests
  BY QueueAssumption
<1>1. /\ pc' = [pc EXCEPT ![w] = "idle"]
      /\ req' = [req EXCEPT ![w] = None]
      /\ call' = [call EXCEPT ![w] = NoCall]
  BY DEF Finishes
<1>2. \A v \in Workers \ {w} : req[v] # req[w]
  BY <1>0 DEF Ownership, HeldByOne
<1>3. \A v \in Workers : req'[v] # req[w] /\ (req'[v] = req[v] \/ req'[v] = None)
  BY <1>0, <1>1, <1>2
<1>4. recentlyHandled' \subseteq recentlyHandled \cup ({req[w]} \cap handled)
  BY DEF AddRecentlyHandled
<1>5. handled' = handled /\ timers' = timers /\ queueHead' = queueHead
      /\ Pending' = Pending
  BY DEF storageVars, Pending, Present
<1>6. HeldInProgress' /\ HeldByOne'
  BY <1>1, <1>3 DEF Ownership, HeldInProgress, HeldByOne
<1>7. \A k \in TimerKinds : ~(timers[<<req[w], k>>] > 0)
  BY <1>0 DEF Ownership, TimerAlone
<1>8. TimerAlone'
  BY <1>0, <1>3, <1>4, <1>5, <1>7 DEF Ownership, TimerAlone
<1>9. RememberedDone'
  BY <1>0, <1>3, <1>4, <1>5 DEF Ownership, RememberedDone
<1>10. KnowledgeTrue'
  BY <1>1, <1>5 DEF Ownership, KnowledgeTrue
<1>11. HeadFresh'
  <2>1. req[w] \in inProgress
    BY <1>0 DEF Ownership, HeldInProgress
  <2> QED
    BY <1>4, <1>5, <2>1 DEF Ownership, HeadFresh
<1> QED
  BY <1>6, <1>8, <1>9, <1>10, <1>11 DEF Ownership

(* fetchNextRequest goes on with the answer.                               *)
LEMMA RequestGotOwnership ==
    ASSUME TypeOK, HoldersHold, Ownership, NEW w \in Workers, RequestGot(w)
    PROVE  Ownership'
<1>1. req[w] \in Requests
  BY HolderHasRequest DEF RequestGot, Holding
<1>2. UNCHANGED <<storageVars, queueHead, inProgress>>
  BY DEF RequestGot
<1>3. CASE call[w].found = "missing"
  <2>1. /\ Finishes(w) /\ recentlyHandled' = recentlyHandled
        /\ timers' = [timers EXCEPT ![<<req[w], "missing">>] = @ + 1]
    BY <1>3 DEF RequestGot
  <2> QED
    BY <1>1, <1>2, <2>1, TimerSetOwnership DEF TimerKinds
<1>4. CASE call[w].found = "handled"
  <2>1. Finishes(w) /\ timers' = timers /\ AddRecentlyHandled(req[w])
    BY <1>4 DEF RequestGot
  <2>2. req[w] \in handled
    BY <1>4 DEF RequestGot, Ownership, KnowledgeTrue
  <2> QED
    BY <1>1, <1>2, <2>1, <2>2, DoneOwnership
<1>5. CASE call[w].found = "pending"
  <2>1. Goes(w, "holding", NoCall) /\ timers' = timers
        /\ recentlyHandled' = recentlyHandled
    BY <1>5 DEF RequestGot
  <2>2. ClientsUndisturbed
    BY <2>1, GoesUndisturbed DEF TypeOK, Places, Holding
  <2>3. Undisturbed
    BY <1>2, <2>1 DEF Undisturbed, storageVars, Present, Ownership, HeadFresh
  <2> QED
    BY <2>2, <2>3, UndisturbedOwnership, QueueAssumption
<1> QED
  BY <1>3, <1>4, <1>5 DEF RequestGot

(* markRequestHandled goes on after its updateRequest.                     *)
LEMMA RequestMarkedOwnership ==
    ASSUME TypeOK, HoldersHold, Ownership, NEW w \in Workers, RequestMarked(w)
    PROVE  Ownership'
<1>1. req[w] \in Requests
  BY HolderHasRequest DEF RequestMarked, Holding
<1>2. req[w] \in handled
  BY DEF RequestMarked, Ownership, KnowledgeTrue
<1>3. /\ Finishes(w) /\ AddRecentlyHandled(req[w])
      /\ inProgress' = inProgress \ {req[w]}
      /\ UNCHANGED <<storageVars, queueHead, timers>>
  BY DEF RequestMarked, EndsProgress
<1> QED
  BY <1>1, <1>2, <1>3, DoneOwnership

(* reclaimRequest goes on after its updateRequest.                         *)
LEMMA RequestReclaimedOwnership ==
    ASSUME TypeOK, HoldersHold, Ownership, NEW w \in Workers, RequestReclaimed(w)
    PROVE  Ownership'
<1>1. req[w] \in Requests
  BY HolderHasRequest DEF RequestReclaimed, Holding
<1>2. PICK kind \in TimerKinds : timers' = [timers EXCEPT ![<<req[w], kind>>] = @ + 1]
  BY DEF RequestReclaimed, TimerKinds
<1>3. Finishes(w) /\ UNCHANGED <<storageVars, queueHead, inProgress, recentlyHandled>>
  BY DEF RequestReclaimed
<1> QED
  BY <1>1, <1>2, <1>3, TimerSetOwnership

(* The write of a holder touches nobody else's request.                    *)
LEMMA UpdateRequestOwnership ==
    ASSUME TypeOK, HoldersHold, Ownership, NEW w \in Workers, UpdateRequest(w)
    PROVE  Ownership'
<1> USE DEF TypeOK, ClientTypeOK, QueueTypeOK
<1>0. None \notin Requests
  BY QueueAssumption
<1>1. req[w] \in Requests
  BY HolderHasRequest DEF UpdateRequest, Holding
<1>2. PICK c : Goes(w, IF pc[w] = "marking" THEN "marked" ELSE "reclaimed", c)
  BY DEF UpdateRequest
<1>3. /\ UpdateInStore(req[w], TRUE) \/ UpdateInStore(req[w], FALSE)
      /\ pc[w] = "marking" => UpdateInStore(req[w], TRUE)
      /\ UNCHANGED <<queueVars, timers>>
  BY DEF UpdateRequest
<1>4. /\ Present \subseteq Present'
      /\ handled' \ {req[w]} = handled \ {req[w]}
      /\ pc[w] = "marking" => req[w] \in handled'
  BY <1>1, <1>3, StoreUpdates
<1>5. /\ req' = req
      /\ pc'[w] = "marked" => pc[w] = "marking"
      /\ pc'[w] \in {"marked", "reclaimed"}
      /\ \A v \in Workers \ {w} : pc'[v] = pc[v] /\ call'[v] = call[v]
  BY <1>2 DEF Goes
<1>6. \A v \in Workers \ {w} : req[v] # req[w]
  BY <1>0, <1>1 DEF Ownership, HeldByOne
<1>7. req[w] \notin recentlyHandled
  BY DEF Ownership, RememberedDone
<1>8. HeldInProgress' /\ HeldByOne' /\ TimerAlone' /\ HeadFresh'
  BY <1>3, <1>5 DEF Ownership, HeldInProgress, HeldByOne, TimerAlone, HeadFresh, queueVars
<1>9. RememberedDone'
  BY <1>3, <1>4, <1>5, <1>7 DEF Ownership, RememberedDone, queueVars
<1>10. KnowledgeTrue'
  <2>1. ASSUME NEW v \in Workers, v # w
        PROVE  /\ req[v] \in handled => req[v] \in handled'
               /\ req[v] \in Pending => req[v] \in Pending'
    BY <1>4, <1>6, <2>1 DEF Pending
  <2> QED
    BY <1>4, <1>5, <2>1 DEF Ownership, KnowledgeTrue
<1> QED
  BY <1>8, <1>9, <1>10 DEF Ownership

(* A timer that fires ends the progress of a request nobody has.           *)
LEMMA TimerFiresOwnership ==
    ASSUME TypeOK, Ownership, NEW r \in Requests, NEW kind \in TimerKinds,
           TimerFires(r, kind)
    PROVE  Ownership'
<1> USE DEF TypeOK, ClientTypeOK, QueueTypeOK
<1>0. None \notin Requests
  BY QueueAssumption
<1>1. /\ timers[<<r, kind>>] > 0
      /\ timers' = [timers EXCEPT ![<<r, kind>>] = @ - 1]
      /\ inProgress' = inProgress \ {r}
      /\ UNCHANGED <<storageVars, clientVars, recentlyHandled>>
  BY DEF TimerFires, Due, EndsProgress
<1>2. \/ queueHead' = queueHead
      \/ queueHead' = <<r>> \o queueHead
      \/ queueHead' = queueHead \o <<r>>
  BY DEF TimerFires
<1>3. /\ timers[<<r, kind>>] = 1
      /\ \A j \in TimerKinds \ {kind} : timers[<<r, j>>] = 0
      /\ r \notin recentlyHandled
      /\ \A w \in Workers : req[w] # r
  BY <1>1 DEF Ownership, TimerAlone
<1>4. /\ \A k \in TimerKinds : timers'[<<r, k>>] = 0
      /\ \A s \in Requests, k \in TimerKinds :
            s # r => timers'[<<s, k>>] = timers[<<s, k>>]
  BY <1>1, <1>3 DEF RestTypeOK
<1>5. HeldInProgress' /\ HeldByOne'
  BY <1>1, <1>3 DEF Ownership, HeldInProgress, HeldByOne, clientVars
<1>6. TimerAlone'
  <2> SUFFICES ASSUME NEW s \in Requests, NEW k \in TimerKinds, timers'[<<s, k>>] > 0
               PROVE  /\ timers'[<<s, k>>] = 1
                      /\ \A j \in TimerKinds \ {k} : timers'[<<s, j>>] = 0
                      /\ s \in inProgress'
                      /\ s \notin recentlyHandled'
                      /\ \A w \in Workers : req'[w] # s
    BY DEF TimerAlone
  <2>1. s # r
    BY <1>4
  <2>2. timers[<<s, k>>] > 0 /\ \A j \in TimerKinds : timers'[<<s, j>>] = timers[<<s, j>>]
    BY <1>4, <2>1
  <2> QED
    BY <1>1, <2>1, <2>2 DEF Ownership, TimerAlone, clientVars
<1>7. RememberedDone' /\ KnowledgeTrue'
  BY <1>1 DEF Ownership, RememberedDone, KnowledgeTrue, clientVars, storageVars, Pending,
     Present
<1>8. HeadFresh'
  <2>1. <<r>> \in Seq(Requests) /\ InSeq(<<r>>) = {r}
    BY DEF InSeq
  <2>2. InSeq(queueHead') \subseteq InSeq(queueHead) \cup {r}
    BY <1>2, <2>1, InSeqConcat
  <2> QED
    BY <1>1, <1>3, <2>2 DEF Ownership, HeadFresh
<1> QED
  BY <1>5, <1>6, <1>7, <1>8 DEF Ownership

(* Every step that follows an answer keeps the ownership invariant.        *)
LEMMA ResumesOwnership ==
    ASSUME TypeOK, HoldersHold, HeadDistinct, Ownership, NEW w \in Workers, Resumes(w)
    PROVE  Ownership'
<1> USE DEF TypeOK
<1>1. CASE StoreRequests(w)
  <2>1. PICK stored \in SUBSET call[w].batch :
          AddToStore(stored, FALSE) /\ \E c : Goes(w, "added", c)
    BY <1>1 DEF StoreRequests
  <2>2. stored \in SUBSET Requests
    BY <2>1 DEF ClientTypeOK, CallType
  <2>3. Present' = Present \cup stored /\ handled' = handled
    BY <2>1, <2>2, StoreGrows
  <2>4. ClientsUndisturbed
    BY <2>1, GoesUndisturbed DEF Places
  <2>5. Undisturbed
    BY <1>1, <2>3 DEF StoreRequests, Undisturbed, queueVars, Ownership, HeadFresh
  <2> QED
    BY <2>4, <2>5, UndisturbedOwnership, QueueAssumption
<1>2. CASE RequestsAdded(w)
  <2> DEFINE new == call[w].fresh \ (inProgress \cup recentlyHandled)
             joins == ToHead(new, call[w].front)
  <2>1. PICK s \in InOrder(joins, requests) :
          queueHead' = IF call[w].front THEN Reversed(s) \o queueHead ELSE queueHead \o s
    BY <1>2 DEF RequestsAdded
  <2>2. /\ joins \subseteq Requests
        /\ joins \cap (inProgress \cup recentlyHandled) = {}
    BY DEF ToHead, ClientTypeOK, CallType
  <2> HIDE DEF joins
  <2>3. InSeq(queueHead') \cap (inProgress \cup recentlyHandled) = {}
    BY <2>1, <2>2, HeadStaysFresh DEF Ownership
  <2>4. Finishes(w)
        /\ UNCHANGED <<storageVars, inProgress, recentlyHandled, timers>>
    BY <1>2 DEF RequestsAdded
  <2>5. ClientsUndisturbed
    BY <2>4, FinishesUndisturbed
  <2>6. Undisturbed
    BY <2>3, <2>4 DEF Undisturbed, storageVars, Present
  <2> QED
    BY <2>5, <2>6, UndisturbedOwnership, QueueAssumption
<1>3. CASE Queried(w) \/ WakeUp(w) \/ Answer(w)
  <2>1. /\ UNCHANGED <<storageVars, queueVars, timers>>
        /\ \/ Finishes(w)
           \/ \E c : Goes(w, "ensured", c) \/ Goes(w, "sleeping", c)
           \/ \E c : EnsureHead(w, c)
    BY <1>3 DEF Queried, WakeUp, Answer
  <2>2. ClientsUndisturbed
    BY <2>1, FinishesUndisturbed, GoesUndisturbed, EnsureHeadUndisturbed DEF Places
  <2>3. Undisturbed
    BY <2>1 DEF Undisturbed, storageVars, queueVars, Present, Ownership, HeadFresh
  <2> QED
    BY <2>2, <2>3, UndisturbedOwnership, QueueAssumption
<1>4. CASE TakeHead(w) \/ GetRequest(w) \/ RequestGot(w)
  BY <1>4, TakeHeadOwnership, GetRequestOwnership, RequestGotOwnership
<1>5. CASE UpdateRequest(w) \/ RequestMarked(w) \/ RequestReclaimed(w)
  BY <1>5, UpdateRequestOwnership, RequestMarkedOwnership, RequestReclaimedOwnership
<1> QED
  BY <1>1, <1>2, <1>3, <1>4, <1>5 DEF Resumes

(* Timers, resets and other clients keep the ownership invariant.          *)
LEMMA EnvironmentOwnership ==
    ASSUME TypeOK, HoldersHold, Ownership,
           \/ \E q \in QueryIds : ListHead(q) \/ HeadListed(q)
           \/ \E r \in Requests, kind \in TimerKinds : TimerFires(r, kind)
           \/ GoesWrong
           \/ OtherClientActs
           \/ StorageSettles
    PROVE  Ownership'
<1> USE DEF TypeOK
<1>1. ASSUME NEW q \in QueryIds, ListHead(q)
      PROVE  Ownership'
  <2>1. UNCHANGED <<storageVars, clientVars, queueVars, timers>>
    BY <1>1 DEF ListHead
  <2>2. ClientsUndisturbed /\ Undisturbed
    BY <2>1 DEF ClientsUndisturbed, Undisturbed, clientVars, storageVars, queueVars,
       Present, Ownership, HeadFresh
  <2> QED
    BY <2>2, UndisturbedOwnership, QueueAssumption
<1>2. ASSUME NEW q \in QueryIds, HeadListed(q)
      PROVE  Ownership'
  <2> DEFINE joins == Usable(queries[q].items) \ InSeq(queueHead)
  <2>1. PICK s \in InOrder(joins, requests) : queueHead' = queueHead \o s
    BY <1>2 DEF HeadListed
  <2>2. /\ joins \subseteq Requests
        /\ joins \cap (inProgress \cup recentlyHandled) = {}
    BY DEF Usable, QueryTypeOK, QueryType
  <2> HIDE DEF joins
  <2>3. InSeq(queueHead') \cap (inProgress \cup recentlyHandled) = {}
    BY <2>1, <2>2, HeadStaysFresh DEF Ownership
  <2>4. /\ req' = req
        /\ UNCHANGED <<storageVars, inProgress, recentlyHandled, timers>>
        /\ \A w \in Workers : \/ pc'[w] = "queried"
                              \/ pc'[w] = pc[w] /\ call'[w] = call[w]
    BY <1>2 DEF HeadListed
  <2>5. ClientsUndisturbed
    BY <2>4 DEF ClientsUndisturbed
  <2>6. Undisturbed
    BY <2>3, <2>4 DEF Undisturbed, storageVars, Present
  <2> QED
    BY <2>5, <2>6, UndisturbedOwnership, QueueAssumption
<1>3. ASSUME NEW q \in QueryIds, QueryFails(q)
      PROVE  Ownership'
  <2>1. /\ req' = req
        /\ UNCHANGED <<storageVars, queueVars, timers>>
        /\ \A w \in Workers : \/ pc'[w] = "idle"
                              \/ pc'[w] = pc[w] /\ call'[w] = call[w]
    BY <1>3 DEF QueryFails
  <2>2. ClientsUndisturbed
    BY <2>1 DEF ClientsUndisturbed
  <2>3. Undisturbed
    BY <2>1 DEF Undisturbed, storageVars, queueVars, Present, Ownership, HeadFresh
  <2> QED
    BY <2>2, <2>3, UndisturbedOwnership, QueueAssumption
<1>4. ASSUME NEW w \in Workers, AddFails(w) \/ UpdateFails(w) \/ Abandon(w)
      PROVE  Ownership'
  <2>1. /\ UNCHANGED <<storageVars, queueVars, timers>>
        /\ Finishes(w) \/ Goes(w, "holding", NoCall)
    BY <1>4 DEF AddFails, UpdateFails, Abandon
  <2>2. ClientsUndisturbed
    BY <2>1, FinishesUndisturbed, GoesUndisturbed DEF Places, Holding
  <2>3. Undisturbed
    BY <2>1 DEF Undisturbed, storageVars, queueVars, Present, Ownership, HeadFresh
  <2> QED
    BY <2>2, <2>3, UndisturbedOwnership, QueueAssumption
<1>5. ASSUME NEW w \in Workers, GetFails(w)
      PROVE  Ownership'
  <2>1. req[w] \in Requests
    BY <1>5, HolderHasRequest DEF GetFails, Holding
  <2>2. /\ Finishes(w) /\ recentlyHandled' = recentlyHandled
        /\ inProgress' = inProgress \ {req[w]}
        /\ UNCHANGED <<storageVars, queueHead, timers>>
    BY <1>5 DEF GetFails, EndsProgress
  <2> QED
    BY <2>1, <2>2, DoneOwnership
<1>6. CASE OtherClientActs
  <2>1. UNCHANGED <<clientVars, queueVars, timers>> /\ OtherClients
    BY <1>6 DEF OtherClientActs
  <2>2. Present \subseteq Present' /\ handled \subseteq handled'
    <3>1. ASSUME NEW r \in Requests \ Present, AddToStore({r}, FALSE)
          PROVE  Present \subseteq Present' /\ handled \subseteq handled'
      <4> DEFINE rs == {r}
      <4>1. AddToStore(rs, FALSE) /\ rs \in SUBSET Requests
        BY <3>1
      <4> HIDE DEF rs
      <4> QED
        BY <4>1, StoreGrows
    <3>2. ASSUME NEW r \in Pending, UpdateInStore(r, TRUE)
          PROVE  Present \subseteq Present' /\ handled \subseteq handled'
      <4>1. r \in Requests
        BY DEF Pending, Present
      <4>2. Present \subseteq Present' /\ handled' \ {r} = handled \ {r} /\ r \in handled'
        BY <3>2, <4>1, StoreUpdates
      <4> QED
        BY <4>2
    <3> QED
      BY <1>6, <3>1, <3>2 DEF OtherClientActs
  <2>3. ClientsUndisturbed /\ Undisturbed
    BY <2>1, <2>2 DEF ClientsUndisturbed, Undisturbed, clientVars, queueVars, Ownership,
       HeadFresh
  <2> QED
    BY <2>3, UndisturbedOwnership, QueueAssumption
<1>7. CASE StorageSettles
  <2>1. UNCHANGED <<requests, handled, clientVars, queueVars, timers>>
    BY <1>7 DEF StorageSettles, GoesQuiet, Settle
  <2>2. ClientsUndisturbed /\ Undisturbed
    BY <2>1 DEF ClientsUndisturbed, Undisturbed, clientVars, queueVars, Present,
       Ownership, HeadFresh
  <2> QED
    BY <2>2, UndisturbedOwnership, QueueAssumption
<1> QED
  BY <1>1, <1>2, <1>3, <1>4, <1>5, <1>6, <1>7, TimerFiresOwnership DEF GoesWrong

(* Only a reset counts as one.                                             *)
LEMMA ResetsStep ==
    ASSUME [Next]_vars
    PROVE  resets' = resets \/ (resets < MaxResets /\ resets' = resets + 1)
<1>1. ASSUME NEW w \in Workers, Calls(w) \/ Resumes(w)
      PROVE  resets' = resets \/ (resets < MaxResets /\ resets' = resets + 1)
  <2>1. CASE ResetStuckQueue(w)
    BY <2>1 DEF ResetStuckQueue
  <2>2. CASE Calls(w) /\ ~ResetStuckQueue(w)
    <3>1. UNCHANGED boundVars
      BY <2>2 DEF Calls, AddRequests, FetchNextRequest, IsEmpty, AskForHead, IsFinished,
         MarkRequestHandled, ReclaimRequest, BeginUpdate
    <3> QED
      BY <3>1 DEF boundVars
  <2>3. CASE Resumes(w)
    <3>1. UNCHANGED boundVars
      BY <2>3 DEF Resumes, StoreRequests, RequestsAdded, Queried, WakeUp, Answer,
         TakeHead, GetRequest, RequestGot, UpdateRequest, RequestMarked, RequestReclaimed
    <3> QED
      BY <3>1 DEF boundVars
  <2> QED
    BY <1>1, <2>1, <2>2, <2>3
<1>2. CASE GoesWrong
  BY <1>2 DEF GoesWrong, AddFails, GetFails, UpdateFails, Abandon, QueryFails, Fails
<1>3. CASE \E q \in QueryIds : ListHead(q) \/ HeadListed(q)
  BY <1>3 DEF ListHead, HeadListed, boundVars
<1>4. CASE \E r \in Requests, kind \in TimerKinds : TimerFires(r, kind)
  BY <1>4 DEF TimerFires, boundVars
<1>5. CASE OtherClientActs \/ StorageSettles \/ UNCHANGED vars
  BY <1>5 DEF OtherClientActs, StorageSettles, vars, boundVars
<1> QED
  BY <1>1, <1>2, <1>3, <1>4, <1>5 DEF Next

(* As long as no reset takes a request from a worker that still has it,    *)
(* every step keeps who owns what.                                         *)
LEMMA OwnershipStep ==
    ASSUME TypeOK, HoldersHold, HeadDistinct, Calm => Ownership, [Next]_vars
    PROVE  Calm' => Ownership'
<1> SUFFICES ASSUME Calm' PROVE Ownership'
  OBVIOUS
<1>0. resets \in Nat
  BY DEF TypeOK, RestTypeOK
<1>1. resets' = resets \/ resets' = resets + 1
  BY ResetsStep
<1>2. Ownership
  BY <1>0, <1>1 DEF Calm
<1>3. CASE \E w \in Workers : Calls(w) \/ Resumes(w)
  BY <1>2, <1>3, CallsOwnership, ResumesOwnership
<1>4. CASE UNCHANGED vars
  <2>1. ClientsUndisturbed /\ Undisturbed
    BY <1>2, <1>4 DEF ClientsUndisturbed, Undisturbed, vars, clientVars, queueVars,
       storageVars, Present, Ownership, HeadFresh
  <2> QED
    BY <1>2, <2>1, UndisturbedOwnership, QueueAssumption
<1> QED
  BY <1>2, <1>3, <1>4, EnvironmentOwnership DEF Next

(* In every reachable state the head lists no request twice, and each      *)
(* request in progress has at most one owner, a worker or a timer.         *)
THEOREM OwnersKept == Spec => []QueueInv
<1>1. QueueInit => QueueInv
  <2> SUFFICES ASSUME QueueInit PROVE QueueInv
    OBVIOUS
  <2>1. TypeOK
    BY QueueInitType
  <2>2. HoldersHold /\ HeadDistinct
    BY DEF QueueInit, HoldersHold, Holding, HeadDistinct
  <2>3. /\ \A w \in Workers : req[w] = None /\ pc[w] = "idle"
        /\ \A r \in Requests, k \in TimerKinds : timers[<<r, k>>] = 0
        /\ inProgress = {} /\ recentlyHandled = {}
    BY DEF QueueInit
  <2>4. Ownership
    BY <2>3 DEF Ownership, HeldInProgress, HeldByOne, TimerAlone, RememberedDone,
       KnowledgeTrue, HeadFresh
  <2> QED
    BY <2>2, <2>4 DEF QueueInv
<1>2. TypeOK /\ QueueInv /\ [Next]_vars => QueueInv'
  BY HoldersHoldStep, HeadDistinctStep, OwnershipStep DEF QueueInv
<1> QED
  BY <1>1, <1>2, TypeCorrect, PTL DEF Spec

(* Two workers never fetch or process the same request at the same time.   *)
THEOREM MutualExclusionHolds == Spec => []MutualExclusion
<1>1. QueueInv => MutualExclusion
  BY DEF QueueInv, MutualExclusion, Ownership
<1> QED
  BY <1>1, OwnersKept, PTL

(* The head never offers a request in progress or handled recently.        *)
THEOREM HeadIsFreshHolds == Spec => []HeadIsFresh
<1>1. QueueInv => HeadIsFresh
  BY DEF QueueInv, HeadIsFresh, Ownership
<1> QED
  BY <1>1, OwnersKept, PTL

(* A request the client ignores as recently handled is handled in the      *)
(* storage.                                                                *)
THEOREM NoPendingForgottenHolds == Spec => []NoPendingForgotten
<1>1. QueueInv => NoPendingForgotten
  BY DEF QueueInv, NoPendingForgotten, Ownership, RememberedDone
<1> QED
  BY <1>1, OwnersKept, PTL

(* A request that fetchNextRequest returns is still pending then.          *)
THEOREM NeverReturnsHandledHolds == Spec => []NeverReturnsHandled
<1>1. QueueInv => NeverReturnsHandled
  BY DEF QueueInv, NeverReturnsHandled, Ownership, KnowledgeTrue
<1> QED
  BY <1>1, OwnersKept, PTL

-----------------------------------------------------------------------------
(* The queue implements the leases of RequestLease, for any number of      *)
(* requests, workers, failures and other clients, as long as holders are   *)
(* timely or a stuck queue is never reset.                                 *)

(* Only what is in the Map is handled.                                     *)
HandledPresent == handled \subseteq Present

(* Handled requests are present in the storage a run starts with.          *)
LEMMA HandledPresentInit == StorageInit => HandledPresent
BY StorageAssumption DEF StorageInit, HandledPresent, Present

(* Handled requests stay present when requests are added.                  *)
LEMMA AddedPresent ==
    ASSUME StorageTypeOK, HandledPresent, NEW rs \in SUBSET Requests, NEW h \in BOOLEAN,
           AddToStore(rs, h)
    PROVE  HandledPresent'
<1>1. Present' = Present \cup rs /\ handled' \subseteq handled \cup rs
  BY StoreGrows
<1> QED
  BY <1>1 DEF HandledPresent

(* So they do when one is updated.                                         *)
LEMMA UpdatedPresent ==
    ASSUME StorageTypeOK, HandledPresent, NEW r \in Requests, NEW h \in BOOLEAN,
           UpdateInStore(r, h)
    PROVE  HandledPresent' /\ Present' = Present \cup {r}
<1>1. CASE r \notin Present
  <2> DEFINE rs == {r}
  <2>1. AddToStore(rs, h) /\ rs \in SUBSET Requests
    BY <1>1 DEF UpdateInStore
  <2> HIDE DEF rs
  <2>2. HandledPresent' /\ Present' = Present \cup rs
    BY <2>1, AddedPresent, StoreGrows
  <2> QED
    BY <2>2 DEF rs
<1>2. CASE r \in Present
  BY <1>2 DEF UpdateInStore, Present, HandledPresent
<1> QED
  BY <1>1, <1>2

(* The steps that write to the storage.                                    *)
LEMMA StorageSteps ==
    ASSUME TypeOK, HoldersHold, [Next]_vars
    PROVE  \/ requests' = requests /\ handled' = handled
           \/ \E w \in Workers : StoreRequests(w) \/ UpdateRequest(w)
           \/ OtherClientActs
<1>1. ASSUME NEW w \in Workers, Calls(w) \/ Resumes(w),
             ~StoreRequests(w), ~UpdateRequest(w)
      PROVE  requests' = requests /\ handled' = handled
  BY <1>1 DEF Calls, Resumes, AddRequests, FetchNextRequest, IsEmpty, AskForHead,
       IsFinished, ResetStuckQueue, MarkRequestHandled, ReclaimRequest, BeginUpdate,
       RequestsAdded, Queried, WakeUp, Answer, TakeHead, GetRequest,
       RequestGot, RequestMarked, RequestReclaimed, storageVars
<1>2. CASE GoesWrong
  BY <1>2 DEF GoesWrong, AddFails, GetFails, UpdateFails, Abandon, QueryFails, storageVars
<1>3. CASE \E q \in QueryIds : ListHead(q) \/ HeadListed(q)
  BY <1>3 DEF ListHead, HeadListed, storageVars
<1>4. CASE \E r \in Requests, kind \in TimerKinds : TimerFires(r, kind)
  BY <1>4 DEF TimerFires, storageVars
<1>5. CASE StorageSettles \/ UNCHANGED vars
  BY <1>5 DEF StorageSettles, GoesQuiet, Settle, vars, storageVars
<1> QED
  BY <1>1, <1>2, <1>3, <1>4, <1>5 DEF Next

(* The statuses stay as they are, and the given lease changes.             *)
LEMMA StatusKept ==
    ASSUME requests' = requests, handled' = handled
    PROVE  leaseStatus' = leaseStatus
BY DEF leaseStatus, Present

(* Workers that hold what they held keep the leases.                       *)
LEMMA LeasesKept ==
    ASSUME \A w \in Workers : /\ Leased(w)' <=> Leased(w)
                              /\ Leased(w) => req'[w] = req[w]
    PROVE  leases' = leases
BY DEF leases

(* A worker that finishes releases its lease, if it has one.               *)
LEMMA FinishReleases ==
    ASSUME TypeOK, HoldersHold, NEW w \in Workers, Finishes(w),
           requests' = requests, handled' = handled
    PROVE  Lease!Release(w) \/ UNCHANGED Lease!leaseVars
<1> USE DEF TypeOK, ClientTypeOK
<1>0. None \notin Requests
  BY QueueAssumption
<1>1. /\ pc' = [pc EXCEPT ![w] = "idle"]
      /\ req' = [req EXCEPT ![w] = None]
      /\ call' = [call EXCEPT ![w] = NoCall]
  BY DEF Finishes
<1>2. leases' = [leases EXCEPT ![w] = None]
  BY <1>1 DEF leases, Leased, Holding
<1>3. leaseStatus' = leaseStatus
  BY StatusKept
<1>4. CASE leases[w] # None
  BY <1>2, <1>3, <1>4 DEF Lease!Release
<1>5. CASE leases[w] = None
  <2>1. leases' = leases
    BY <1>2, <1>5 DEF leases
  <2> QED
    BY <1>3, <2>1 DEF Lease!leaseVars
<1> QED
  BY <1>4, <1>5

(* A worker that goes on keeps its lease, unless it is looking a request   *)
(* up.                                                                     *)
LEMMA GoesKeepsLease ==
    ASSUME TypeOK, NEW w \in Workers, NEW c, NEW place \in Places, Goes(w, place, c),
           place # "got",
           place \in Holding \ {"getting", "got"} <=> Leased(w),
           requests' = requests, handled' = handled
    PROVE  UNCHANGED Lease!leaseVars
<1>1. /\ pc' = [pc EXCEPT ![w] = place]
      /\ call' = [call EXCEPT ![w] = c]
      /\ req' = req
  BY DEF Goes
<1>2. leases' = leases
  BY <1>1, LeasesKept DEF TypeOK, ClientTypeOK, Leased
<1> QED
  BY <1>2, StatusKept DEF Lease!leaseVars

(* _ensureHeadIsNonEmpty touches no lease.                                 *)
LEMMA EnsureHeadKeepsLease ==
    ASSUME TypeOK, HoldersHold, NEW w \in Workers, NEW c, EnsureHead(w, c),
           pc[w] \notin Holding, requests' = requests, handled' = handled
    PROVE  Lease!Release(w) \/ UNCHANGED Lease!leaseVars
<1>1. ~Leased(w)
  BY DEF Leased, Holding
<1>2. \/ Finishes(w)
      \/ \E d : Goes(w, "ensured", d)
      \/ \E d : Goes(w, "waiting", d)
  BY DEF EnsureHead, StartQuery
<1> QED
  BY <1>1, <1>2, FinishReleases, GoesKeepsLease DEF Places, Holding

(* What one worker does to the leases.                                     *)
LeaseStep(w) ==
    \/ \E rs \in SUBSET Requests : Lease!Enqueue(rs)
    \/ \E r \in Requests : Lease!Acquire(w, r)
    \/ \E s \in {"pending", "handled"} : Lease!Write(w, s)
    \/ Lease!Release(w)
    \/ UNCHANGED Lease!leaseVars

(* The first step of each operation.                                       *)
LEMMA CallsLease ==
    ASSUME TypeOK, HoldersHold, NEW w \in Workers, Calls(w)
    PROVE  LeaseStep(w)
<1>1. requests' = requests /\ handled' = handled
  BY DEF Calls, AddRequests, FetchNextRequest, IsEmpty, AskForHead, IsFinished,
     ResetStuckQueue, MarkRequestHandled, ReclaimRequest, BeginUpdate, storageVars
<1>2. CASE \/ \E rs \in SUBSET Requests, f \in BOOLEAN : AddRequests(w, rs, f)
           \/ ResetStuckQueue(w)
  <2>1. /\ pc[w] = "idle"
        /\ \/ \E c : Goes(w, "adding", c)
           \/ \E c : Goes(w, "waiting", c)
    BY <1>2 DEF AddRequests, ResetStuckQueue, StartQuery
  <2>2. ~Leased(w)
    BY <2>1 DEF Leased, Holding
  <2> QED
    BY <1>1, <2>1, <2>2, GoesKeepsLease DEF Places, Holding, LeaseStep
<1>3. CASE FetchNextRequest(w) \/ IsEmpty(w) \/ IsFinished(w)
  <2>1. pc[w] = "idle" /\ \E c : EnsureHead(w, c)
    BY <1>3 DEF FetchNextRequest, IsEmpty, AskForHead, IsFinished
  <2> QED
    BY <1>1, <2>1, EnsureHeadKeepsLease DEF LeaseStep, Holding
<1>4. CASE MarkRequestHandled(w) \/ \E f \in BOOLEAN : ReclaimRequest(w, f)
  <2>1. /\ pc[w] = "holding"
        /\ \/ \E c : Goes(w, "marking", c)
           \/ \E c : Goes(w, "reclaiming", c)
           \/ Finishes(w)
    BY <1>4 DEF MarkRequestHandled, ReclaimRequest, BeginUpdate
  <2>2. Leased(w)
    BY <2>1 DEF Leased, Holding
  <2> QED
    BY <1>1, <2>1, <2>2, GoesKeepsLease, FinishReleases DEF Places, Holding, LeaseStep
<1> QED
  BY <1>2, <1>3, <1>4 DEF Calls

(* A request that is returned was pending, and free, since its holder took *)
(* it from the head.                                                       *)
LEMMA GetRequestLease ==
    ASSUME TypeOK, HoldersHold, Ownership, NEW w \in Workers, GetRequest(w)
    PROVE  LeaseStep(w)
<1> USE DEF TypeOK, ClientTypeOK
<1>0. None \notin Requests
  BY QueueAssumption
<1>1. PICK answer \in Found(req[w]) : Goes(w, "got", [NoCall EXCEPT !.found = answer])
  BY DEF GetRequest
<1>2. /\ pc' = [pc EXCEPT ![w] = "got"] /\ req' = req
      /\ call' = [call EXCEPT ![w] = [NoCall EXCEPT !.found = answer]]
      /\ pc[w] = "getting"
  BY <1>1 DEF Goes, GetRequest
<1>3. requests' = requests /\ handled' = handled
  BY DEF GetRequest, storageVars
<1>4. call'[w].found = answer
  BY <1>2 DEF NoCall
<1>5. /\ ~Leased(w)
      /\ Leased(w)' <=> answer = "pending"
      /\ \A v \in Workers \ {w} : Leased(v)' <=> Leased(v)
  BY <1>2, <1>4 DEF Leased, Holding
<1>6. CASE answer # "pending"
  <2>1. leases' = leases
    BY <1>2, <1>5, <1>6, LeasesKept
  <2> QED
    BY <1>3, <2>1, StatusKept DEF Lease!leaseVars, LeaseStep
<1>7. CASE answer = "pending"
  <2>1. req[w] \in Requests
    BY <1>2, HolderHasRequest DEF Holding
  <2>2. req[w] \in Present \ handled
    BY <1>7 DEF Found
  <2>3. leaseStatus[req[w]] = "pending"
    BY <2>1, <2>2 DEF leaseStatus
  <2>4. leases[w] = None
    BY <1>5 DEF leases
  <2>5. \A v \in Workers : leases[v] # req[w]
    BY <1>0, <1>5, <2>1 DEF leases, Ownership, HeldByOne
  <2>6. leases' = [leases EXCEPT ![w] = req[w]]
    BY <1>2, <1>5, <1>7 DEF leases
  <2>7. Lease!Acquire(w, req[w])
    BY <1>3, <2>3, <2>4, <2>5, <2>6, StatusKept DEF Lease!Acquire, Lease!Free
  <2> QED
    BY <2>1, <2>7 DEF LeaseStep
<1> QED
  BY <1>6, <1>7

(* A worker writes to the storage what it adds, and what it holds.         *)
LEMMA StoreRequestsLease ==
    ASSUME TypeOK, HoldersHold, HandledPresent, NEW w \in Workers, StoreRequests(w)
    PROVE  LeaseStep(w)
<1> USE DEF TypeOK, ClientTypeOK
<1>1. PICK stored \in SUBSET call[w].batch :
        AddToStore(stored, FALSE) /\ \E c : Goes(w, "added", c)
  BY DEF StoreRequests
<1>2. stored \in SUBSET Requests
  BY <1>1 DEF CallType
<1>3. Present' = Present \cup stored /\ handled' = handled
  BY <1>1, <1>2, StoreGrows
<1>4. /\ pc[w] = "adding" /\ req' = req
      /\ \E c : pc' = [pc EXCEPT ![w] = "added"] /\ call' = [call EXCEPT ![w] = c]
  BY <1>1 DEF StoreRequests, Goes
<1>5. leases' = leases
  BY <1>4, LeasesKept DEF Leased, Holding
<1> DEFINE new == stored \ Present
<1>6. leaseStatus' = [r \in Requests |-> IF r \in new THEN "pending" ELSE leaseStatus[r]]
  BY <1>3 DEF leaseStatus, HandledPresent
<1>7. \A r \in new : leaseStatus[r] = "absent"
  BY <1>2 DEF leaseStatus
<1>8. Lease!Enqueue(new)
  BY <1>5, <1>6, <1>7 DEF Lease!Enqueue
<1> QED
  BY <1>2, <1>8 DEF LeaseStep

(* updateRequest, from markRequestHandled and reclaimRequest.              *)
LEMMA UpdateRequestLease ==
    ASSUME TypeOK, HoldersHold, HandledPresent, NEW w \in Workers, UpdateRequest(w)
    PROVE  LeaseStep(w)
<1> USE DEF TypeOK, ClientTypeOK
<1>0. None \notin Requests
  BY QueueAssumption
<1>1. req[w] \in Requests
  BY HolderHasRequest DEF UpdateRequest, Holding
<1>2. PICK c : Goes(w, IF pc[w] = "marking" THEN "marked" ELSE "reclaimed", c)
  BY DEF UpdateRequest
<1>3. /\ req' = req
      /\ pc' = [pc EXCEPT ![w] = IF pc[w] = "marking" THEN "marked" ELSE "reclaimed"]
      /\ call' = [call EXCEPT ![w] = c]
      /\ pc[w] \in {"marking", "reclaiming"}
  BY <1>2 DEF Goes, UpdateRequest
<1>4. leases' = leases /\ leases[w] = req[w]
  BY <1>3, LeasesKept DEF Leased, Holding, leases
<1>5. PICK h \in BOOLEAN : UpdateInStore(req[w], h)
  BY DEF UpdateRequest
<1>6. Present' = Present \cup {req[w]}
  BY <1>1, <1>5, UpdatedPresent
<1>7. handled' = IF h THEN handled \cup {req[w]} ELSE handled \ {req[w]}
  BY <1>5 DEF UpdateInStore, AddToStore, HandledPresent
<1> DEFINE s == IF h THEN "handled" ELSE "pending"
<1>8. leaseStatus' = [leaseStatus EXCEPT ![req[w]] = s]
  BY <1>1, <1>6, <1>7 DEF leaseStatus
<1>9. Lease!Write(w, s)
  BY <1>0, <1>1, <1>4, <1>8 DEF Lease!Write
<1>10. s \in {"pending", "handled"}
  OBVIOUS
<1> HIDE DEF s
<1> QED
  BY <1>9, <1>10 DEF LeaseStep

(* The steps that follow an answer.                                        *)
LEMMA ResumesLease ==
    ASSUME TypeOK, HoldersHold, Ownership, HandledPresent, NEW w \in Workers, Resumes(w)
    PROVE  LeaseStep(w)
<1> USE DEF TypeOK, ClientTypeOK
<1>1. CASE StoreRequests(w) \/ GetRequest(w) \/ UpdateRequest(w)
  BY <1>1, StoreRequestsLease, GetRequestLease, UpdateRequestLease
<1>2. CASE ~(StoreRequests(w) \/ GetRequest(w) \/ UpdateRequest(w))
  <2>1. requests' = requests /\ handled' = handled
    BY <1>2 DEF Resumes, RequestsAdded, Queried, WakeUp, Answer, TakeHead, RequestGot,
       RequestMarked, RequestReclaimed, storageVars
  <2>2. CASE RequestsAdded(w) \/ Answer(w) \/ RequestMarked(w) \/ RequestReclaimed(w)
    BY <2>1, <2>2, FinishReleases DEF RequestsAdded, Answer, RequestMarked,
       RequestReclaimed, LeaseStep
  <2>3. CASE Queried(w) \/ WakeUp(w)
    <3>1. /\ pc[w] \notin Holding
          /\ \/ \E c : Goes(w, "ensured", c)
             \/ \E c : Goes(w, "sleeping", c)
             \/ \E c : EnsureHead(w, c)
      BY <2>3 DEF Queried, WakeUp, Holding
    <3>2. ~Leased(w)
      BY <3>1 DEF Leased, Holding
    <3> QED
      BY <2>1, <3>1, <3>2, GoesKeepsLease, EnsureHeadKeepsLease
         DEF Places, Holding, LeaseStep
  <2>4. CASE TakeHead(w)
    <3>1. CASE Finishes(w)
      BY <2>1, <3>1, FinishReleases DEF LeaseStep
    <3>2. CASE ~Finishes(w)
      <4>1. /\ pc[w] = "ensured"
            /\ pc' = [pc EXCEPT ![w] = "getting"]
            /\ req' = [req EXCEPT ![w] = Head(queueHead)]
            /\ call' = [call EXCEPT ![w] = NoCall]
        BY <2>4, <3>2 DEF TakeHead
      <4>2. leases' = leases
        BY <4>1, LeasesKept DEF Leased, Holding
      <4> QED
        BY <2>1, <4>2, StatusKept DEF Lease!leaseVars, LeaseStep
    <3> QED
      BY <3>1, <3>2
  <2>5. CASE RequestGot(w)
    <3>1. CASE Finishes(w)
      BY <2>1, <3>1, FinishReleases DEF LeaseStep
    <3>2. CASE ~Finishes(w)
      <4>1. Goes(w, "holding", NoCall) /\ Leased(w)
        BY <2>5, <3>2 DEF RequestGot, Leased
      <4> QED
        BY <2>1, <4>1, GoesKeepsLease DEF Places, Holding, LeaseStep
    <3> QED
      BY <3>1, <3>2
  <2> QED
    BY <1>2, <2>2, <2>3, <2>4, <2>5 DEF Resumes
<1> QED
  BY <1>1, <1>2

(* Failures, answers to queries, timers and other programs.                *)
LEMMA EnvironmentLease ==
    ASSUME TypeOK, HoldersHold, HandledPresent,
           \/ \E q \in QueryIds : ListHead(q) \/ HeadListed(q)
           \/ \E r \in Requests, kind \in TimerKinds : TimerFires(r, kind)
           \/ GoesWrong
           \/ OtherClientActs
           \/ StorageSettles
    PROVE  \/ \E w \in Workers : LeaseStep(w)
           \/ \E rs \in SUBSET Requests : Lease!Enqueue(rs)
           \/ \E r \in Requests : Lease!HandledElsewhere(r)
           \/ UNCHANGED Lease!leaseVars
<1> USE DEF TypeOK, ClientTypeOK
<1>1. ASSUME requests' = requests, handled' = handled, req' = req,
             \A w \in Workers :
                \/ pc'[w] \in {"queried", "idle"} /\ pc[w] = "waiting"
                \/ pc'[w] = pc[w] /\ call'[w] = call[w]
      PROVE  UNCHANGED Lease!leaseVars
  BY <1>1, LeasesKept, StatusKept DEF Leased, Holding, Lease!leaseVars
<1>2. CASE \/ \E q \in QueryIds : ListHead(q) \/ HeadListed(q) \/ QueryFails(q)
           \/ \E r \in Requests, kind \in TimerKinds : TimerFires(r, kind)
           \/ StorageSettles
  <2>1. ASSUME NEW q \in QueryIds, HeadListed(q) \/ QueryFails(q)
        PROVE  UNCHANGED Lease!leaseVars
    BY <1>1, <2>1 DEF HeadListed, QueryFails, storageVars
  <2>2. CASE \/ \E q \in QueryIds : ListHead(q)
             \/ \E r \in Requests, kind \in TimerKinds : TimerFires(r, kind)
             \/ StorageSettles
    <3>1. requests' = requests /\ handled' = handled /\ UNCHANGED clientVars
      BY <2>2 DEF ListHead, TimerFires, StorageSettles, GoesQuiet, Settle, storageVars
    <3> QED
      BY <1>1, <3>1 DEF clientVars
  <2> QED
    BY <1>2, <2>1, <2>2
<1>3. ASSUME NEW w \in Workers, AddFails(w) \/ GetFails(w) \/ UpdateFails(w) \/ Abandon(w)
      PROVE  LeaseStep(w)
  <2>1. requests' = requests /\ handled' = handled
    BY <1>3 DEF AddFails, GetFails, UpdateFails, Abandon, storageVars
  <2>2. CASE Finishes(w)
    BY <2>1, <2>2, FinishReleases DEF LeaseStep
  <2>3. CASE ~Finishes(w)
    <3>1. Goes(w, "holding", NoCall) /\ Leased(w)
      BY <1>3, <2>3 DEF AddFails, GetFails, UpdateFails, Abandon, Leased, Holding
    <3> QED
      BY <2>1, <3>1, GoesKeepsLease DEF Places, Holding, LeaseStep
  <2> QED
    BY <2>2, <2>3
<1>4. CASE OtherClientActs
  <2>1. UNCHANGED clientVars /\ OtherClients
    BY <1>4 DEF OtherClientActs
  <2>2. leases' = leases
    BY <2>1, LeasesKept DEF clientVars, Leased
  <2>3. ASSUME NEW r \in Requests \ Present, AddToStore({r}, FALSE)
        PROVE  \E rs \in SUBSET Requests : Lease!Enqueue(rs)
    <3> DEFINE rs == {r}
    <3>1. AddToStore(rs, FALSE) /\ rs \in SUBSET Requests /\ rs \cap Present = {}
      BY <2>3
    <3> HIDE DEF rs
    <3>2. Present' = Present \cup rs /\ handled' = handled
      BY <3>1, StoreGrows
    <3>3. leaseStatus' = [s \in Requests |->
                             IF s \in rs THEN "pending" ELSE leaseStatus[s]]
      BY <3>1, <3>2 DEF leaseStatus, HandledPresent
    <3>4. \A s \in rs : leaseStatus[s] = "absent"
      BY <3>1 DEF leaseStatus
    <3> QED
      BY <2>2, <3>1, <3>3, <3>4 DEF Lease!Enqueue
  <2>4. ASSUME NEW r \in Pending, UpdateInStore(r, TRUE)
        PROVE  r \in Requests /\ Lease!HandledElsewhere(r)
    <3>1. r \in Requests /\ r \in Present /\ r \notin handled
      BY DEF Pending, Present
    <3>2. requests' = requests /\ handled' = handled \cup {r}
      BY <2>4, <3>1 DEF UpdateInStore
    <3>3. leaseStatus' = [leaseStatus EXCEPT ![r] = "handled"]
      BY <3>1, <3>2 DEF leaseStatus, Present
    <3>4. leaseStatus[r] = "pending"
      BY <3>1 DEF leaseStatus
    <3> QED
      BY <2>1, <2>2, <3>1, <3>3, <3>4 DEF Lease!HandledElsewhere
  <2> QED
    BY <1>4, <2>3, <2>4 DEF OtherClientActs
<1> QED
  BY <1>2, <1>3, <1>4 DEF GoesWrong

(* A handled request is present after every step.                          *)
LEMMA HandledPresentStep ==
    ASSUME TypeOK, HoldersHold, HandledPresent, [Next]_vars
    PROVE  HandledPresent'
<1> USE DEF TypeOK, ClientTypeOK
<1>1. CASE requests' = requests /\ handled' = handled
  BY <1>1 DEF HandledPresent, Present
<1>2. ASSUME NEW w \in Workers, StoreRequests(w)
      PROVE  HandledPresent'
  <2>1. PICK stored \in SUBSET call[w].batch : AddToStore(stored, FALSE)
    BY <1>2 DEF StoreRequests
  <2>2. stored \in SUBSET Requests
    BY <2>1 DEF CallType
  <2> QED
    BY <2>1, <2>2, AddedPresent
<1>3. ASSUME NEW w \in Workers, UpdateRequest(w)
      PROVE  HandledPresent'
  <2>1. req[w] \in Requests
    BY <1>3, HolderHasRequest DEF UpdateRequest, Holding
  <2>2. PICK h \in BOOLEAN : UpdateInStore(req[w], h)
    BY <1>3 DEF UpdateRequest
  <2> QED
    BY <2>1, <2>2, UpdatedPresent
<1>4. CASE OtherClientActs
  <2>1. ASSUME NEW r \in Requests \ Present, AddToStore({r}, FALSE)
        PROVE  HandledPresent'
    <3> DEFINE rs == {r}
    <3>1. AddToStore(rs, FALSE) /\ rs \in SUBSET Requests
      BY <2>1
    <3> HIDE DEF rs
    <3> QED
      BY <3>1, AddedPresent
  <2>2. ASSUME NEW r \in Pending, UpdateInStore(r, TRUE)
        PROVE  HandledPresent'
    BY <2>2, UpdatedPresent DEF Pending, Present
  <2> QED
    BY <1>4, <2>1, <2>2 DEF OtherClientActs
<1> QED
  BY <1>1, <1>2, <1>3, <1>4, StorageSteps

(* Every step of the queue is a step of the leases, or none.               *)
LEMMA LeaseNextStep ==
    ASSUME TypeOK, HoldersHold, Ownership, HandledPresent, [Next]_vars
    PROVE  [Lease!LeaseNext]_(Lease!leaseVars)
<1>1. ASSUME NEW w \in Workers, LeaseStep(w)
      PROVE  [Lease!LeaseNext]_(Lease!leaseVars)
  BY <1>1 DEF LeaseStep, Lease!LeaseNext
<1>2. CASE \E w \in Workers : Calls(w) \/ Resumes(w)
  BY <1>1, <1>2, CallsLease, ResumesLease
<1>3. CASE UNCHANGED vars
  <2>1. leases' = leases
    BY <1>3, LeasesKept DEF vars, clientVars, Leased
  <2>2. leaseStatus' = leaseStatus
    BY <1>3, StatusKept DEF vars, storageVars
  <2> QED
    BY <2>1, <2>2 DEF Lease!leaseVars
<1>4. CASE ~((\E w \in Workers : Calls(w) \/ Resumes(w)) \/ UNCHANGED vars)
  <2>1. \/ \E w \in Workers : LeaseStep(w)
        \/ \E rs \in SUBSET Requests : Lease!Enqueue(rs)
        \/ \E r \in Requests : Lease!HandledElsewhere(r)
        \/ UNCHANGED Lease!leaseVars
    BY <1>4, EnvironmentLease DEF Next
  <2> QED
    BY <1>1, <2>1 DEF Lease!LeaseNext
<1> QED
  BY <1>2, <1>3, <1>4

(* The queue implements RequestLease: a request that is returned was       *)
(* pending and free, only its holder writes it, and other programs only    *)
(* add requests or handle pending ones.                                    *)
THEOREM LeasesImplemented ==
    ASSUME TimelyHolders \/ MaxResets = 0
    PROVE  Spec => ImplementsLease
<1>1. QueueInit => Lease!LeaseInit /\ HandledPresent /\ Calm
  <2> SUFFICES ASSUME QueueInit PROVE Lease!LeaseInit /\ HandledPresent /\ Calm
    OBVIOUS
  <2>1. \A w \in Workers : ~Leased(w)
    BY DEF QueueInit, Leased, Holding
  <2>2. HandledPresent /\ Calm
    BY HandledPresentInit DEF QueueInit, Calm
  <2> QED
    BY <2>1, <2>2 DEF Lease!LeaseInit, leases, leaseStatus
<1>2. Calm /\ [Next]_vars => Calm'
  <2> SUFFICES ASSUME Calm, [Next]_vars PROVE Calm'
    OBVIOUS
  <2>1. resets' = resets \/ (resets < MaxResets /\ resets' = resets + 1)
    BY ResetsStep
  <2> QED
    BY <2>1 DEF Calm
<1>3. TypeOK /\ HoldersHold /\ HandledPresent /\ [Next]_vars => HandledPresent'
  BY HandledPresentStep
<1>4. TypeOK /\ QueueInv /\ Calm /\ HandledPresent /\ [Next]_vars
         => [Lease!LeaseNext]_(Lease!leaseVars)
  BY LeaseNextStep DEF QueueInv
<1> QED
  BY <1>1, <1>2, <1>3, <1>4, TypeCorrect, OwnersKept, PTL
     DEF Spec, ImplementsLease, Lease!LeaseSpec

-----------------------------------------------------------------------------
(* isFinished has no false positives over a storage that is consistent and *)
(* nobody else's, when no addition or lookup fails, nothing was reset and  *)
(* the storage never had more requests than a list of the head shows.      *)

(* What the workers, the head and the lists have is in the storage.        *)
InStorage ==
    /\ \A r \in Requests : requestsCache[r] # "absent" => r \in Present
    /\ InSeq(queueHead) \cup inProgress \subseteq Present
    /\ \A q \in QueryIds : queries[q].items \subseteq Present
    /\ \A w \in Workers : pc[w] = "added" => call[w].batch \subseteq Present

(* Only a worker that awaits an addition has fresh requests, its own.      *)
FreshApart ==
    /\ \A w \in Workers : /\ call[w].fresh \subseteq Present
                          /\ pc[w] # "added" => call[w].fresh = {}
    /\ \A v, w \in Workers : v # w => call[v].fresh \cap call[w].fresh = {}

(* The requests whose addition has returned, here or in an earlier run.    *)
Settled == {r \in Present : \A w \in Workers : r \notin call[w].fresh}

KnownSettled == \A w \in Workers : call[w].known \subseteq Settled

CountedSettled == assumedTotalCount <= Cardinality(Settled)

(* No list is cut off, and no request that somebody holds is missing.      *)
WholeLists ==
    /\ \A q \in QueryIds :
         queries[q].status \in {"sent", "answered"} => queries[q].limit >= QueryHeadMinLength
    /\ \A w \in Workers :
         pc[w] \in {"queried", "sleeping"} => call[w].limit >= QueryHeadMinLength

NoneMissing ==
    /\ \A r \in Requests : timers[<<r, "missing">>] = 0
    /\ \A w \in Workers : pc[w] = "got" => call[w].found # "missing"

(* The pending requests that neither the head, nor somebody in whose care  *)
(* they are, nor an addition has.  Every answered list has them, and who   *)
(* asks whether the queue is finished still awaits one.                    *)
Unseen == (Pending \cap Settled) \ (InSeq(queueHead) \cup inProgress)

UnseenListed ==
    \A r \in Unseen :
        /\ \A q \in QueryIds : queries[q].status = "answered" => r \in queries[q].items
        /\ \A w \in Workers : call[w].op = "isFinished" => pc[w] = "waiting"

FinishInv ==
    /\ InStorage /\ FreshApart /\ KnownSettled /\ CountedSettled
    /\ WholeLists /\ NoneMissing /\ UnseenListed

(* A listing names every request of its set.                               *)
LEMMA InOrderWhole ==
    ASSUME NEW S, S \subseteq Requests, NEW rank \in [Requests -> Nat],
           NEW s \in InOrder(S, rank)
    PROVE  s \in Seq(Requests) /\ InSeq(s) = S
<1> DEFINE n == Cardinality(S)
<1>1. IsFiniteSet(S) /\ n \in Nat
  BY RequestSets
<1>2. s \in [1 .. n -> S] /\ Distinct(s)
  BY InOrderDistinct DEF InOrder
<1>3. IsFiniteSet(1 .. n) /\ Cardinality(1 .. n) = n
  BY <1>1, FS_Interval
<1> HIDE DEF n
<1>4. s \in Injection(1 .. n, S)
  BY <1>2 DEF Injection, IsInjective, Distinct
<1>5. s \in Surjection(1 .. n, S)
  BY <1>1, <1>3, <1>4, FS_Injection DEF n
<1>6. InSeq(s) = S
  BY <1>2, <1>5 DEF Surjection, InSeq
<1> QED
  BY <1>6, InOrderType

LEMMA ReversedWhole ==
    ASSUME NEW s \in Seq(Requests)
    PROVE  Reversed(s) \in Seq(Requests) /\ InSeq(Reversed(s)) = InSeq(s)
<1>1. Len(s) \in Nat /\ DOMAIN s = 1 .. Len(s)
  OBVIOUS
<1>2. /\ Reversed(s) \in Seq(Requests) /\ DOMAIN Reversed(s) = 1 .. Len(s)
      /\ InSeq(Reversed(s)) \subseteq InSeq(s)
  BY ReversedType DEF Reversed
<1>3. ASSUME NEW i \in 1 .. Len(s)
      PROVE  s[i] \in InSeq(Reversed(s))
  <2> DEFINE j == Len(s) + 1 - i
  <2>1. j \in 1 .. Len(s) /\ Len(s) + 1 - j = i
    BY <1>1
  <2>2. Reversed(s)[j] = s[i]
    BY <2>1 DEF Reversed
  <2> HIDE DEF j
  <2> QED
    BY <1>2, <2>1, <2>2 DEF InSeq
<1> QED
  BY <1>1, <1>2, <1>3 DEF InSeq

LEMMA ConcatWhole ==
    ASSUME NEW s \in Seq(Requests), NEW t \in Seq(Requests)
    PROVE  InSeq(s \o t) = InSeq(s) \cup InSeq(t)
<1>1. /\ Len(s) \in Nat /\ Len(t) \in Nat
      /\ DOMAIN s = 1 .. Len(s) /\ DOMAIN t = 1 .. Len(t)
      /\ DOMAIN (s \o t) = 1 .. (Len(s) + Len(t))
      /\ \A i \in 1 .. (Len(s) + Len(t)) :
            (s \o t)[i] = IF i <= Len(s) THEN s[i] ELSE t[i - Len(s)]
  OBVIOUS
<1>2. ASSUME NEW i \in DOMAIN s
      PROVE  s[i] \in InSeq(s \o t)
  <2>1. i \in DOMAIN (s \o t) /\ (s \o t)[i] = s[i]
    BY <1>1
  <2> QED
    BY <2>1 DEF InSeq
<1>3. ASSUME NEW i \in DOMAIN t
      PROVE  t[i] \in InSeq(s \o t)
  <2>1. i + Len(s) \in DOMAIN (s \o t) /\ (s \o t)[i + Len(s)] = t[i]
    BY <1>1
  <2> QED
    BY <2>1 DEF InSeq
<1> QED
  BY <1>2, <1>3, InSeqConcat DEF InSeq

(* What joins the head is in it then, with all that was there before.      *)
LEMMA HeadJoined ==
    ASSUME TypeOK, NEW S, S \subseteq Requests, NEW s \in InOrder(S, requests),
           \/ queueHead' = queueHead \o s
           \/ queueHead' = Reversed(s) \o queueHead
    PROVE  InSeq(queueHead') = InSeq(queueHead) \cup S
<1>1. requests \in [Requests -> Nat] /\ queueHead \in Seq(Requests)
  BY DEF TypeOK, StorageTypeOK, QueueTypeOK
<1>2. s \in Seq(Requests) /\ InSeq(s) = S
  BY <1>1, InOrderWhole
<1>3. Reversed(s) \in Seq(Requests) /\ InSeq(Reversed(s)) = S
  BY <1>2, ReversedWhole
<1>4. InSeq(queueHead \o s) = InSeq(queueHead) \cup S
  BY <1>1, <1>2, ConcatWhole
<1> DEFINE t == Reversed(s)
<1>5. t \in Seq(Requests) /\ InSeq(t) = S
  BY <1>3
<1>6. queueHead' = queueHead \o s \/ queueHead' = t \o queueHead
  OBVIOUS
<1> HIDE DEF t
<1>7. InSeq(t \o queueHead) = S \cup InSeq(queueHead)
  BY <1>1, <1>5, ConcatWhole
<1> QED
  BY <1>4, <1>6, <1>7

(* The head is its first request and the others.                           *)
LEMMA HeadTaken ==
    ASSUME NEW s \in Seq(Requests), s # <<>>
    PROVE  InSeq(s) = {Head(s)} \cup InSeq(Tail(s))
<1>1. /\ Len(s) \in Nat /\ Len(s) >= 1 /\ DOMAIN s = 1 .. Len(s)
      /\ DOMAIN Tail(s) = 1 .. (Len(s) - 1)
      /\ \A i \in 1 .. (Len(s) - 1) : Tail(s)[i] = s[i + 1]
      /\ Head(s) = s[1]
  OBVIOUS
<1>2. ASSUME NEW i \in DOMAIN s, i # 1
      PROVE  s[i] \in InSeq(Tail(s))
  <2>1. i - 1 \in DOMAIN Tail(s) /\ Tail(s)[i - 1] = s[i]
    BY <1>1, <1>2
  <2> QED
    BY <2>1 DEF InSeq
<1>3. InSeq(s) \subseteq {Head(s)} \cup InSeq(Tail(s))
  BY <1>1, <1>2 DEF InSeq
<1> QED
  BY <1>3, HeadTailType

(* What a step may do to the workers, to the queries, and to the rest.     *)
WorkersGoOn ==
    \A v \in Workers :
        /\ \/ call'[v].fresh = {}
           \/ call'[v].fresh = call[v].fresh /\ pc'[v] = pc[v]
           \/ /\ pc'[v] = "added" /\ call'[v].fresh \subseteq Present' \ Present
              /\ \A u \in Workers \ {v} : call'[u] = call[u] /\ pc'[u] = pc[u]
        /\ pc'[v] = "added" => call'[v].batch \subseteq Present'
        /\ call'[v].known \subseteq call[v].known \cup Known
        /\ pc'[v] = "got" => call'[v].found # "missing"
        /\ pc'[v] \in {"queried", "sleeping"} => call'[v].limit >= QueryHeadMinLength
        /\ call'[v].op = "isFinished" =>
              \/ pc'[v] = "waiting"
              \/ call[v].op = "isFinished" /\ pc[v] # "waiting"
              \/ Unseen' = {}

QueriesGoOn ==
    \A q \in QueryIds :
        \/ queries'[q] = queries[q]
        \/ /\ queries'[q].items \subseteq Present
           /\ queries'[q].status \in {"sent", "answered"}
                => queries'[q].limit >= QueryHeadMinLength
           /\ queries'[q].status = "answered" => Unseen \subseteq queries'[q].items

RestGoesOn ==
    /\ Present \subseteq Present'
    /\ \A r \in Requests : requestsCache'[r] # "absent" => requestsCache[r] # "absent" \/ r \in Present
    /\ InSeq(queueHead') \cup inProgress' \subseteq InSeq(queueHead) \cup inProgress \cup Present
    /\ assumedTotalCount' = assumedTotalCount \/ assumedTotalCount' <= Cardinality(Settled')
    /\ \A r \in Requests : timers'[<<r, "missing">>] = 0
    /\ Unseen' \subseteq Unseen

(* Only requests are in the storage.                                       *)
LEMMA PresentRequests == Present \subseteq Requests /\ Settled \subseteq Requests
BY DEF Present, Settled

(* What isFinished notes as known was added.                               *)
LEMMA KnownPresent ==
    ASSUME InStorage
    PROVE  Known \subseteq Settled
BY DEF InStorage, Known, Settled

(* The fresh requests stay apart, and what is settled stays settled.       *)
LEMMA FreshStaysApart ==
    ASSUME FreshApart, WorkersGoOn, Present \subseteq Present'
    PROVE  FreshApart' /\ Settled \subseteq Settled'
<1>1. ASSUME NEW v \in Workers
      PROVE  \/ call'[v].fresh \subseteq call[v].fresh /\ (call'[v].fresh = {} \/ pc'[v] = pc[v])
             \/ /\ pc'[v] = "added" /\ call'[v].fresh \subseteq Present' \ Present
                /\ \A u \in Workers \ {v} : call'[u] = call[u] /\ pc'[u] = pc[u]
  BY DEF WorkersGoOn
<1>2. \A v \in Workers : call'[v].fresh \subseteq call[v].fresh \cup (Present' \ Present)
  BY <1>1
<1>3. ASSUME NEW v \in Workers
      PROVE  /\ call'[v].fresh \subseteq Present'
             /\ pc'[v] # "added" => call'[v].fresh = {}
  BY <1>1, <1>2 DEF FreshApart
<1>4. ASSUME NEW v \in Workers, NEW w \in Workers, v # w
      PROVE  call'[v].fresh \cap call'[w].fresh = {}
  <2>1. call[v].fresh \subseteq Present /\ call[w].fresh \subseteq Present
    BY DEF FreshApart
  <2>2. CASE call'[v].fresh \subseteq call[v].fresh /\ call'[w].fresh \subseteq call[w].fresh
    BY <1>4, <2>2 DEF FreshApart
  <2>3. CASE call'[v].fresh \subseteq Present' \ Present /\ call'[w] = call[w]
    BY <2>1, <2>3
  <2>4. CASE call'[w].fresh \subseteq Present' \ Present /\ call'[v] = call[v]
    BY <2>1, <2>4
  <2> QED
    BY <1>1, <1>4, <2>2, <2>3, <2>4
<1>5. Settled \subseteq Settled'
  BY <1>2 DEF Settled
<1> QED
  BY <1>3, <1>4, <1>5 DEF FreshApart

(* A step that goes on as stated above keeps the invariant.                *)
LEMMA FinishInvKept ==
    ASSUME TypeOK, TypeOK', FinishInv, WorkersGoOn, QueriesGoOn, RestGoesOn
    PROVE  FinishInv'
<1> USE DEF FinishInv
<1>1. FreshApart' /\ Settled \subseteq Settled' /\ Present \subseteq Present'
  BY FreshStaysApart DEF RestGoesOn
<1>2. InStorage'
  <2>1. \A r \in Requests : requestsCache'[r] # "absent" => r \in Present'
    BY <1>1 DEF RestGoesOn, InStorage
  <2>2. InSeq(queueHead') \cup inProgress' \subseteq Present'
    BY <1>1 DEF RestGoesOn, InStorage
  <2>3. \A q \in QueryIds : queries'[q].items \subseteq Present'
    BY <1>1 DEF QueriesGoOn, InStorage
  <2>4. \A w \in Workers : pc'[w] = "added" => call'[w].batch \subseteq Present'
    BY DEF WorkersGoOn
  <2> QED
    BY <2>1, <2>2, <2>3, <2>4 DEF InStorage
<1>3. KnownSettled'
  <2>1. Known \subseteq Settled
    BY KnownPresent
  <2>2. \A v \in Workers : call'[v].known \subseteq call[v].known \cup Known
    BY DEF WorkersGoOn
  <2> QED
    BY <1>1, <2>1, <2>2 DEF KnownSettled
<1>4. CountedSettled'
  <2>1. Settled' \subseteq Requests
    BY DEF Settled, Present
  <2>2. IsFiniteSet(Settled') /\ Cardinality(Settled') \in Nat
    BY <2>1, RequestSets
  <2>3. Cardinality(Settled) <= Cardinality(Settled') /\ Cardinality(Settled) \in Nat
    BY <1>1, <2>2, FS_Subset, PresentRequests, RequestSets
  <2>4. assumedTotalCount \in Nat /\ assumedTotalCount <= Cardinality(Settled)
    BY DEF TypeOK, QueueTypeOK, CountedSettled
  <2> QED
    BY <2>2, <2>3, <2>4 DEF RestGoesOn, CountedSettled
<1>5. WholeLists'
  BY DEF WholeLists, WorkersGoOn, QueriesGoOn
<1>6. NoneMissing'
  BY DEF NoneMissing, WorkersGoOn, RestGoesOn
<1>7. UnseenListed'
  <2> SUFFICES ASSUME NEW r \in Unseen'
               PROVE  /\ \A q \in QueryIds : queries'[q].status = "answered" => r \in queries'[q].items
                      /\ \A w \in Workers : call'[w].op = "isFinished" => pc'[w] = "waiting"
    BY DEF UnseenListed
  <2>1. r \in Unseen
    BY DEF RestGoesOn
  <2>2. \A q \in QueryIds : queries'[q].status = "answered" => r \in queries'[q].items
    BY <2>1 DEF UnseenListed, QueriesGoOn
  <2>3. \A w \in Workers : call'[w].op = "isFinished" => pc'[w] = "waiting"
    BY <2>1 DEF UnseenListed, WorkersGoOn
  <2> QED
    BY <2>2, <2>3
<1> QED
  BY <1>1, <1>2, <1>3, <1>4, <1>5, <1>6, <1>7

(* Only one worker takes a step.                                           *)
LEMMA OneGoesOn ==
    ASSUME FinishInv, Present \subseteq Present', NEW w \in Workers,
           \A v \in Workers \ {w} : pc'[v] = pc[v] /\ call'[v] = call[v],
           call'[w].fresh = {}, pc'[w] # "added",
           call'[w].known \subseteq call[w].known \cup Known,
           pc'[w] = "got" => call'[w].found # "missing",
           pc'[w] \in {"queried", "sleeping"} => call'[w].limit >= QueryHeadMinLength,
           call'[w].op = "isFinished" => \/ pc'[w] = "waiting"
                                         \/ call[w].op = "isFinished" /\ pc[w] # "waiting"
    PROVE  WorkersGoOn
<1>1. ASSUME NEW v \in Workers \ {w}
      PROVE  /\ call'[v].fresh = call[v].fresh /\ pc'[v] = pc[v]
             /\ pc'[v] = "added" => call'[v].batch \subseteq Present'
             /\ call'[v].known \subseteq call[v].known \cup Known
             /\ pc'[v] = "got" => call'[v].found # "missing"
             /\ pc'[v] \in {"queried", "sleeping"} => call'[v].limit >= QueryHeadMinLength
             /\ call'[v].op = "isFinished" => \/ pc'[v] = "waiting"
                                              \/ call[v].op = "isFinished" /\ pc[v] # "waiting"
  BY DEF FinishInv, InStorage, NoneMissing, WholeLists
<1> QED
  BY <1>1 DEF WorkersGoOn

(* A call that returns.                                                    *)
LEMMA FinishesOn ==
    ASSUME TypeOK, FinishInv, Present \subseteq Present', NEW w \in Workers, Finishes(w)
    PROVE  WorkersGoOn
<1>1. /\ pc'[w] = "idle" /\ call'[w] = NoCall
      /\ \A v \in Workers \ {w} : pc'[v] = pc[v] /\ call'[v] = call[v]
  BY DEF Finishes, TypeOK, ClientTypeOK
<1>2. NoCall.fresh = {} /\ NoCall.known = {} /\ NoCall.op = "none"
  BY DEF NoCall
<1> QED
  BY <1>1, <1>2, OneGoesOn

(* A call that goes to its next await.                                     *)
LEMMA GoesOn ==
    ASSUME TypeOK, FinishInv, Present \subseteq Present', NEW w \in Workers,
           NEW place, NEW c, Goes(w, place, c), place # "added", c.fresh = {},
           c.known \subseteq call[w].known \cup Known,
           place = "got" => c.found # "missing",
           place \in {"queried", "sleeping"} => c.limit >= QueryHeadMinLength,
           c.op = "isFinished" => place = "waiting" \/ (call[w].op = "isFinished" /\ pc[w] # "waiting")
    PROVE  WorkersGoOn
<1>1. /\ pc'[w] = place /\ call'[w] = c
      /\ \A v \in Workers \ {w} : pc'[v] = pc[v] /\ call'[v] = call[v]
  BY DEF Goes, TypeOK, ClientTypeOK
<1> QED
  BY <1>1, OneGoesOn

(* _ensureHeadIsNonEmpty.                                                  *)
LEMMA EnsureHeadOn ==
    ASSUME TypeOK, FinishInv, Present \subseteq Present', NEW w \in Workers,
           NEW c \in CallType, EnsureHead(w, c), c.fresh = {},
           c.known \subseteq call[w].known \cup Known,
           c.limit >= QueryHeadMinLength,
           c.op = "isFinished" => queueHead = <<>> \/ (call[w].op = "isFinished" /\ pc[w] # "waiting")
    PROVE  WorkersGoOn /\ QueriesGoOn
<1>1. CASE queueHead # <<>>
  <2> DEFINE d == [c EXCEPT !.consistent = TRUE]
  <2>1. d.fresh = {} /\ d.known = c.known /\ d.op = c.op
    BY DEF CallType
  <2>2. Goes(w, "ensured", d) /\ queries' = queries
    BY <1>1 DEF EnsureHead, queryVars
  <2> HIDE DEF d
  <2>3. WorkersGoOn
    BY <1>1, <2>1, <2>2, GoesOn
  <2> QED
    BY <2>2, <2>3 DEF QueriesGoOn
<1>2. ASSUME NEW q, Goes(w, "waiting", [c EXCEPT !.query = q])
      PROVE  WorkersGoOn
  <2> DEFINE d == [c EXCEPT !.query = q]
  <2>1. d.fresh = {} /\ d.known = c.known /\ d.op = c.op
    BY DEF CallType
  <2>2. Goes(w, "waiting", d)
    BY <1>2
  <2> HIDE DEF d
  <2> QED
    BY <2>1, <2>2, GoesOn
<1>3. CASE queueHead = <<>> /\ queryPromise = 0
  <2>1. PICK q \in QueryIds :
           /\ queries' = [queries EXCEPT ![q] = [NoQuery EXCEPT !.status = "sent",
                                                                !.limit = c.limit,
                                                                !.db = ~recentlyModified]]
           /\ Goes(w, "waiting", [c EXCEPT !.query = q])
    BY <1>3 DEF EnsureHead, StartQuery
  <2> DEFINE x == [NoQuery EXCEPT !.status = "sent", !.limit = c.limit, !.db = ~recentlyModified]
  <2>2. x.items = {} /\ x.status = "sent" /\ x.limit = c.limit
    BY DEF NoQuery
  <2>3. \A p \in QueryIds : queries'[p] = IF p = q THEN x ELSE queries[p]
    BY <2>1 DEF TypeOK, QueryTypeOK
  <2> HIDE DEF x
  <2>4. QueriesGoOn
    BY <2>2, <2>3 DEF QueriesGoOn
  <2> QED
    BY <1>2, <2>1, <2>4
<1>4. CASE queueHead = <<>> /\ queryPromise # 0
  <2>1. /\ queries' = queries
        /\ Finishes(w) \/ Goes(w, "waiting", [c EXCEPT !.query = queryPromise])
    BY <1>4 DEF EnsureHead, queryVars
  <2> QED
    BY <1>2, <2>1, FinishesOn DEF QueriesGoOn
<1> QED
  BY <1>1, <1>3, <1>4

(* What is assumed of the storage and the faults.                          *)
FinishTrusted ==
    /\ ~Eventual /\ ~OtherClients
    /\ Faults \cap {"add", "get"} = {} \/ MaxFailures = 0

(* The storage has less requests than a list of the head may have.         *)
Short == Cardinality(Present) < QueryHeadMinLength

(* What is part of a short table is short.                                 *)
LEMMA ShortParts ==
    ASSUME Short, NEW S \in SUBSET Present
    PROVE  Cardinality(S) \in Nat /\ Cardinality(S) < QueryHeadMinLength
<1>1. IsFiniteSet(Present) /\ Cardinality(Present) \in Nat
  BY PresentRequests, RequestSets
<1>2. IsFiniteSet(S) /\ Cardinality(S) \in Nat /\ Cardinality(S) <= Cardinality(Present)
  BY <1>1, FS_Subset, FS_CardinalityType
<1>3. Cardinality(Present) < QueryHeadMinLength /\ QueryHeadMinLength \in Nat
  BY QueueAssumption DEF Short
<1> QED
  BY <1>1, <1>2, <1>3

(* The table only grows.                                                   *)
LEMMA StoreOnlyGrows ==
    ASSUME TypeOK, HoldersHold, [Next]_vars
    PROVE  Present \subseteq Present'
<1> USE DEF TypeOK, ClientTypeOK
<1>1. CASE requests' = requests
  BY <1>1 DEF Present
<1>2. ASSUME NEW w \in Workers, StoreRequests(w)
      PROVE  Present \subseteq Present'
  <2>1. PICK stored \in SUBSET call[w].batch : AddToStore(stored, FALSE)
    BY <1>2 DEF StoreRequests
  <2>2. stored \in SUBSET Requests
    BY <2>1 DEF CallType
  <2> QED
    BY <2>1, <2>2, StoreGrows
<1>3. ASSUME NEW w \in Workers, UpdateRequest(w)
      PROVE  Present \subseteq Present'
  <2>1. req[w] \in Requests
    BY <1>3, HolderHasRequest DEF UpdateRequest, Holding
  <2>2. PICK h \in BOOLEAN : UpdateInStore(req[w], h)
    BY <1>3 DEF UpdateRequest
  <2> QED
    BY <2>1, <2>2, StoreUpdates
<1>4. CASE OtherClientActs
  <2>1. ASSUME NEW r \in Requests \ Present, AddToStore({r}, FALSE)
        PROVE  Present \subseteq Present'
    <3> DEFINE rs == {r}
    <3>1. AddToStore(rs, FALSE) /\ rs \in SUBSET Requests
      BY <2>1
    <3> HIDE DEF rs
    <3> QED
      BY <3>1, StoreGrows
  <2>2. ASSUME NEW r \in Pending, UpdateInStore(r, TRUE)
        PROVE  Present \subseteq Present'
    BY <2>2, StoreUpdates DEF Pending, Present
  <2> QED
    BY <1>4, <2>1, <2>2 DEF OtherClientActs
<1> QED
  BY <1>1, <1>2, <1>3, <1>4, StorageSteps

(* A step into a short table comes from one.                               *)
LEMMA ShortBefore ==
    ASSUME TypeOK, HoldersHold, [Next]_vars, Short'
    PROVE  Short
<1>1. Present \subseteq Present'
  BY StoreOnlyGrows
<1>2. Present' \subseteq Requests
  BY PresentRequests DEF Present
<1>3. IsFiniteSet(Present') /\ Cardinality(Present') \in Nat
  BY <1>2, RequestSets
<1>4. Cardinality(Present) \in Nat /\ Cardinality(Present) <= Cardinality(Present')
  BY <1>1, <1>3, FS_Subset, FS_CardinalityType
<1>5. Cardinality(Present') < QueryHeadMinLength /\ QueryHeadMinLength \in Nat
  BY QueueAssumption DEF Short
<1> QED
  BY <1>3, <1>4, <1>5 DEF Short

(* No request becomes fresh or settled.                                    *)
FreshSame == \A v \in Workers : call'[v].fresh = call[v].fresh

(* Only the answer of an addition makes fresh requests settled.            *)
LEMMA FreshStaysSame ==
    ASSUME TypeOK, FinishInv, NEW w \in Workers, pc[w] # "added", call'[w].fresh = {},
           \A v \in Workers \ {w} : call'[v] = call[v]
    PROVE  FreshSame
BY DEF FinishInv, FreshApart, FreshSame

(* So no other call does.                                                  *)
LEMMA FreshSameGoes ==
    ASSUME TypeOK, FinishInv, NEW w \in Workers, pc[w] # "added"
    PROVE  /\ Finishes(w) => FreshSame
           /\ \A place, c : Goes(w, place, c) /\ c.fresh = {} => FreshSame
           /\ \A c \in CallType : EnsureHead(w, c) /\ c.fresh = {} => FreshSame
<1>1. ASSUME Finishes(w)
      PROVE  FreshSame
  BY <1>1, FreshStaysSame DEF Finishes, TypeOK, ClientTypeOK, NoCall
<1>2. ASSUME NEW place, NEW c, Goes(w, place, c), c.fresh = {}
      PROVE  FreshSame
  BY <1>2, FreshStaysSame DEF Goes, TypeOK, ClientTypeOK
<1>3. ASSUME NEW c \in CallType, EnsureHead(w, c), c.fresh = {}
      PROVE  FreshSame
  <2>1. /\ [c EXCEPT !.consistent = TRUE].fresh = {}
        /\ \A q : [c EXCEPT !.query = q].fresh = {}
    BY <1>3 DEF CallType
  <2>2. \/ Finishes(w)
        \/ Goes(w, "ensured", [c EXCEPT !.consistent = TRUE])
        \/ \E q : Goes(w, "waiting", [c EXCEPT !.query = q])
    BY <1>3 DEF EnsureHead, StartQuery
  <2> QED
    BY <1>1, <1>2, <2>1, <2>2
<1> QED
  BY <1>1, <1>2, <1>3

(* A step that leaves the storage and the head alone.                      *)
LEMMA RestSame ==
    ASSUME FinishInv, FreshSame,
           UNCHANGED <<requests, handled, queueHead, inProgress, requestsCache,
                       assumedTotalCount, timers>>
    PROVE  RestGoesOn
<1>1. Present' = Present /\ Pending' = Pending
  BY DEF Present, Pending
<1>2. Settled' = Settled
  BY <1>1 DEF Settled, FreshSame
<1>3. Unseen' = Unseen
  BY <1>1, <1>2 DEF Unseen
<1> QED
  BY <1>1, <1>3 DEF RestGoesOn, FinishInv, NoneMissing, InStorage

(* What a worker's caller decides keeps the invariant.                     *)
LEMMA CallsFinish ==
    ASSUME TypeOK, TypeOK', FinishInv, NEW w \in Workers, Calls(w), resets' = resets
    PROVE  FinishInv'
<1>1. ASSUME UNCHANGED <<storageVars, queueVars, timers>>, WorkersGoOn, QueriesGoOn, FreshSame
      PROVE  FinishInv'
  BY <1>1, RestSame, FinishInvKept DEF storageVars, queueVars
<1>2. DefaultLimit \in Nat /\ DefaultLimit >= QueryHeadMinLength
  BY DefaultLimitType, QueueAssumption, RequestSets DEF DefaultLimit, TypeOK, QueueTypeOK
<1>3. Present' = Present \/ requests' # requests
  BY DEF Present
<1>4. NoCall \in CallType /\ NoCall.fresh = {} /\ NoCall.known = {}
  BY QueueAssumption DEF NoCall, CallType
<1>5. ASSUME NEW rs, NEW f, AddRequests(w, rs, f)
      PROVE  FinishInv'
  <2> DEFINE c == [NoCall EXCEPT !.op = "add", !.front = f,
                                 !.batch = {r \in rs : requestsCache[r] = "absent"}]
  <2>1. c.fresh = {} /\ c.known = {} /\ c.op = "add"
    BY DEF NoCall
  <2>2. /\ Goes(w, "adding", c) /\ pc[w] = "idle" /\ queries' = queries
        /\ UNCHANGED <<storageVars, queueVars, timers>>
    BY <1>5 DEF AddRequests, queryVars
  <2> HIDE DEF c
  <2>3. Present' = Present
    BY <2>2 DEF storageVars, Present
  <2>4. WorkersGoOn /\ FreshSame
    BY <2>1, <2>2, <2>3, GoesOn, FreshSameGoes
  <2> QED
    BY <1>1, <2>2, <2>4 DEF QueriesGoOn
<1>6. ASSUME NEW op \in {"fetch", "isEmpty"}, AskForHead(w, op)
      PROVE  FinishInv'
  <2> DEFINE c == [NoCall EXCEPT !.op = op, !.limit = DefaultLimit]
  <2>1. c.fresh = {} /\ c.known = {} /\ c.op # "isFinished" /\ c.limit = DefaultLimit /\ c \in CallType
    BY <1>2, <1>4 DEF NoCall, CallType
  <2>2. /\ EnsureHead(w, c) /\ pc[w] = "idle"
        /\ UNCHANGED <<storageVars, queueVars, timers>>
    BY <1>6 DEF AskForHead
  <2> HIDE DEF c
  <2>3. Present' = Present
    BY <2>2 DEF storageVars, Present
  <2>4. WorkersGoOn /\ QueriesGoOn
    BY <1>2, <2>1, <2>2, <2>3, EnsureHeadOn
  <2>5. FreshSame
    BY <2>1, <2>2, FreshSameGoes
  <2> QED
    BY <1>1, <2>2, <2>4, <2>5
<1>7. ASSUME IsFinished(w)
      PROVE  FinishInv'
  <2> DEFINE c == [NoCall EXCEPT !.op = "isFinished", !.limit = DefaultLimit, !.known = Known]
  <2>1. Known \subseteq Requests
    BY DEF Known
  <2>2. c.fresh = {} /\ c.known = Known /\ c.limit = DefaultLimit /\ c \in CallType
    BY <1>2, <1>4, <2>1 DEF NoCall, CallType
  <2>3. /\ EnsureHead(w, c) /\ pc[w] = "idle" /\ queueHead = <<>>
        /\ UNCHANGED <<storageVars, queueVars, timers>>
    BY <1>7 DEF IsFinished
  <2> HIDE DEF c
  <2>4. Present' = Present
    BY <2>3 DEF storageVars, Present
  <2>5. WorkersGoOn /\ QueriesGoOn
    BY <1>2, <2>2, <2>3, <2>4, EnsureHeadOn
  <2>6. FreshSame
    BY <2>2, <2>3, FreshSameGoes
  <2> QED
    BY <1>1, <2>3, <2>5, <2>6
<1>8. ASSUME NEW place \in {"marking", "reclaiming"}, NEW c, BeginUpdate(w, place, c),
             c.fresh = {}, c.known = {}, c.op # "isFinished"
      PROVE  FinishInv'
  <2>1. /\ Finishes(w) \/ Goes(w, place, c)
        /\ pc[w] = "holding" /\ queries' = queries
        /\ UNCHANGED <<storageVars, queueVars, timers>>
    BY <1>8 DEF BeginUpdate, queryVars
  <2>2. Present' = Present
    BY <2>1 DEF storageVars, Present
  <2>3. WorkersGoOn /\ FreshSame
    <3>1. CASE Finishes(w)
      BY <2>1, <2>2, <3>1, FinishesOn, FreshSameGoes
    <3>2. CASE Goes(w, place, c)
      BY <1>8, <2>1, <2>2, <3>2, GoesOn, FreshSameGoes
    <3> QED
      BY <2>1, <3>1, <3>2
  <2> QED
    BY <1>1, <2>1, <2>3 DEF QueriesGoOn
<1>9. ASSUME MarkRequestHandled(w) \/ \E f \in BOOLEAN : ReclaimRequest(w, f)
      PROVE  FinishInv'
  <2>1. /\ [NoCall EXCEPT !.op = "mark"].fresh = {} /\ [NoCall EXCEPT !.op = "mark"].known = {}
        /\ [NoCall EXCEPT !.op = "mark"].op = "mark"
        /\ \A f : /\ [NoCall EXCEPT !.op = "reclaim", !.front = f].fresh = {}
                  /\ [NoCall EXCEPT !.op = "reclaim", !.front = f].known = {}
                  /\ [NoCall EXCEPT !.op = "reclaim", !.front = f].op = "reclaim"
    BY DEF NoCall
  <2> QED
    BY <1>8, <1>9, <2>1 DEF MarkRequestHandled, ReclaimRequest
<1>10. ~ResetStuckQueue(w)
  BY DEF ResetStuckQueue, TypeOK, RestTypeOK
<1> QED
  BY <1>5, <1>6, <1>7, <1>9, <1>10 DEF Calls, FetchNextRequest, IsEmpty


(* A call's own requests are in the storage: fresh until its answer comes. *)
LEMMA StoreRequestsFinish ==
    ASSUME FinishTrusted, TypeOK, TypeOK', FinishInv, NEW w \in Workers, StoreRequests(w)
    PROVE  FinishInv'
<1> DEFINE batch == call[w].batch
           d == [call[w] EXCEPT !.batch = batch, !.fresh = batch \ Present,
                                !.done = batch \cap handled]
<1>1. /\ pc[w] = "adding" /\ AddToStore(batch, FALSE) /\ Goes(w, "added", d)
      /\ UNCHANGED <<queueVars, queryVars, timers>>
  BY DEF StoreRequests, FinishTrusted
<1>2. batch \in SUBSET Requests /\ call[w] \in CallType
  BY DEF TypeOK, ClientTypeOK, CallType
<1>3. /\ d.fresh = batch \ Present /\ d.batch = batch /\ d.known = call[w].known
      /\ d.op = call[w].op
  BY <1>2 DEF CallType
<1>4. Present' = Present \cup batch /\ handled' = handled
  BY <1>1, <1>2, StoreGrows DEF TypeOK
<1> HIDE DEF batch, d
<1>5. /\ pc'[w] = "added" /\ call'[w] = d
      /\ \A v \in Workers \ {w} : pc'[v] = pc[v] /\ call'[v] = call[v]
  BY <1>1 DEF Goes, TypeOK, ClientTypeOK
<1>6. WorkersGoOn
  <2>1. ASSUME NEW v \in Workers \ {w}
        PROVE  /\ call'[v].fresh = call[v].fresh /\ pc'[v] = pc[v]
               /\ pc'[v] = "added" => call'[v].batch \subseteq Present'
               /\ call'[v].known \subseteq call[v].known \cup Known
               /\ pc'[v] = "got" => call'[v].found # "missing"
               /\ pc'[v] \in {"queried", "sleeping"} => call'[v].limit >= QueryHeadMinLength
               /\ call'[v].op = "isFinished" => \/ pc'[v] = "waiting"
                                                \/ call[v].op = "isFinished" /\ pc[v] # "waiting"
    BY <1>4, <1>5 DEF FinishInv, InStorage, NoneMissing, WholeLists
  <2>2. /\ pc'[w] = "added" /\ call'[w].fresh \subseteq Present' \ Present
        /\ \A u \in Workers \ {w} : call'[u] = call[u] /\ pc'[u] = pc[u]
        /\ call'[w].batch \subseteq Present' /\ call'[w].known \subseteq call[w].known
        /\ call'[w].op = "isFinished" => call[w].op = "isFinished" /\ pc[w] # "waiting"
    BY <1>1, <1>3, <1>4, <1>5
  <2> QED
    BY <2>1, <2>2 DEF WorkersGoOn
<1>7. QueriesGoOn
  BY <1>1 DEF queryVars, QueriesGoOn
<1>8. RestGoesOn
  <2>1. call[w].fresh = {}
    BY <1>1 DEF FinishInv, FreshApart
  <2>2. Unseen' \subseteq Unseen
    <3> SUFFICES ASSUME NEW r \in Unseen'
                 PROVE  r \in Unseen
      OBVIOUS
    <3>1. r \in Present' /\ r \notin handled' /\ \A v \in Workers : r \notin call'[v].fresh
      BY DEF Unseen, Pending, Settled
    <3>2. r \in Present
      BY <1>3, <1>4, <1>5, <3>1
    <3>3. \A v \in Workers : r \notin call[v].fresh
      BY <1>5, <2>1, <3>1
    <3>4. r \notin InSeq(queueHead) \cup inProgress
      BY <1>1 DEF Unseen, queueVars
    <3> QED
      BY <1>4, <3>1, <3>2, <3>3, <3>4 DEF Unseen, Pending, Settled
  <2> QED
    BY <1>1, <1>4, <2>2 DEF RestGoesOn, queueVars, FinishInv, NoneMissing
<1> QED
  BY <1>6, <1>7, <1>8, FinishInvKept

(* The answer of an addition: what is new and free joins the head, which   *)
(* is short enough for all of it.                                          *)
LEMMA RequestsAddedFinish ==
    ASSUME Short, TypeOK, TypeOK', FinishInv, Ownership,
           NEW w \in Workers, RequestsAdded(w)
    PROVE  FinishInv'
<1> DEFINE c == call[w]
           new == c.fresh \ (inProgress \cup recentlyHandled)
           joins == ToHead(new, c.front)
<1>1. /\ pc[w] = "added" /\ CacheRequests(c.batch, c.done)
      /\ assumedTotalCount' = assumedTotalCount + Cardinality(new)
      /\ Finishes(w)
      /\ UNCHANGED <<storageVars, inProgress, queryVars, timers>>
  BY DEF RequestsAdded
<1>2. PICK s \in InOrder(joins, requests) :
         queueHead' = IF c.front THEN Reversed(s) \o queueHead ELSE queueHead \o s
  BY DEF RequestsAdded
<1>3. c.fresh \subseteq Present /\ c.batch \subseteq Present
  BY <1>1 DEF FinishInv, FreshApart, InStorage
<1>4. call'[w].fresh = {} /\ \A v \in Workers \ {w} : call'[v] = call[v]
  BY <1>1 DEF Finishes, NoCall, TypeOK, ClientTypeOK
<1>5. Present' = Present /\ Pending' = Pending
  BY <1>1 DEF storageVars, Present, Pending
<1>6. Settled' = Settled \cup c.fresh /\ Settled \cap c.fresh = {}
  <2>1. \A v \in Workers \ {w} : call[v].fresh \cap c.fresh = {}
    BY DEF FinishInv, FreshApart
  <2>2. Settled' \subseteq Settled \cup c.fresh
    BY <1>4, <1>5 DEF Settled
  <2>3. Settled \cup c.fresh \subseteq Settled'
    BY <1>3, <1>4, <1>5, <2>1 DEF Settled
  <2> QED
    BY <2>2, <2>3 DEF Settled
<1>7. /\ \A T \in SUBSET new : /\ Cardinality(T) \in Nat
                               /\ assumedTotalCount + Cardinality(T) <= Cardinality(Settled')
      /\ Cardinality(Settled') \in Nat /\ Cardinality(Settled') < QueryHeadMinLength
  <2>1. /\ IsFiniteSet(Settled) /\ Cardinality(Settled) \in Nat
        /\ IsFiniteSet(c.fresh) /\ Cardinality(c.fresh) \in Nat
        /\ IsFiniteSet(Settled') /\ Cardinality(Settled') \in Nat
    BY <1>3, <1>6, PresentRequests, RequestSets
  <2>2. Cardinality(Settled') = Cardinality(Settled) + Cardinality(c.fresh)
    <3> DEFINE A == Settled
               B == c.fresh
    <3>1. IsFiniteSet(A) /\ IsFiniteSet(B) /\ A \cap B = {}
          /\ Cardinality(A) \in Nat /\ Cardinality(B) \in Nat
      BY <1>6, <2>1
    <3> HIDE DEF A, B
    <3>2. Cardinality(A \cup B) = Cardinality(A) + Cardinality(B)
      BY <3>1, FS_Union, FS_EmptySet
    <3> QED
      BY <1>6, <3>2 DEF A, B
  <2>3. assumedTotalCount \in Nat /\ assumedTotalCount <= Cardinality(Settled)
    BY DEF TypeOK, QueueTypeOK, FinishInv, CountedSettled
  <2>4. Settled' \in SUBSET Present
    BY <1>5 DEF Settled
  <2>5. Cardinality(Settled') < QueryHeadMinLength
    BY <2>4, ShortParts
  <2>6. ASSUME NEW T \in SUBSET new
        PROVE  Cardinality(T) \in Nat /\ Cardinality(T) <= Cardinality(c.fresh)
    BY <2>1, FS_Subset, FS_CardinalityType
  <2> HIDE DEF c, new
  <2>7. ASSUME NEW T \in SUBSET new
        PROVE  assumedTotalCount + Cardinality(T) <= Cardinality(Settled')
    BY <2>1, <2>2, <2>3, <2>6
  <2> QED
    BY <2>1, <2>5, <2>6, <2>7
<1>8. joins = new \ InSeq(queueHead)
  <2>1. ASSUME NEW r \in new
        PROVE  assumedTotalCount + Cardinality({x \in new : requests[x] <= requests[r]})
                  < QueryHeadMinLength
    <3> DEFINE T == {x \in new : requests[x] <= requests[r]}
    <3>1. T \in SUBSET new
      OBVIOUS
    <3> HIDE DEF T, new
    <3>2. assumedTotalCount \in Nat /\ QueryHeadMinLength \in Nat
      BY QueueAssumption DEF TypeOK, QueueTypeOK
    <3>3. assumedTotalCount + Cardinality(T) < QueryHeadMinLength
      BY <1>7, <3>1, <3>2
    <3> QED
      BY <3>3 DEF T
  <2> HIDE DEF new
  <2> QED
    BY <2>1 DEF ToHead
<1>9. InSeq(queueHead') = InSeq(queueHead) \cup new
  <2>1. joins \subseteq Requests
    BY <1>3, <1>8, PresentRequests
  <2> HIDE DEF c, new
  <2>2. \/ queueHead' = queueHead \o s
        \/ queueHead' = Reversed(s) \o queueHead
    BY <1>2
  <2>3. InSeq(queueHead') = InSeq(queueHead) \cup joins
    BY <1>2, <2>1, <2>2, HeadJoined
  <2> QED
    BY <1>8, <2>3
<1>10. WorkersGoOn
  BY <1>1, <1>5, FinishesOn
<1>11. QueriesGoOn
  BY <1>1 DEF queryVars, QueriesGoOn
<1>12. RestGoesOn
  <2>1. Unseen' \subseteq Unseen
    <3>1. recentlyHandled \cap Pending = {}
      BY DEF Ownership, RememberedDone, Pending
    <3>2. inProgress' = inProgress
      BY <1>1
    <3> QED
      BY <1>5, <1>6, <1>9, <3>1, <3>2 DEF Unseen
  <2>2. \A r \in Requests : requestsCache'[r] # "absent" => requestsCache[r] # "absent" \/ r \in Present
    BY <1>1, <1>3 DEF CacheRequests
  <2>3. assumedTotalCount' <= Cardinality(Settled')
    BY <1>1, <1>7
  <2>4. InSeq(queueHead') \cup inProgress' \subseteq InSeq(queueHead) \cup inProgress \cup Present
    BY <1>1, <1>3, <1>9
  <2> QED
    BY <1>1, <1>5, <2>1, <2>2, <2>3, <2>4 DEF RestGoesOn, FinishInv, NoneMissing
<1> QED
  BY <1>10, <1>11, <1>12, FinishInvKept

(* A query that is repeated, or that is not.                               *)
LEMMA QueriedFinish ==
    ASSUME FinishTrusted, TypeOK, TypeOK', FinishInv, NEW w \in Workers,
           Queried(w) \/ WakeUp(w)
    PROVE  FinishInv'
<1> DEFINE c == call[w]
<1>1. /\ c \in CallType /\ c.limit \in Nat
      /\ QueryHeadMinLength \in Nat /\ NoCall \in CallType
  BY QueueAssumption DEF TypeOK, ClientTypeOK, CallType, NoCall
<1>2. /\ pc[w] \in {"queried", "sleeping"} /\ c.limit >= QueryHeadMinLength /\ c.fresh = {}
      /\ UNCHANGED <<storageVars, queueVars, timers>>
  BY DEF Queried, WakeUp, FinishInv, WholeLists, FreshApart
<1>3. Present' = Present
  BY <1>2 DEF storageVars, Present
<1>4. ASSUME FreshSame, WorkersGoOn, QueriesGoOn
      PROVE  FinishInv'
  BY <1>2, <1>4, RestSame, FinishInvKept DEF storageVars, queueVars
<1>5. ASSUME NEW d \in CallType, EnsureHead(w, d), d.fresh = {}, d.known = c.known,
             d.limit >= QueryHeadMinLength, d.op = c.op
      PROVE  FinishInv'
  <2>1. WorkersGoOn /\ QueriesGoOn
    BY <1>2, <1>3, <1>5, EnsureHeadOn
  <2>2. FreshSame
    BY <1>2, <1>5, FreshSameGoes
  <2> QED
    BY <1>4, <2>1, <2>2
<1>6. ASSUME NEW place \in {"ensured", "sleeping"}, NEW d, Goes(w, place, d),
             d.fresh = {}, d.known = c.known, d.op = c.op,
             place = "sleeping" => d.limit >= QueryHeadMinLength,
             queries' = queries
      PROVE  FinishInv'
  <2>1. WorkersGoOn
    BY <1>2, <1>3, <1>6, GoesOn
  <2>2. FreshSame
    BY <1>2, <1>6, FreshSameGoes
  <2> QED
    BY <1>4, <1>6, <2>1, <2>2 DEF QueriesGoOn
<1>7. CASE WakeUp(w)
  BY <1>1, <1>2, <1>5, <1>7 DEF WakeUp
<1>8. CASE Queried(w)
  <2> DEFINE higherLimit == queueHead = <<>> /\ c.reached /\ c.limit < HeadMaxLimit
             locallyConsistent == ~c.multi /\ assumedTotalCount <= assumedHandledCount
             forConsistency == c.op = "isFinished" /\ ~c.db /\ ~locallyConsistent
             limit == IF higherLimit THEN (3 * c.limit + 1) \div 2 ELSE c.limit
             iteration == IF c.iteration > MaxConsistencyQueries THEN c.iteration
                                                                 ELSE c.iteration + 1
             next == [c EXCEPT !.limit = limit, !.iteration = iteration,
                               !.reached = FALSE, !.db = FALSE, !.multi = FALSE]
             ends == [NoCall EXCEPT !.op = c.op, !.known = c.known,
                                    !.consistent = ~forConsistency]
  <2>1. limit \in Nat /\ limit >= QueryHeadMinLength
    BY <1>1, <1>2
  <2>2. iteration \in Nat
    BY <1>1, QueueAssumption DEF CallType
  <2>3. \/ Goes(w, "ensured", ends) /\ queries' = queries
        \/ Goes(w, "sleeping", next) /\ queries' = queries
        \/ EnsureHead(w, next)
    BY <1>8 DEF Queried, queryVars
  <2>4. ends.fresh = {} /\ ends.known = c.known /\ ends.op = c.op
    BY DEF NoCall
  <2> HIDE DEF limit, iteration
  <2>5. /\ next \in CallType /\ next.fresh = c.fresh /\ next.known = c.known
        /\ next.op = c.op /\ next.limit = limit
    BY <1>1, <2>1, <2>2 DEF CallType
  <2> HIDE DEF next, ends
  <2>6. CASE Goes(w, "ensured", ends) /\ queries' = queries
    BY <1>6, <2>4, <2>6
  <2>7. CASE Goes(w, "sleeping", next) /\ queries' = queries
    BY <1>2, <1>6, <2>1, <2>5, <2>7
  <2>8. CASE EnsureHead(w, next)
    BY <1>2, <1>5, <2>1, <2>5, <2>8
  <2> QED
    BY <2>3, <2>6, <2>7, <2>8
<1> QED
  BY <1>7, <1>8

(* What the holder of a request does to what the queue knows of it.        *)
LEMMA HolderFinish ==
    ASSUME FinishTrusted, TypeOK, TypeOK', HoldersHold, FinishInv, Ownership,
           NEW w \in Workers,
           \/ TakeHead(w) \/ GetRequest(w) \/ RequestGot(w) \/ UpdateRequest(w)
           \/ RequestMarked(w) \/ RequestReclaimed(w) \/ Answer(w)
    PROVE  FinishInv'
<1>1. /\ pc[w] \in Holding \cup {"ensured"} /\ pc[w] # "added" /\ pc[w] # "waiting"
      /\ queries' = queries
  BY DEF TakeHead, GetRequest, RequestGot, UpdateRequest, RequestMarked, RequestReclaimed,
         Answer, Holding, queryVars
<1>2. QueriesGoOn
  BY <1>1 DEF QueriesGoOn
<1>3. ASSUME Present \subseteq Present', NEW place, NEW d,
             Finishes(w) \/ Goes(w, place, d),
             place \notin {"added", "queried", "sleeping"},
             d.fresh = {}, d.known = {} \/ d.known = call[w].known,
             place = "got" => d.found # "missing",
             d.op \in {"none", call[w].op}
      PROVE  WorkersGoOn /\ FreshSame
  <2>1. CASE Finishes(w)
    BY <1>1, <1>3, <2>1, FinishesOn, FreshSameGoes
  <2>2. CASE Goes(w, place, d)
    BY <1>1, <1>3, <2>2, GoesOn, FreshSameGoes
  <2> QED
    BY <1>3, <2>1, <2>2
<1>4. NoCall.fresh = {} /\ NoCall.known = {} /\ NoCall.op = "none"
  BY DEF NoCall
<1>5. pc[w] \in Holding => req[w] \in Requests /\ req[w] \in inProgress /\ req[w] \in Present
  BY HolderHasRequest, QueueAssumption
     DEF Ownership, HeldInProgress, FinishInv, InStorage
<1>6. ASSUME requests' = requests
      PROVE  Present' = Present
  BY <1>6 DEF Present
<1>7. CASE TakeHead(w)
  <2> DEFINE h == Head(queueHead)
  <2>1. /\ UNCHANGED <<storageVars, requestsCache, assumedTotalCount, timers>>
        /\ queueHead' = IF queueHead = <<>> THEN <<>> ELSE Tail(queueHead)
    BY <1>7 DEF TakeHead
  <2>2. \/ /\ queueHead = <<>> \/ h \in inProgress \cup recentlyHandled
           /\ Finishes(w) /\ inProgress' = inProgress
        \/ /\ queueHead # <<>> /\ inProgress' = inProgress \cup {h}
           /\ pc' = [pc EXCEPT ![w] = "getting"]
           /\ call' = [call EXCEPT ![w] = NoCall]
    BY <1>7 DEF TakeHead, StartsProgress
  <2>3. Present' = Present /\ Pending' = Pending
    BY <2>1 DEF storageVars, Present, Pending
  <2>4. WorkersGoOn /\ FreshSame
    <3>1. CASE Finishes(w)
      BY <1>1, <2>3, <3>1, FinishesOn, FreshSameGoes
    <3>2. CASE pc' = [pc EXCEPT ![w] = "getting"] /\ call' = [call EXCEPT ![w] = NoCall]
      <4>1. /\ pc'[w] = "getting" /\ call'[w] = NoCall
            /\ \A v \in Workers \ {w} : pc'[v] = pc[v] /\ call'[v] = call[v]
        BY <3>2 DEF TypeOK, ClientTypeOK
      <4> QED
        BY <1>1, <1>4, <2>3, <4>1, OneGoesOn, FreshStaysSame
    <3> QED
      BY <2>2, <3>1, <3>2
  <2>5. queueHead \in Seq(Requests)
    BY DEF TypeOK, QueueTypeOK
  <2>6. /\ InSeq(queueHead') \subseteq InSeq(queueHead)
        /\ queueHead # <<>> => h \in InSeq(queueHead)
        /\ \A r \in InSeq(queueHead) \ InSeq(queueHead') : queueHead # <<>> /\ r = h
    <3>1. CASE queueHead = <<>>
      BY <2>1, <3>1
    <3>2. CASE queueHead # <<>>
      BY <2>1, <2>5, <3>2, HeadTaken
    <3> QED
      BY <3>1, <3>2
  <2>7. Settled' = Settled
    BY <2>3, <2>4 DEF Settled, FreshSame
  <2>8. Unseen' \subseteq Unseen
    <3>1. recentlyHandled \cap Pending = {}
      BY DEF Ownership, RememberedDone, Pending
    <3> HIDE DEF h
    <3> QED
      BY <2>2, <2>3, <2>6, <2>7, <3>1 DEF Unseen
  <2> HIDE DEF h
  <2>9. RestGoesOn
    BY <2>1, <2>2, <2>3, <2>6, <2>8 DEF RestGoesOn, FinishInv, NoneMissing
  <2> QED
    BY <1>2, <2>4, <2>9, FinishInvKept
<1>8. CASE GetRequest(w)
  <2>1. PICK answer \in Found(req[w]) : Goes(w, "got", [NoCall EXCEPT !.found = answer])
    BY <1>8 DEF GetRequest
  <2>2. UNCHANGED <<storageVars, queueVars, timers>> /\ pc[w] = "getting"
    BY <1>8 DEF GetRequest
  <2>3. req[w] \in Present /\ unsettled = {}
    BY <1>5, <2>2 DEF Holding, TypeOK, StorageTypeOK, FinishTrusted
  <2>4. answer # "missing"
    BY <2>1, <2>3 DEF Found
  <2> DEFINE d == [NoCall EXCEPT !.found = answer]
  <2>5. d.fresh = {} /\ d.known = {} /\ d.op = "none" /\ d.found = answer
    BY DEF NoCall
  <2>6. Goes(w, "got", d)
    BY <2>1
  <2> HIDE DEF d
  <2>7. WorkersGoOn /\ FreshSame
    BY <1>3, <1>6, <2>2, <2>4, <2>5, <2>6 DEF storageVars
  <2> QED
    BY <1>2, <2>2, <2>7, RestSame, FinishInvKept DEF storageVars, queueVars
<1>9. CASE RequestGot(w)
  <2>1. call[w].found # "missing"
    BY <1>9 DEF RequestGot, FinishInv, NoneMissing
  <2>2. /\ Finishes(w) \/ Goes(w, "holding", NoCall)
        /\ timers' = timers
        /\ UNCHANGED <<storageVars, queueHead, inProgress, requestsCache, assumedTotalCount>>
    BY <1>9, <2>1 DEF RequestGot
  <2>3. WorkersGoOn /\ FreshSame
    BY <1>3, <1>4, <1>6, <2>2 DEF storageVars
  <2> QED
    BY <1>2, <2>2, <2>3, RestSame, FinishInvKept DEF storageVars
<1>10. CASE Answer(w)
  <2>1. Finishes(w) /\ UNCHANGED <<storageVars, queueVars, timers>>
    BY <1>10 DEF Answer
  <2>2. WorkersGoOn /\ FreshSame
    BY <1>3, <1>4, <1>6, <2>1 DEF storageVars
  <2> QED
    BY <1>2, <2>1, <2>2, RestSame, FinishInvKept DEF storageVars, queueVars
<1>11. ASSUME pc[w] \in Holding, WorkersGoOn, FreshSame, requests' = requests,
              handled' \ {req[w]} = handled \ {req[w]},
              inProgress' = inProgress \/ (inProgress' = inProgress \ {req[w]} /\ req[w] \in handled'),
              \A r \in Requests \ {req[w]} : requestsCache'[r] = requestsCache[r],
              \A r \in Requests : timers'[<<r, "missing">>] = timers[<<r, "missing">>],
              UNCHANGED <<queueHead, assumedTotalCount>>
       PROVE  FinishInv'
  <2>1. Present' = Present
    BY <1>11 DEF Present
  <2>2. Settled' = Settled
    BY <1>11, <2>1 DEF Settled, FreshSame
  <2>3. Unseen' \subseteq Unseen
    BY <1>5, <1>11, <2>1, <2>2 DEF Unseen, Pending
  <2>4. RestGoesOn
    BY <1>5, <1>11, <2>1, <2>3 DEF RestGoesOn, FinishInv, NoneMissing
  <2> QED
    BY <1>2, <1>11, <2>4, FinishInvKept
<1>12. CASE UpdateRequest(w)
  <2> DEFINE d == [call[w] EXCEPT !.done = {req[w]} \cap handled]
             place == IF pc[w] = "marking" THEN "marked" ELSE "reclaimed"
  <2>1. /\ pc[w] \in Holding /\ Goes(w, place, d)
        /\ UNCHANGED <<queueVars, timers>>
        /\ UpdateInStore(req[w], TRUE) \/ UpdateInStore(req[w], FALSE)
    BY <1>12 DEF UpdateRequest, Holding
  <2>2. requests' = requests /\ handled' \ {req[w]} = handled \ {req[w]}
    BY <1>5, <2>1, StoreUpdates DEF UpdateInStore, TypeOK
  <2>3. d.fresh = call[w].fresh /\ d.known = call[w].known /\ d.op = call[w].op
    BY DEF TypeOK, ClientTypeOK, CallType
  <2>4. call[w].fresh = {}
    BY <1>1 DEF FinishInv, FreshApart
  <2>5. place \in {"marked", "reclaimed"}
    OBVIOUS
  <2> HIDE DEF d, place
  <2>6. WorkersGoOn /\ FreshSame
    BY <1>3, <1>6, <2>1, <2>2, <2>3, <2>4, <2>5
  <2> QED
    BY <1>11, <2>1, <2>2, <2>6 DEF queueVars
<1>13. CASE RequestMarked(w)
  <2>1. /\ pc[w] \in Holding /\ Finishes(w) /\ req[w] \in handled
        /\ inProgress' = inProgress \ {req[w]}
        /\ CacheRequests({req[w]}, call[w].done)
        /\ UNCHANGED <<storageVars, queueHead, assumedTotalCount, timers>>
    BY <1>13 DEF RequestMarked, EndsProgress, Holding, Ownership, KnowledgeTrue
  <2>2. WorkersGoOn /\ FreshSame
    BY <1>3, <1>4, <1>6, <2>1 DEF storageVars
  <2>3. \A r \in Requests \ {req[w]} : requestsCache'[r] = requestsCache[r]
    BY <2>1 DEF CacheRequests
  <2> QED
    BY <1>11, <2>1, <2>2, <2>3 DEF storageVars
<1>14. CASE RequestReclaimed(w)
  <2>1. /\ pc[w] \in Holding /\ Finishes(w)
        /\ CacheRequests({req[w]}, call[w].done)
        /\ UNCHANGED <<storageVars, queueHead, inProgress, assumedTotalCount>>
    BY <1>14 DEF RequestReclaimed, Holding
  <2>2. PICK kind \in {"front", "back"} : timers' = [timers EXCEPT ![<<req[w], kind>>] = @ + 1]
    BY <1>14 DEF RequestReclaimed
  <2>3. \A r \in Requests : timers'[<<r, "missing">>] = timers[<<r, "missing">>]
    BY <2>2 DEF TypeOK, RestTypeOK, TimerKinds
  <2>4. WorkersGoOn /\ FreshSame
    BY <1>3, <1>4, <1>6, <2>1 DEF storageVars
  <2>5. \A r \in Requests \ {req[w]} : requestsCache'[r] = requestsCache[r]
    BY <2>1 DEF CacheRequests
  <2> QED
    BY <1>11, <2>1, <2>3, <2>4, <2>5 DEF storageVars
<1> QED
  BY <1>7, <1>8, <1>9, <1>10, <1>12, <1>13, <1>14

(* What follows from a worker's awaits keeps it.                           *)
LEMMA ResumesFinish ==
    ASSUME FinishTrusted, Short, TypeOK, TypeOK', HoldersHold, FinishInv, Ownership,
           NEW w \in Workers, Resumes(w)
    PROVE  FinishInv'
BY StoreRequestsFinish, RequestsAddedFinish, QueriedFinish, HolderFinish DEF Resumes

(* A step of no worker.                                                    *)
LEMMA ClientsSameOn ==
    ASSUME FinishInv, UNCHANGED clientVars, Present \subseteq Present'
    PROVE  WorkersGoOn /\ FreshSame
BY DEF clientVars, FinishInv, InStorage, NoneMissing, WholeLists, WorkersGoOn, FreshSame

(* A listing of a consistent storage that is longer than the table has all *)
(* that is pending.                                                        *)
LEMMA ListingWhole ==
    ASSUME FinishTrusted, Short, TypeOK, NEW limit \in Nat, limit >= QueryHeadMinLength,
           NEW items \in Listings(limit)
    PROVE  items = Pending
<1>1. unsettled = {}
  BY DEF FinishTrusted, TypeOK, StorageTypeOK
<1>2. items = {r \in Pending : Cardinality({s \in Pending : requests[s] < requests[r]}) < limit}
  BY <1>1 DEF Listings
<1>3. ASSUME NEW S \in SUBSET Pending
      PROVE  Cardinality(S) < limit
  <2>1. S \in SUBSET Present
    BY DEF Pending
  <2>2. Cardinality(S) \in Nat /\ Cardinality(S) < QueryHeadMinLength
    BY <2>1, ShortParts
  <2> QED
    BY <2>2, QueueAssumption
<1>4. ASSUME NEW r \in Pending
      PROVE  Cardinality({s \in Pending : requests[s] < requests[r]}) < limit
  BY <1>3
<1> QED
  BY <1>2, <1>4

(* A list that is answered has all that is pending.                        *)
LEMMA ListHeadFinish ==
    ASSUME FinishTrusted, Short, TypeOK, TypeOK', FinishInv, NEW q \in QueryIds, ListHead(q)
    PROVE  FinishInv'
<1>1. PICK items \in Listings(queries[q].limit) :
         queries' = [queries EXCEPT ![q].status = "answered",
                                    ![q].items = items,
                                    ![q].db = @ /\ ~recentlyModified,
                                    ![q].multi = hadMultipleClients]
  BY DEF ListHead
<1>2. /\ queries[q].status = "sent" /\ queries[q].limit \in Nat
      /\ UNCHANGED <<storageVars, clientVars, queueVars, timers>>
  BY DEF ListHead, TypeOK, QueryTypeOK, QueryType
<1>3. queries[q].limit >= QueryHeadMinLength
  BY <1>2 DEF FinishInv, WholeLists
<1>4. items = Pending
  BY <1>1, <1>2, <1>3, ListingWhole
<1>5. /\ queries'[q].items = items /\ queries'[q].limit = queries[q].limit
      /\ \A p \in QueryIds \ {q} : queries'[p] = queries[p]
  BY <1>1 DEF TypeOK, QueryTypeOK, QueryType
<1>6. QueriesGoOn
  BY <1>3, <1>4, <1>5 DEF QueriesGoOn, Unseen, Pending
<1>7. WorkersGoOn /\ FreshSame
  <2>1. Present' = Present
    BY <1>2 DEF storageVars, Present
  <2> QED
    BY <1>2, <2>1, ClientsSameOn
<1> QED
  BY <1>2, <1>6, <1>7, RestSame, FinishInvKept DEF storageVars, queueVars

(* Once a list arrived, the head has all that is pending.                  *)
LEMMA HeadListedFinish ==
    ASSUME FinishTrusted, TypeOK, TypeOK', FinishInv, Ownership,
           NEW q \in QueryIds, HeadListed(q)
    PROVE  FinishInv'
<1> DEFINE query == queries[q]
           usable == Usable(query.items)
           waiting == {w \in Workers : pc[w] = "waiting" /\ call[w].query = q}
           joins == usable \ InSeq(queueHead)
<1>1. /\ query.status = "answered"
      /\ CacheRequests(usable, {})
      /\ queries' = [queries EXCEPT ![q] = NoQuery]
      /\ pc' = [w \in Workers |-> IF w \in waiting THEN "queried" ELSE pc[w]]
      /\ UNCHANGED <<storageVars, inProgress, assumedTotalCount, timers>>
  BY DEF HeadListed
<1>2. call' = [w \in Workers |->
             IF w \in waiting
             THEN [call[w] EXCEPT !.query = 0,
                                  !.limit = query.limit,
                                  !.reached = Cardinality(query.items) >= query.limit,
                                  !.db = query.db,
                                  !.multi = query.multi]
             ELSE call[w]]
  BY DEF HeadListed
<1>3. PICK s \in InOrder(joins, requests) : queueHead' = queueHead \o s
  BY DEF HeadListed
<1>4. query.items \subseteq Present /\ query.limit >= QueryHeadMinLength
  BY <1>1 DEF FinishInv, InStorage, WholeLists
<1>5. Present' = Present /\ Pending' = Pending
  BY <1>1 DEF storageVars, Present, Pending
<1>6. usable \subseteq Present /\ joins \subseteq Requests
  BY <1>4, PresentRequests DEF Usable
<1>7. InSeq(queueHead') = InSeq(queueHead) \cup joins
  <2> HIDE DEF joins
  <2> QED
    BY <1>3, <1>6, HeadJoined
<1>8. ASSUME NEW w \in waiting
      PROVE  /\ w \in Workers /\ pc[w] = "waiting" /\ pc'[w] = "queried"
             /\ call'[w].fresh = call[w].fresh /\ call'[w].known = call[w].known
             /\ call'[w].op = call[w].op /\ call'[w].limit = query.limit
             /\ call[w].fresh = {}
  <2>1. w \in Workers /\ pc[w] = "waiting" /\ call[w] \in CallType
    BY DEF TypeOK, ClientTypeOK
  <2>2. call'[w] = [call[w] EXCEPT !.query = 0,
                                  !.limit = query.limit,
                                  !.reached = Cardinality(query.items) >= query.limit,
                                  !.db = query.db,
                                  !.multi = query.multi]
    BY <1>2, <2>1
  <2>3. call[w].fresh = {} /\ pc'[w] = "queried"
    BY <1>1, <2>1 DEF FinishInv, FreshApart
  <2> HIDE DEF query, waiting
  <2> QED
    BY <2>1, <2>2, <2>3 DEF CallType
<1>9. ASSUME NEW w \in Workers, w \notin waiting
      PROVE  pc'[w] = pc[w] /\ call'[w] = call[w]
  BY <1>1, <1>2, <1>9
<1>10. FreshSame
  BY <1>8, <1>9 DEF FreshSame
<1>11. Settled' = Settled
  BY <1>5, <1>10 DEF Settled, FreshSame
<1>12. Unseen' = {}
  <2>1. recentlyHandled \cap Pending = {}
    BY DEF Ownership, RememberedDone, Pending
  <2>2. Unseen \subseteq query.items
    BY <1>1 DEF FinishInv, UnseenListed
  <2>3. Unseen \subseteq joins
    BY <2>1, <2>2 DEF Usable, Unseen
  <2>4. Unseen' = (Pending \cap Settled) \ (InSeq(queueHead') \cup inProgress)
    BY <1>1, <1>5, <1>11 DEF Unseen
  <2> HIDE DEF joins
  <2> QED
    BY <1>7, <2>3, <2>4 DEF Unseen
<1>13. WorkersGoOn
  <2>1. ASSUME NEW v \in waiting
        PROVE  /\ v \in Workers /\ call'[v].fresh = {} /\ pc'[v] = "queried"
               /\ call'[v].known \subseteq call[v].known \cup Known
               /\ call'[v].limit >= QueryHeadMinLength
    BY <1>4, <1>8
  <2>2. ASSUME NEW v \in Workers, v \notin waiting
        PROVE  /\ call'[v].fresh = call[v].fresh /\ pc'[v] = pc[v]
               /\ pc'[v] = "added" => call'[v].batch \subseteq Present'
               /\ call'[v].known \subseteq call[v].known \cup Known
               /\ pc'[v] = "got" => call'[v].found # "missing"
               /\ pc'[v] \in {"queried", "sleeping"} => call'[v].limit >= QueryHeadMinLength
    BY <1>5, <1>9, <2>2 DEF FinishInv, InStorage, NoneMissing, WholeLists
  <2> HIDE DEF waiting
  <2> QED
    BY <1>12, <2>1, <2>2 DEF WorkersGoOn
<1>14. QueriesGoOn
  <2>1. NoQuery.items = {} /\ NoQuery.status = "free"
    BY DEF NoQuery
  <2>2. \A p \in QueryIds : queries'[p] = IF p = q THEN NoQuery ELSE queries[p]
    BY <1>1 DEF TypeOK, QueryTypeOK
  <2> QED
    BY <2>1, <2>2 DEF QueriesGoOn
<1>15. RestGoesOn
  <2>1. \A r \in Requests : requestsCache'[r] # "absent" => requestsCache[r] # "absent" \/ r \in Present
    BY <1>1, <1>6 DEF CacheRequests
  <2>2. InSeq(queueHead') \cup inProgress' \subseteq InSeq(queueHead) \cup inProgress \cup Present
    BY <1>1, <1>6, <1>7
  <2> QED
    BY <1>1, <1>5, <1>12, <2>1, <2>2 DEF RestGoesOn, FinishInv, NoneMissing
<1> QED
  BY <1>13, <1>14, <1>15, FinishInvKept

(* A reclaimed request gets back to the head, which is short.              *)
LEMMA TimerFiresFinish ==
    ASSUME Short, TypeOK, TypeOK', FinishInv, Ownership,
           NEW r \in Requests, NEW kind \in TimerKinds, TimerFires(r, kind)
    PROVE  FinishInv'
<1> DEFINE wanted == kind # "missing" /\ r \in inProgress /\ r \notin InSeq(queueHead)
<1>1. /\ timers[<<r, kind>>] > 0
      /\ timers' = [timers EXCEPT ![<<r, kind>>] = @ - 1]
      /\ inProgress' = inProgress \ {r}
      /\ UNCHANGED <<storageVars, clientVars, requestsCache, assumedTotalCount, queryVars>>
  BY DEF TimerFires, Due, EndsProgress
<1>2. queueHead' = IF wanted /\ kind = "front" THEN <<r>> \o queueHead
                   ELSE IF wanted /\ kind = "back" /\ assumedTotalCount < QueryHeadMinLength
                   THEN Append(queueHead, r)
                   ELSE queueHead
  BY DEF TimerFires
<1>3. kind \in {"front", "back"} /\ r \in inProgress /\ r \in Present
  <2>1. timers[<<r, "missing">>] = 0
    BY DEF FinishInv, NoneMissing
  <2>2. r \in inProgress
    BY <1>1 DEF Ownership, TimerAlone
  <2> QED
    BY <1>1, <2>1, <2>2 DEF TimerKinds, FinishInv, InStorage
<1>4. assumedTotalCount < QueryHeadMinLength
  <2>1. Settled \in SUBSET Present
    BY DEF Settled
  <2>2. Cardinality(Settled) \in Nat /\ Cardinality(Settled) < QueryHeadMinLength
    BY <2>1, ShortParts
  <2>3. assumedTotalCount \in Nat /\ assumedTotalCount <= Cardinality(Settled)
    BY DEF TypeOK, QueueTypeOK, FinishInv, CountedSettled
  <2> QED
    BY <2>2, <2>3, QueueAssumption
<1>5. InSeq(queueHead') = InSeq(queueHead) \cup {r}
  <2> DEFINE one == <<r>>
  <2>1. queueHead \in Seq(Requests) /\ one \in Seq(Requests)
    BY DEF TypeOK, QueueTypeOK
  <2>2. InSeq(one) = {r}
    BY DEF InSeq
  <2>3. Append(queueHead, r) = queueHead \o one
    BY <2>1
  <2>4. r \notin InSeq(queueHead) => queueHead' = one \o queueHead \/ queueHead' = queueHead \o one
    BY <1>2, <1>3, <1>4, <2>3
  <2>5. r \in InSeq(queueHead) => queueHead' = queueHead
    BY <1>2
  <2> HIDE DEF one
  <2>6. /\ InSeq(one \o queueHead) = InSeq(one) \cup InSeq(queueHead)
        /\ InSeq(queueHead \o one) = InSeq(queueHead) \cup InSeq(one)
    BY <2>1, ConcatWhole
  <2> QED
    BY <2>2, <2>4, <2>5, <2>6
<1>6. Present' = Present /\ Pending' = Pending
  BY <1>1 DEF storageVars, Present, Pending
<1>7. WorkersGoOn /\ FreshSame
  BY <1>1, <1>6, ClientsSameOn
<1>8. QueriesGoOn
  BY <1>1 DEF QueriesGoOn, queryVars
<1>9. Settled' = Settled
  BY <1>6, <1>7 DEF Settled, FreshSame
<1>10. \A t \in Requests : timers'[<<t, "missing">>] = 0
  BY <1>1, <1>3 DEF TypeOK, RestTypeOK, TimerKinds, FinishInv, NoneMissing
<1>11. Unseen' \subseteq Unseen
  BY <1>1, <1>5, <1>6, <1>9 DEF Unseen
<1>12. RestGoesOn
  BY <1>1, <1>3, <1>5, <1>6, <1>10, <1>11 DEF RestGoesOn
<1> QED
  BY <1>7, <1>8, <1>12, FinishInvKept

(* A listing fails: whoever awaits it gives up.                            *)
LEMMA QueryFailsFinish ==
    ASSUME FinishTrusted, TypeOK, TypeOK', FinishInv, NEW q \in QueryIds, QueryFails(q)
    PROVE  FinishInv'
<1> DEFINE waiting == {w \in Workers : pc[w] = "waiting" /\ call[w].query = q}
           x == IF queryPromise = q THEN [NoQuery EXCEPT !.status = "rejected"] ELSE NoQuery
<1>1. /\ queries' = [queries EXCEPT ![q] = x]
      /\ pc' = [w \in Workers |-> IF w \in waiting THEN "idle" ELSE pc[w]]
      /\ call' = [w \in Workers |-> IF w \in waiting THEN NoCall ELSE call[w]]
      /\ UNCHANGED <<storageVars, queueVars, timers>>
  BY DEF QueryFails
<1>2. x.items = {} /\ x.status \in {"free", "rejected"}
  BY DEF NoQuery
<1> HIDE DEF x
<1>3. \A p \in QueryIds : queries'[p] = IF p = q THEN x ELSE queries[p]
  BY <1>1 DEF TypeOK, QueryTypeOK
<1>4. QueriesGoOn
  BY <1>2, <1>3 DEF QueriesGoOn
<1>5. NoCall.fresh = {} /\ NoCall.known = {} /\ NoCall.op = "none"
  BY DEF NoCall
<1>6. \A w \in Workers : IF w \in waiting THEN /\ pc'[w] = "idle" /\ call'[w] = NoCall
                                               /\ pc[w] = "waiting"
                                          ELSE pc'[w] = pc[w] /\ call'[w] = call[w]
  BY <1>1
<1> HIDE DEF waiting
<1>7. Present' = Present
  BY <1>1 DEF storageVars, Present
<1>8. WorkersGoOn
  <2>1. ASSUME NEW v \in Workers, v \in waiting
        PROVE  /\ call'[v].fresh = {} /\ pc'[v] = "idle"
               /\ call'[v].known \subseteq call[v].known \cup Known
               /\ call'[v].op # "isFinished"
    BY <1>5, <1>6, <2>1
  <2>2. ASSUME NEW v \in Workers, v \notin waiting
        PROVE  /\ call'[v].fresh = call[v].fresh /\ pc'[v] = pc[v]
               /\ pc'[v] = "added" => call'[v].batch \subseteq Present'
               /\ call'[v].known \subseteq call[v].known \cup Known
               /\ pc'[v] = "got" => call'[v].found # "missing"
               /\ pc'[v] \in {"queried", "sleeping"} => call'[v].limit >= QueryHeadMinLength
               /\ call'[v].op = "isFinished" => \/ pc'[v] = "waiting"
                                                \/ call[v].op = "isFinished" /\ pc[v] # "waiting"
    BY <1>6, <1>7, <2>2 DEF FinishInv, InStorage, NoneMissing, WholeLists
  <2> QED
    BY <2>1, <2>2 DEF WorkersGoOn
<1>9. FreshSame
  BY <1>5, <1>6 DEF FreshSame, FinishInv, FreshApart
<1> QED
  BY <1>1, <1>4, <1>8, <1>9, RestSame, FinishInvKept DEF storageVars, queueVars

(* Answers, timers, failures and the storage keep the invariant.           *)
LEMMA EnvironmentFinish ==
    ASSUME FinishTrusted, Short, TypeOK, TypeOK', FinishInv, Ownership,
           \/ \E q \in QueryIds : ListHead(q) \/ HeadListed(q)
           \/ \E r \in Requests, kind \in TimerKinds : TimerFires(r, kind)
           \/ GoesWrong
           \/ OtherClientActs
           \/ StorageSettles
    PROVE  FinishInv'
<1>1. ASSUME NEW w \in Workers, AddFails(w) \/ GetFails(w)
      PROVE  FALSE
  BY <1>1 DEF AddFails, GetFails, Fails, FinishTrusted, TypeOK, RestTypeOK
<1>2. ASSUME NEW w \in Workers, UpdateFails(w) \/ Abandon(w)
      PROVE  FinishInv'
  <2>1. /\ Finishes(w) \/ Goes(w, "holding", NoCall)
        /\ queries' = queries
        /\ UNCHANGED <<storageVars, queueVars, timers>>
    BY <1>2 DEF UpdateFails, Abandon, queryVars
  <2>2. pc[w] # "added"
    BY <1>2 DEF UpdateFails, Abandon
  <2>3. NoCall.fresh = {} /\ NoCall.known = {} /\ NoCall.op = "none"
    BY DEF NoCall
  <2>4. Present' = Present
    BY <2>1 DEF storageVars, Present
  <2>5. WorkersGoOn /\ FreshSame
    <3>1. CASE Finishes(w)
      BY <2>2, <2>4, <3>1, FinishesOn, FreshSameGoes
    <3>2. CASE Goes(w, "holding", NoCall)
      BY <2>2, <2>3, <2>4, <3>2, GoesOn, FreshSameGoes
    <3> QED
      BY <2>1, <3>1, <3>2
  <2> QED
    BY <2>1, <2>5, RestSame, FinishInvKept DEF storageVars, queueVars, QueriesGoOn
<1>3. ~OtherClientActs
  BY DEF OtherClientActs, FinishTrusted
<1>4. ASSUME StorageSettles
      PROVE  FinishInv'
  <2>1. requests' = requests /\ handled' = handled
    BY <1>4, SettleType DEF StorageSettles, TypeOK
  <2>2. UNCHANGED <<clientVars, queueVars, queryVars, timers>>
    BY <1>4 DEF StorageSettles
  <2>3. WorkersGoOn /\ FreshSame
    <3>1. Present' = Present
      BY <2>1 DEF Present
    <3> QED
      BY <2>2, <3>1, ClientsSameOn
  <2> QED
    BY <2>1, <2>2, <2>3, RestSame, FinishInvKept DEF queueVars, queryVars, QueriesGoOn
<1> QED
  BY <1>1, <1>2, <1>3, <1>4, ListHeadFinish, HeadListedFinish, TimerFiresFinish,
     QueryFailsFinish DEF GoesWrong

(* What holds as long as nothing was reset and the table is short is kept. *)
LEMMA FinishStep ==
    ASSUME FinishTrusted, TypeOK, TypeOK', HoldersHold, Calm => Ownership,
           resets = 0 /\ Short => FinishInv, [Next]_vars
    PROVE  resets' = 0 /\ Short' => FinishInv'
<1> SUFFICES ASSUME resets' = 0, Short'
             PROVE  FinishInv'
  OBVIOUS
<1>1. resets = 0 /\ resets' = resets /\ Short
  BY ResetsStep, ShortBefore DEF TypeOK, RestTypeOK
<1>2. Ownership /\ FinishInv
  BY <1>1 DEF Calm
<1>3. CASE UNCHANGED vars
  <2>1. Present' = Present
    BY <1>3 DEF vars, storageVars, Present
  <2>2. UNCHANGED <<clientVars, storageVars, queueVars, queryVars, timers>>
    BY <1>3 DEF vars
  <2>3. WorkersGoOn /\ FreshSame
    BY <1>2, <2>1, <2>2, ClientsSameOn
  <2> QED
    BY <1>2, <2>2, <2>3, RestSame, FinishInvKept
       DEF storageVars, queueVars, queryVars, QueriesGoOn
<1>4. CASE Next
  BY <1>1, <1>2, <1>4, CallsFinish, ResumesFinish, EnvironmentFinish DEF Next
<1> QED
  BY <1>3, <1>4

(* It holds at first.                                                      *)
LEMMA FinishInit ==
    ASSUME QueueInit
    PROVE  FinishInv
<1>1. NoCall.fresh = {} /\ NoCall.known = {} /\ NoCall.op = "none" /\ NoCall.batch = {}
  BY DEF NoCall
<1>2. NoQuery.items = {} /\ NoQuery.status = "free"
  BY DEF NoQuery
<1>3. InSeq(<<>>) = {}
  BY DEF InSeq
<1>4. /\ \A w \in Workers : pc[w] = "idle" /\ call[w] = NoCall
      /\ \A q \in QueryIds : queries[q] = NoQuery
      /\ queueHead = <<>> /\ inProgress = {} /\ assumedTotalCount = 0
      /\ \A r \in Requests : requestsCache[r] = "absent" /\ timers[<<r, "missing">>] = 0
  BY DEF QueueInit, TimerKinds
<1>5. CountedSettled
  BY <1>4, PresentRequests, RequestSets DEF CountedSettled
<1> QED
  BY <1>1, <1>2, <1>3, <1>4, <1>5
     DEF FinishInv, InStorage, FreshApart, KnownSettled, WholeLists, NoneMissing, UnseenListed

(* When isFinished says so, nothing known is in nobody's sight.            *)
LEMMA FinishedTruly ==
    ASSUME FinishInv
    PROVE  NoFalseFinish
<1> SUFFICES ASSUME NEW w \in Workers, SaysFinished(w)
             PROVE  call[w].known \cap Pending = {}
  BY DEF NoFalseFinish
<1>1. /\ pc[w] = "ensured" /\ call[w].op = "isFinished"
      /\ InSeq(queueHead) = {} /\ inProgress = {}
  BY DEF SaysFinished, InSeq
<1>2. Unseen = {}
  BY <1>1 DEF FinishInv, UnseenListed
<1> QED
  BY <1>1, <1>2 DEF FinishInv, KnownSettled, Unseen

(* isFinished has no false positive when the storage is consistent and     *)
(* nobody else uses it and no addition and no lookup fails, as long as the *)
(* queue was not stuck and reset and has less requests than one query of   *)
(* the head lists: listings may fail or come late, updates may fail,       *)
(* holders may lose requests, and an earlier run may have left some.       *)
THEOREM FinishTrueWhileShortHolds ==
    ASSUME FinishTrusted
    PROVE  Spec => []FinishTrueWhileShort
<1> DEFINE FInv == resets = 0 /\ Short => FinishInv
<1>1. QueueInit => FInv
  BY FinishInit
<1>2. TypeOK /\ HoldersHold /\ (TypeOK /\ HoldersHold)' /\ QueueInv /\ FInv /\ [Next]_vars => FInv'
  BY FinishStep DEF QueueInv
<1>3. FInv => FinishTrueWhileShort
  BY FinishedTruly DEF FinishTrueWhileShort, Short
<1> QED
  BY <1>1, <1>2, <1>3, TypeCorrect, OwnersKept, PTL DEF Spec

=============================================================================
