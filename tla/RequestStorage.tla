--------------------------- MODULE RequestStorage ---------------------------
(***************************************************************************)
(* The request table behind a queue: RequestQueueClient of                 *)
(* packages/memory-storage, and, when Eventual is TRUE, the remote storage *)
(* the same interface fronts, whose writes are visible to later reads only *)
(* after a delay.                                                          *)
(*                                                                         *)
(* A request is identified with its id (a hash of its uniqueKey).  Of an   *)
(* InternalRequest only what listHead and updateRequest look at is kept:   *)
(* its place in the Map and whether its orderNo is null (it is handled).   *)
(* The sign and size of orderNo are read by nobody, so they are left out.  *)
(***************************************************************************)
EXTENDS Integers, FiniteSets

CONSTANTS
    Requests,   \* the request ids
    Preloaded,  \* ids an earlier run of the program may have left in the table
    Eventual    \* TRUE: writes become visible to reads only some time later

ASSUME StorageAssumption ==
    /\ IsFiniteSet(Requests)
    /\ Preloaded \subseteq Requests
    /\ Eventual \in BOOLEAN

VARIABLES
    requests,             \* id -> its rank in the insertion-ordered Map, 0 if absent
    handled,              \* ids whose orderNo is null
    pendingRequestCount,  \* the counter of that name (handledRequestCount stays 0)
    unsettled,            \* ids whose last write some reads may still miss
    recentlyModified      \* queueModifiedAt is less than
                          \* API_PROCESSED_REQUESTS_DELAY_MILLIS ago

storageVars == <<requests, handled, pendingRequestCount, unsettled, recentlyModified>>

Present == {r \in Requests : requests[r] # 0}

Pending == Present \ handled

(***************************************************************************)
(* The strictly increasing enumeration of S by rank: a set with the one    *)
(* sequence that lists S in the order of its ranks.                        *)
(***************************************************************************)
InOrder(S, rank) ==
    {s \in [1 .. Cardinality(S) -> S] :
        \A i, j \in 1 .. Cardinality(S) : i < j => rank[s[i]] < rank[s[j]]}

(***************************************************************************)
(* Writes to an eventually consistent storage are unsettled for a while    *)
(* and modify it.  In memory a write updates modifiedAt of the client      *)
(* object that holds the Map, while listHead reports that of the object it *)
(* is called on, which stays at the time of its creation.                  *)
(***************************************************************************)
Writes(rs) ==
    /\ unsettled' = IF Eventual THEN unsettled \cup rs ELSE unsettled
    /\ recentlyModified' = (Eventual \/ recentlyModified)

StorageInit ==
    /\ \E left \in SUBSET Preloaded :
        /\ requests \in {f \in [Requests -> 0 .. Cardinality(left)] :
                            /\ \A r \in Requests : f[r] # 0 <=> r \in left
                            /\ \A r, s \in left : r # s => f[r] # f[s]}
        /\ handled \in SUBSET left
    /\ pendingRequestCount = 0
    /\ unsettled = {}
    /\ recentlyModified = TRUE

(***************************************************************************)
(* batchAddRequests (and addRequest, for a set of one): the requests that  *)
(* are not in the Map yet are appended to it, in the order of the caller's *)
(* array, here any.  A request added as already handled (asHandled) is the *)
(* one that the counter counts.                                            *)
(***************************************************************************)
AddToStore(rs, asHandled) ==
    LET new == rs \ Present
        n == Cardinality(Present)
    IN /\ \E rank \in [new -> (n + 1) .. (n + Cardinality(new))] :
            /\ \A r, s \in new : r # s => rank[r] # rank[s]
            /\ requests' = [r \in Requests |->
                               IF r \in new THEN rank[r] ELSE requests[r]]
       /\ handled' = IF asHandled THEN handled \cup new ELSE handled
       /\ pendingRequestCount' = pendingRequestCount
                                    + (IF asHandled THEN Cardinality(new) ELSE 0)
       /\ Writes(new)

(***************************************************************************)
(* updateRequest: the entry is replaced in its place and becomes handled   *)
(* or pending with the handledAt of the request passed; a request that is  *)
(* missing is added instead.                                               *)
(***************************************************************************)
UpdateInStore(r, asHandled) ==
    IF r \notin Present
    THEN AddToStore({r}, asHandled)
    ELSE /\ handled' = IF asHandled THEN handled \cup {r} ELSE handled \ {r}
         /\ pendingRequestCount' = pendingRequestCount
                                      + (IF r \in handled
                                         THEN IF asHandled THEN 0 ELSE -1
                                         ELSE IF asHandled THEN 1 ELSE 0)
         /\ Writes({r})
         /\ UNCHANGED requests

(* deleteRequest: the requests behind the deleted one move up in the Map.  *)
DeleteFromStore(r) ==
    /\ r \in Present
    /\ requests' = [s \in Requests |->
                       IF s = r THEN 0
                       ELSE IF requests[s] > requests[r] THEN requests[s] - 1
                       ELSE requests[s]]
    /\ handled' = handled \ {r}
    /\ pendingRequestCount' = pendingRequestCount - (IF r \in handled THEN 0 ELSE 1)
    /\ Writes({r})

(***************************************************************************)
(* What listHead(limit) may return: the first limit pending requests in    *)
(* Map order.  A listing may have or miss an unsettled request.            *)
(***************************************************************************)
Listings(limit) ==
    {{r \in seen : Cardinality({s \in seen : requests[s] < requests[r]}) < limit} :
        seen \in {(Pending \ unsettled) \cup x :
                    x \in SUBSET (unsettled \cap Present)}}

(* What getRequest(r) may find: an unsettled request may still be missing. *)
Found(r) ==
    (IF r \in Present THEN {IF r \in handled THEN "handled" ELSE "pending"}
                      ELSE {"missing"})
    \cup (IF r \in unsettled \cap Pending THEN {"missing"} ELSE {})

(* A write of the remote storage becomes visible to every read.            *)
Settle(r) ==
    /\ r \in unsettled
    /\ unsettled' = unsettled \ {r}
    /\ UNCHANGED <<requests, handled, pendingRequestCount, recentlyModified>>

(* The last write is API_PROCESSED_REQUESTS_DELAY_MILLIS ago.              *)
GoesQuiet ==
    /\ recentlyModified
    /\ unsettled = {}
    /\ recentlyModified' = FALSE
    /\ UNCHANGED <<requests, handled, pendingRequestCount, unsettled>>

-----------------------------------------------------------------------------
(* The storage on its own, used by any client.                             *)
StorageNext ==
    \/ \E rs \in SUBSET Requests, h \in BOOLEAN : rs # {} /\ AddToStore(rs, h)
    \/ \E r \in Requests, h \in BOOLEAN : UpdateInStore(r, h)
    \/ \E r \in Requests : DeleteFromStore(r)
    \/ \E r \in Requests : Settle(r)
    \/ GoesQuiet

StorageSpec == StorageInit /\ [][StorageNext]_storageVars

-----------------------------------------------------------------------------
(* The ranks are a numbering 1..n of the requests in the Map, only those   *)
(* are handled or unsettled, and a consistent storage has nothing          *)
(* unsettled.                                                              *)
StorageTypeOK ==
    /\ requests \in [Requests -> Nat]
    /\ handled \subseteq Requests
    /\ pendingRequestCount \in Int
    /\ unsettled \subseteq Requests
    /\ ~Eventual => unsettled = {}
    /\ recentlyModified \in BOOLEAN

=============================================================================
