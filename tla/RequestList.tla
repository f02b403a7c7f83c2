----------------------------- MODULE RequestList -----------------------------
(***************************************************************************)
(* RequestList of packages/core: a fixed list of requests and, in memory,  *)
(* how far it was read and which requests are being processed.  A snapshot *)
(* of that is written to the key-value store from time to time; after a    *)
(* restart the list goes on from the snapshot that is there.               *)
(*                                                                         *)
(* Whoever fetches from the list calls it as ListNext says; the crawler    *)
(* (BasicCrawler) is such a client.                                        *)
(***************************************************************************)
EXTENDS Integers, Sequences, FiniteSets

CONSTANTS
    Requests,       \* the requests that may be in the list, by uniqueKey
    Lists,          \* what a list may be loaded with: sequences of requests
    Savers          \* the calls of persistState that may overlap: periodic
                    \* events, the migration event and the user's own

ASSUME ListAssumption ==
    /\ IsFiniteSet(Requests)
    /\ Lists \subseteq Seq(Requests)
    /\ \A l \in Lists : \A i, j \in DOMAIN l : l[i] = l[j] => i = j

VARIABLES
    requests,           \* the list; it does not change
    nextIndex,          \* how many requests were read from it
    listInProgress,     \* inProgress
    reclaimed,
    isStatePersisted,
    saving,             \* the snapshot each persistState is writing, if any
    savedState,         \* the snapshot in the key-value store
    listDone            \* history: requests marked as handled, ever

memoryVars == <<nextIndex, listInProgress, reclaimed>>
savingVars == <<isStatePersisted, saving, savedState>>
listVars == <<requests, memoryVars, savingVars, listDone>>

Snapshots == [nextIndex : Nat, inProgress : SUBSET Requests]

Listed == {requests[i] : i \in DOMAIN requests}

(* The requests from an index on.                                          *)
From(index) == {requests[i] : i \in {j \in DOMAIN requests : j > index}}

(* getState.  A process that finds no state in the store starts as if it   *)
(* had found the initial one.                                              *)
(* Mutant: only the reclaimed ones of what is in progress.                 *)
StateOfReclaimed == [nextIndex |-> nextIndex, inProgress |-> reclaimed]

State == [nextIndex |-> nextIndex, inProgress |-> listInProgress]

ListInit ==
    /\ requests \in Lists
    /\ nextIndex = 0
    /\ listInProgress = {}
    /\ reclaimed = {}
    /\ isStatePersisted = TRUE
    /\ saving = [p \in Savers |-> {}]
    /\ savedState = State
    /\ listDone = {}

IsListEmpty == reclaimed = {} /\ nextIndex >= Len(requests)

IsListFinished == listInProgress = {} /\ nextIndex >= Len(requests)

HandledInList == nextIndex - Cardinality(listInProgress)

(* fetchNextRequest: a reclaimed request, else the next one of the list.   *)
(* Reclaimed requests come in the order of a Set, which is left open.      *)
FetchReclaimed(r) ==
    /\ r \in reclaimed
    /\ reclaimed' = reclaimed \ {r}
    /\ UNCHANGED <<requests, nextIndex, listInProgress, savingVars, listDone>>

FetchNext(r) ==
    /\ reclaimed = {}
    /\ nextIndex < Len(requests)
    /\ r = requests[nextIndex + 1]
    /\ listInProgress' = listInProgress \cup {r}
    /\ nextIndex' = nextIndex + 1
    /\ isStatePersisted' = FALSE
    /\ UNCHANGED <<requests, reclaimed, saving, savedState, listDone>>

FetchFromList(r) == FetchReclaimed(r) \/ FetchNext(r)

(* markRequestHandled and reclaimRequest throw, and change nothing, unless *)
(* the request is being processed.                                         *)
IsProcessed(r) == r \in listInProgress /\ r \notin reclaimed

MarkInList(r) ==
    /\ IsProcessed(r)
    /\ listInProgress' = listInProgress \ {r}
    /\ isStatePersisted' = FALSE
    /\ listDone' = listDone \cup {r}
    /\ UNCHANGED <<requests, nextIndex, reclaimed, saving, savedState>>

ReclaimInList(r) ==
    /\ IsProcessed(r)
    /\ reclaimed' = reclaimed \cup {r}
    /\ UNCHANGED <<requests, nextIndex, listInProgress, savingVars, listDone>>

(* persistState takes its snapshot when it is called, and the write may    *)
(* end after the list has changed and after other writes.                  *)
PersistState(p) ==
    /\ saving[p] = {}
    /\ ~isStatePersisted
    /\ saving' = [saving EXCEPT ![p] = {State}]
    /\ UNCHANGED <<requests, memoryVars, isStatePersisted, savedState, listDone>>

StatePersisted(p) ==
    /\ savedState' \in saving[p]
    /\ isStatePersisted' = TRUE
    /\ saving' = [saving EXCEPT ![p] = {}]
    /\ UNCHANGED <<requests, memoryVars, listDone>>

(* The write fails, perhaps after the store has the snapshot: logged.      *)
PersistFails(p) ==
    /\ saving[p] # {}
    /\ savedState' \in {savedState} \cup saving[p]
    /\ saving' = [saving EXCEPT ![p] = {}]
    /\ UNCHANGED <<requests, memoryVars, isStatePersisted, listDone>>

(* A new process loads the same list and restores the state from the       *)
(* store, without entries that lie ahead; what was in progress is          *)
(* reclaimed.                                                              *)
Restored(s) == s.inProgress \ From(s.nextIndex)

RestoreState ==
    /\ nextIndex' = savedState.nextIndex
    /\ listInProgress' = Restored(savedState)
    /\ reclaimed' = listInProgress'
    /\ isStatePersisted' = TRUE
    /\ saving' = [p \in Savers |-> {}]
    /\ UNCHANGED <<requests, savedState, listDone>>

ListNext ==
    \/ \E r \in Requests : FetchFromList(r) \/ MarkInList(r) \/ ReclaimInList(r)
    \/ \E p \in Savers : PersistState(p) \/ StatePersisted(p) \/ PersistFails(p)
    \/ RestoreState

ListSpec == ListInit /\ [][ListNext]_listVars

-----------------------------------------------------------------------------
ListTypeOK ==
    /\ requests \in Lists
    /\ nextIndex \in 0 .. Len(requests)
    /\ listInProgress \subseteq Listed
    /\ reclaimed \subseteq listInProgress
    /\ isStatePersisted \in BOOLEAN
    /\ saving \in [Savers -> SUBSET Snapshots]
    /\ savedState \in Snapshots
    /\ listDone \subseteq Listed

(* What a process that starts from a snapshot will still hand out.         *)
Remaining(s) == From(s.nextIndex) \cup Restored(s)

(* The memory, the store and every write on its way, in whatever order     *)
(* they land, still have every request that was not marked as handled: no  *)
(* crash can lose one.                                                     *)
NothingSkipped ==
    \A r \in Listed \ listDone :
        /\ r \in From(nextIndex) \cup listInProgress
        /\ r \in Remaining(savedState)
        /\ \A p \in Savers : \A s \in saving[p] : r \in Remaining(s)

=============================================================================
