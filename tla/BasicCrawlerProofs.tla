------------------------- MODULE BasicCrawlerProofs -------------------------
(***************************************************************************)
(* Whatever a client of the list does, whenever its state is written and   *)
(* whenever the process is started anew, no request is skipped; and the    *)
(* crawler is such a client, which loses no request between the list and   *)
(* the queue.                                                              *)
(***************************************************************************)
EXTENDS BasicCrawler, FiniteSetTheorems, TLAPS

-----------------------------------------------------------------------------
(* The list.                                                               *)

(* The snapshots that a new process may find in the store.                 *)
Stored == {savedState} \cup UNION {saving[p] : p \in Savers}

(* A snapshot is one of this list and has all that is not handled.         *)
Sound(s) ==
    /\ s.nextIndex \in 0 .. Len(requests)
    /\ s.inProgress \subseteq Listed
    /\ Listed \ listDone \subseteq From(s.nextIndex) \cup s.inProgress

(* The list in memory and every snapshot have all that is not handled.     *)
ListInv ==
    /\ ListTypeOK
    /\ Listed \ listDone \subseteq From(nextIndex) \cup listInProgress
    /\ \A s \in Stored : Sound(s)

-----------------------------------------------------------------------------
(* The listed requests are requests, and all of them lie ahead of index 0. *)
LEMMA ListedRequests ==
    ASSUME requests \in Lists
    PROVE  /\ requests \in Seq(Requests)
           /\ Len(requests) \in Nat
           /\ Listed \subseteq Requests
           /\ From(0) = Listed
           /\ \A n \in Nat : From(n) \subseteq Listed
<1>1. requests \in Seq(Requests)
  BY ListAssumption
<1>2. Len(requests) \in Nat /\ DOMAIN requests = 1 .. Len(requests)
  BY <1>1
<1>3. \A i \in DOMAIN requests : requests[i] \in Requests
  BY <1>1
<1> QED
  BY <1>1, <1>2, <1>3 DEF Listed, From

(* Reading one request moves just this one out of what lies ahead.         *)
LEMMA ReadOne ==
    ASSUME requests \in Lists, NEW n \in Nat, n < Len(requests)
    PROVE  /\ requests[n + 1] \in Listed
           /\ From(n) \subseteq From(n + 1) \cup {requests[n + 1]}
<1>1. Len(requests) \in Nat /\ DOMAIN requests = 1 .. Len(requests)
  BY ListedRequests
<1>2. n + 1 \in DOMAIN requests
  BY <1>1
<1>3. \A j \in DOMAIN requests : j > n => j > n + 1 \/ j = n + 1
  BY <1>1
<1> QED
  BY <1>2, <1>3 DEF Listed, From

(* What is written is sound: a snapshot of the memory always is.           *)
LEMMA StateSound ==
    ASSUME ListInv
    PROVE  Sound(State)
BY DEF ListInv, ListTypeOK, Sound, State

(* A list that begins is not read and its state is the initial one.        *)
LEMMA InitListInv == ListInit => ListInv
<1> SUFFICES ASSUME ListInit
             PROVE  ListInv
  OBVIOUS
<1>1. requests \in Lists
  BY DEF ListInit
<1>2. /\ Len(requests) \in Nat
      /\ From(0) = Listed
  BY <1>1, ListedRequests
<1>3. savedState = [nextIndex |-> 0, inProgress |-> {}]
  BY DEF ListInit, State
<1>4. Stored = {savedState}
  BY DEF ListInit, Stored
<1>5. Sound(savedState)
  BY <1>2, <1>3 DEF Sound
<1>6. savedState \in Snapshots
  BY <1>3 DEF Snapshots
<1>7. ListTypeOK
  BY <1>1, <1>2, <1>6 DEF ListTypeOK, ListInit
<1> QED
  BY <1>2, <1>4, <1>5, <1>7 DEF ListInv, ListInit

(* The steps that leave the store and every write on its way alone.        *)
LEMMA MemoryStep ==
    ASSUME ListInv,
           UNCHANGED <<requests, saving, savedState>>,
           listDone \subseteq listDone',
           ListTypeOK',
           (Listed \ listDone)' \subseteq (From(nextIndex) \cup listInProgress)'
    PROVE  ListInv'
<1>1. Stored' = Stored
  BY DEF Stored
<1>2. Listed' = Listed /\ \A n : From(n)' = From(n)
  BY DEF Listed, From
<1>3. \A s \in Stored : Sound(s)'
  BY <1>2 DEF ListInv, Sound
<1> QED
  BY <1>1, <1>3 DEF ListInv

(* Every operation of the list keeps its invariant.                        *)
LEMMA ListStep == ListInv /\ [ListNext]_listVars => ListInv'
<1> SUFFICES ASSUME ListInv, [ListNext]_listVars
             PROVE  ListInv'
  OBVIOUS
<1>t. ListTypeOK
  BY DEF ListInv
<1>l. /\ requests \in Lists
      /\ Len(requests) \in Nat
      /\ Listed \subseteq Requests
      /\ \A n \in Nat : From(n) \subseteq Listed
  BY <1>t, ListedRequests DEF ListTypeOK
<1>1. ASSUME NEW r \in Requests, FetchReclaimed(r)
      PROVE  ListInv'
  <2>1. ListTypeOK'
    BY <1>1, <1>t DEF FetchReclaimed, ListTypeOK, savingVars, Listed
  <2> QED
    BY <1>1, <2>1, MemoryStep DEF FetchReclaimed, savingVars, ListInv, Listed, From
<1>2. ASSUME NEW r \in Requests, FetchNext(r)
      PROVE  ListInv'
  <2>1. /\ nextIndex \in Nat
        /\ nextIndex < Len(requests)
        /\ r = requests[nextIndex + 1]
    BY <1>2, <1>t, <1>l DEF FetchNext, ListTypeOK
  <2>2. /\ r \in Listed
        /\ From(nextIndex) \subseteq From(nextIndex + 1) \cup {r}
    BY <2>1, <1>l, ReadOne
  <2>3. ListTypeOK'
    <3>1. nextIndex + 1 \in 0 .. Len(requests)
      BY <2>1, <1>l
    <3>2. Listed' = Listed
      BY <1>2 DEF FetchNext, Listed
    <3> QED
      BY <1>2, <1>t, <2>2, <3>1, <3>2 DEF FetchNext, ListTypeOK
  <2>4. Listed' = Listed /\ From(nextIndex)' = From(nextIndex + 1)
    BY <1>2 DEF FetchNext, Listed, From
  <2>5. (Listed \ listDone)' \subseteq (From(nextIndex) \cup listInProgress)'
    BY <1>2, <2>2, <2>4 DEF FetchNext, ListInv
  <2> QED
    BY <1>2, <2>3, <2>5, MemoryStep DEF FetchNext
<1>3. ASSUME NEW r \in Requests, MarkInList(r)
      PROVE  ListInv'
  <2>1. ListTypeOK'
    BY <1>3, <1>t DEF MarkInList, IsProcessed, ListTypeOK, Listed
  <2>2. (Listed \ listDone)' \subseteq (From(nextIndex) \cup listInProgress)'
    BY <1>3 DEF MarkInList, ListInv, Listed, From
  <2> QED
    BY <1>3, <2>1, <2>2, MemoryStep DEF MarkInList
<1>4. ASSUME NEW r \in Requests, ReclaimInList(r)
      PROVE  ListInv'
  <2>1. ListTypeOK'
    BY <1>4, <1>t DEF ReclaimInList, IsProcessed, savingVars, ListTypeOK, Listed
  <2> QED
    BY <1>4, <2>1, MemoryStep DEF ReclaimInList, savingVars, ListInv, Listed, From
<1>5. ASSUME NEW p \in Savers, PersistState(p)
      PROVE  ListInv'
  <2>1. Sound(State)
    BY StateSound
  <2>2. State \in Snapshots
    BY <1>t, <1>l DEF State, Snapshots, ListTypeOK
  <2>3. saving' \in [Savers -> SUBSET Snapshots]
    BY <1>5, <1>t, <2>2 DEF PersistState, ListTypeOK
  <2>4. ListTypeOK'
    BY <1>5, <1>t, <2>3 DEF PersistState, memoryVars, ListTypeOK, Listed
  <2>5. \A s \in Stored' : s \in Stored \/ s = State
    BY <1>5, <1>t DEF PersistState, Stored, ListTypeOK
  <2>6. \A s : Sound(s)' <=> Sound(s)
    BY <1>5 DEF PersistState, memoryVars, Sound, Listed, From
  <2>7. (Listed \ listDone)' \subseteq (From(nextIndex) \cup listInProgress)'
    BY <1>5 DEF PersistState, memoryVars, ListInv, Listed, From
  <2>8. \A s \in Stored' : Sound(s)'
    BY <2>1, <2>5, <2>6 DEF ListInv
  <2> QED
    BY <2>4, <2>7, <2>8 DEF ListInv
<1>6. ASSUME NEW p \in Savers, StatePersisted(p) \/ PersistFails(p)
      PROVE  ListInv'
  <2>1. /\ savedState' \in {savedState} \cup saving[p]
        /\ saving' = [saving EXCEPT ![p] = {}]
        /\ isStatePersisted' \in BOOLEAN
        /\ UNCHANGED <<requests, nextIndex, listInProgress, reclaimed, listDone>>
    BY <1>6, <1>t DEF StatePersisted, PersistFails, memoryVars, ListTypeOK
  <2>2. savedState' \in Snapshots /\ saving' \in [Savers -> SUBSET Snapshots]
    BY <2>1, <1>t DEF ListTypeOK
  <2>3. ListTypeOK'
    BY <1>t, <2>1, <2>2 DEF ListTypeOK, Listed
  <2>4. Stored' \subseteq Stored
    BY <2>1, <1>t DEF Stored, ListTypeOK
  <2>5. \A s : Sound(s)' <=> Sound(s)
    BY <2>1 DEF Sound, Listed, From
  <2> QED
    BY <2>1, <2>3, <2>4, <2>5 DEF ListInv, Listed, From
<1>7. ASSUME RestoreState
      PROVE  ListInv'
  <2>1. Sound(savedState)
    BY DEF ListInv, Stored
  <2>2. /\ nextIndex' = savedState.nextIndex
        /\ listInProgress' = savedState.inProgress \ From(savedState.nextIndex)
        /\ reclaimed' = listInProgress'
        /\ saving' = [p \in Savers |-> {}]
        /\ isStatePersisted' = TRUE
        /\ UNCHANGED <<requests, savedState, listDone>>
    BY <1>7 DEF RestoreState, Restored
  <2>3. ListTypeOK'
    BY <1>t, <2>1, <2>2 DEF ListTypeOK, Sound, Listed
  <2>4. Stored' \subseteq Stored
    BY <2>2 DEF Stored
  <2>5. /\ \A s : Sound(s)' <=> Sound(s)
        /\ Listed' = Listed
        /\ From(nextIndex)' = From(savedState.nextIndex)
    BY <2>2 DEF Sound, Listed, From
  <2>6. (Listed \ listDone)' \subseteq (From(nextIndex) \cup listInProgress)'
    BY <2>1, <2>2, <2>5 DEF Sound
  <2> QED
    BY <2>3, <2>4, <2>5, <2>6 DEF ListInv
<1>8. ASSUME UNCHANGED listVars
      PROVE  ListInv'
  BY <1>8 DEF listVars, memoryVars, savingVars, ListInv, ListTypeOK, Stored, Sound, Listed, From
<1> QED
  BY <1>1, <1>2, <1>3, <1>4, <1>5, <1>6, <1>7, <1>8 DEF ListNext, FetchFromList

(* The invariant says more than NothingSkipped: it also bounds what a      *)
(* snapshot may hold.                                                      *)
LEMMA InvNothingSkipped == ListInv => NothingSkipped
<1> SUFFICES ASSUME ListInv, NEW r \in Listed \ listDone
             PROVE  /\ r \in From(nextIndex) \cup listInProgress
                    /\ r \in Remaining(savedState)
                    /\ \A p \in Savers : \A s \in saving[p] : r \in Remaining(s)
  BY DEF NothingSkipped
<1>1. \A s \in Stored : r \in Remaining(s)
  BY DEF ListInv, Sound, Remaining, Restored
<1> QED
  BY <1>1 DEF Stored, ListInv

-----------------------------------------------------------------------------
(* The list keeps its types, and every snapshot in the store or on its way *)
(* to it is one that a new process accepts (_restoreState).                *)
THEOREM ListInvHolds == ListSpec => []ListInv
BY InitListInv, ListStep, PTL DEF ListSpec

(* However fetching, marking, reclaiming, overlapping or failed writes of  *)
(* the state and restarts follow each other: a request that was not marked *)
(* as handled is in the memory and in every state a restart could find.    *)
THEOREM NothingSkippedHolds == ListSpec => []NothingSkipped
BY ListInvHolds, InvNothingSkipped, PTL

-----------------------------------------------------------------------------
(* The crawler.                                                            *)

(* The states of a task.                                                   *)
TaskStates ==
    [pc : {"idle", "fetching", "fetched", "handling", "marking", "reclaiming",
           "givingUp", "reporting", "failed"},
     source : Sources, request : Requests \cup {None}, context : Requests \cup {None},
     fromList : BOOLEAN, retryCount : Nat, noRetry : BOOLEAN, tries : Nat]

(* The states of a call.                                                   *)
ChainStates ==
    [pc : {"none", "listed", "adding", "added", "taking"},
     item : Requests \cup {None}, mine : BOOLEAN]

(* The types that the arguments below need.                                *)
TasksTyped ==
    /\ status \in [Requests -> {"absent", "pending", "handled"}]
    /\ storedRetries \in [Requests -> Nat]
    /\ listRetries \in [Requests -> Nat]
    /\ task \in [Tasks -> TaskStates]
    /\ chain \in [Tasks -> [Calls -> ChainStates]]

(* The queue knows the request.                                            *)
Queued(r) == r \in Requests => status[r] # "absent"

(* What the list was told to forget is in the queue, or was processed or   *)
(* given up.                                                               *)
ForgottenKept == \A r \in listDone : Queued(r) \/ r \in processed \cup gaveUp

(* What a task may still mark in the list: the request of its context, or  *)
(* another one that a late fetch took from the queue.                      *)
MarksKept ==
    \A w \in Tasks :
        /\ task[w].pc \in {"handling", "marking"} =>
              \/ task[w].request \in {None, task[w].context}
              \/ Queued(task[w].request)
        /\ task[w].pc = "marking" => task[w].context \in processed
        /\ task[w].pc = "givingUp" => task[w].context \in gaveUp

(* What a fetch will mark in the list is in the queue; a fetch that timed  *)
(* out has been past the list.                                             *)
FetchesKept ==
    \A w \in Tasks :
        /\ \A c \in Calls :
              chain[w][c].pc = "added" => Queued(chain[w][c].item)
        /\ chain[w]["late"].pc # "listed"

(* Together.                                                               *)
Kept == ForgottenKept /\ MarksKept /\ FetchesKept

(* The inductive invariant.                                                *)
CrawlerInv == ListInv /\ TasksTyped /\ Kept

-----------------------------------------------------------------------------
(* Every step of the crawler is a step of the list or leaves it alone.     *)
LEMMA ListClient == ListTypeOK /\ [Next]_vars => [ListNext]_listVars
<1> SUFFICES ASSUME ListTypeOK, [Next]_vars
             PROVE  [ListNext]_listVars
  OBVIOUS
<1>m. \A r : MarkInList(r) \/ ReclaimInList(r) => r \in Requests
  BY ListedRequests DEF ListTypeOK, MarkInList, ReclaimInList, IsProcessed
<1>1. \A r : MarkInList(r) \/ ReclaimInList(r) => ListNext
  BY <1>m DEF ListNext
<1>2. \A item \in Requests \cup {None} : Reads(item) => ListNext \/ UNCHANGED listVars
  BY DEF Reads, ListNext
<1>3. ASSUME PoolSteps
      PROVE  UNCHANGED listVars
  BY <1>3 DEF PoolSteps, AskReady, NotReady, FinishAnswered, QueryFails, PauseOnMigration
<1>4. ASSUME NEW w \in Tasks, NEW old, FetchesAgain(w, old)
      PROVE  ListNext \/ UNCHANGED listVars
  BY <1>2, <1>4 DEF FetchesAgain
<1>5. ASSUME NEW w \in Tasks, NEW c \in Calls, FetchSteps(w, c)
      PROVE  ListNext \/ UNCHANGED listVars
  BY <1>1, <1>4, <1>5
     DEF FetchSteps, ListAnswered, AddReaches, AddReturns, AddFails, TakeNothing, Take, FetchFails
<1>6. ASSUME NEW w \in Tasks, TaskSteps(w)
      PROVE  ListNext \/ UNCHANGED listVars
  <2>1. ASSUME NEW r, SourceMarks(w, r) \/ SourceReclaims(w, r)
        PROVE  ListNext \/ UNCHANGED listVars
    BY <1>1, <2>1 DEF SourceMarks, SourceReclaims
  <2>2. CASE StartTask(w)
    BY <1>2, <2>2 DEF StartTask
  <2>3. CASE FetchTimesOut(w)
    BY <1>4, <2>3 DEF FetchTimesOut
  <2>4. CASE StartJob(w) \/ SessionFails(w) \/ (\E r \in Linked : HandlerAdds(w, r))
    BY <2>4 DEF StartJob, SessionFails, HandlerAdds
  <2>5. CASE HandlerReturns(w) \/ \E noRetry \in BOOLEAN : HandlerThrows(w, noRetry)
    BY <2>5 DEF HandlerReturns, HandlerThrows
  <2>6. CASE MarkReturns(w) \/ ReclaimReturns(w) \/ GiveUpReturns(w)
    BY <2>1, <2>6 DEF MarkReturns, ReclaimReturns, GiveUpReturns
  <2>7. CASE MarkThrows(w) \/ SourceFailsError(w) \/ FailureReported(w) \/ ReportFails(w)
    BY <2>7 DEF MarkThrows, SourceFailsError, FailureReported, ReportFails
  <2> QED
    BY <1>6, <2>2, <2>3, <2>4, <2>5, <2>6, <2>7 DEF TaskSteps
<1>7. ASSUME NEW p \in Savers, Persists(p)
      PROVE  ListNext
  BY <1>7 DEF Persists, ListNext
<1>8. ASSUME Restart
      PROVE  ListNext
  BY <1>8 DEF Restart, ListNext
<1> QED
  BY <1>3, <1>5, <1>6, <1>7, <1>8 DEF Next, vars

(* The list of a crawler is a RequestList whose callers keep its rules:    *)
(* what is proved of the list holds of the list of a crawler.              *)
THEOREM CrawlerUsesList == CrawlerSpec => ListSpec /\ []NothingSkipped
<1>1. CrawlerInit => ListInit
  BY DEF CrawlerInit
<1>2. ListInit => ListInv
  BY InitListInv
<1>3. ListInv /\ [Next]_vars => [ListNext]_listVars
  BY ListClient DEF ListInv
<1>4. ListInv /\ [ListNext]_listVars => ListInv'
  BY ListStep
<1> QED
  BY <1>1, <1>2, <1>3, <1>4, InvNothingSkipped, PTL DEF CrawlerSpec, ListSpec

-----------------------------------------------------------------------------
(* What a task w may become when it goes on as t with the calls x.         *)
TaskKept(t) ==
    /\ t.pc \in {"handling", "marking"} =>
          t.request \in {None, t.context} \/ Queued(t.request)
    /\ t.pc = "marking" => t.context \in processed
    /\ t.pc = "givingUp" => t.context \in gaveUp

(* What a call may become.                                                 *)
CallsKept(x) ==
    /\ \A c \in Calls : x[c].pc = "added" => Queued(x[c].item)
    /\ x["late"].pc # "listed"

(* The queue forgets no request.                                           *)
QueueAdds ==
    /\ status' \in [Requests -> {"absent", "pending", "handled"}]
    /\ storedRetries' \in [Requests -> Nat]
    /\ \A r : Queued(r) => Queued(r)'

(* A step may only add to what is in the queue, processed or given up, and *)
(* the list forgets nothing else.                                          *)
Adds ==
    /\ QueueAdds
    /\ listRetries' \in [Requests -> Nat]
    /\ processed \subseteq processed'
    /\ gaveUp \subseteq gaveUp'
    /\ \A r \in listDone' : r \in listDone \/ Queued(r)' \/ r \in processed' \cup gaveUp'

(* A step of the pool that moves no task and no call.                      *)
LEMMA PoolStep ==
    ASSUME TasksTyped, Kept, Adds, UNCHANGED <<task, chain>>
    PROVE  TasksTyped' /\ Kept'
BY DEF TasksTyped, Adds, QueueAdds, Kept, ForgottenKept, MarksKept, FetchesKept

(* A step in which one task and its calls move to kept ones.               *)
LEMMA TaskStep ==
    ASSUME TasksTyped, Kept, Adds,
           NEW w \in Tasks, NEW t \in TaskStates, NEW x \in [Calls -> ChainStates],
           task' = [task EXCEPT ![w] = t], chain' = [chain EXCEPT ![w] = x],
           TaskKept(t)', CallsKept(x)'
    PROVE  TasksTyped' /\ Kept'
<1>1. TasksTyped'
  BY DEF TasksTyped, Adds, QueueAdds
<1>2. ForgottenKept'
  BY DEF Kept, ForgottenKept, Adds, QueueAdds
<1>3. \A v \in Tasks : task'[v] = IF v = w THEN t ELSE task[v]
  BY DEF TasksTyped
<1>4. \A v \in Tasks : chain'[v] = IF v = w THEN x ELSE chain[v]
  BY DEF TasksTyped
<1>5. MarksKept'
  BY <1>3 DEF Kept, MarksKept, TaskKept, Adds, QueueAdds
<1>6. FetchesKept'
  BY <1>4 DEF Kept, FetchesKept, CallsKept, Adds, QueueAdds
<1> QED
  BY <1>1, <1>2, <1>5, <1>6 DEF Kept

(* The task w goes on so that what it may do to the list is kept.          *)
Moves(w) ==
    \E t \in TaskStates, x \in [Calls -> ChainStates] :
        /\ task' = [task EXCEPT ![w] = t]
        /\ chain' = [chain EXCEPT ![w] = x]
        /\ TaskKept(t)'
        /\ CallsKept(x)'

(* A task that moves, as Moves says, keeps both parts.                     *)
LEMMA MovesKeep ==
    ASSUME TasksTyped, Kept, Adds, NEW w \in Tasks, Moves(w)
    PROVE  TasksTyped' /\ Kept'
BY TaskStep DEF Moves

(* A task and its calls as they are, and that they are still kept when     *)
(* neither moves.                                                          *)
LEMMA TaskNow ==
    ASSUME TasksTyped, Kept, NEW w \in Tasks
    PROVE  /\ task[w] \in TaskStates
           /\ chain[w] \in [Calls -> ChainStates]
           /\ task = [task EXCEPT ![w] = task[w]]
           /\ chain = [chain EXCEPT ![w] = chain[w]]
           /\ TaskKept(task[w])
           /\ CallsKept(chain[w])
BY DEF TasksTyped, Kept, MarksKept, FetchesKept, TaskKept, CallsKept

(* What was kept stays kept while the histories only grow.                 *)
LEMMA StillKept ==
    ASSUME Adds
    PROVE  /\ \A t : TaskKept(t) => TaskKept(t)'
           /\ \A x : CallsKept(x) => CallsKept(x)'
BY DEF Adds, QueueAdds, TaskKept, CallsKept

(* The task moves and makes no call.                                       *)
LEMMA MovesAlone ==
    ASSUME TasksTyped, Kept, Adds, NEW w \in Tasks, NEW t \in TaskStates,
           task' = [task EXCEPT ![w] = t], UNCHANGED chain, TaskKept(t)'
    PROVE  Moves(w)
<1>1. PICK x \in [Calls -> ChainStates] : x = chain[w] /\ CallsKept(x)
  BY TaskNow
<1>2. CallsKept(x)'
  BY <1>1, StillKept
<1>3. chain' = [chain EXCEPT ![w] = x]
  BY <1>1, TaskNow
<1> QED
  BY <1>2, <1>3 DEF Moves

(* A call moves and the task does not.                                     *)
LEMMA CallsMove ==
    ASSUME TasksTyped, Kept, Adds, NEW w \in Tasks, NEW x \in [Calls -> ChainStates],
           chain' = [chain EXCEPT ![w] = x], UNCHANGED task, CallsKept(x)'
    PROVE  Moves(w)
<1>1. PICK t \in TaskStates : t = task[w] /\ TaskKept(t)
  BY TaskNow
<1>2. TaskKept(t)'
  BY <1>1, StillKept
<1>3. task' = [task EXCEPT ![w] = t]
  BY <1>1, TaskNow
<1> QED
  BY <1>2, <1>3 DEF Moves

(* No call in flight.                                                      *)
LEMMA NoChainTyped == NoChain \in ChainStates /\ NoChain.pc = "none"
BY DEF NoChain, ChainStates

(* The task that starts afresh.                                            *)
LEMMA IdleTyped == IdleTask \in TaskStates /\ IdleTask.pc = "idle"
BY DEF IdleTask, TaskStates, Sources

(* A task that failed, whatever it was doing.                              *)
LEMMA FailedTyped ==
    /\ [IdleTask EXCEPT !.pc = "failed"] \in TaskStates
    /\ [IdleTask EXCEPT !.pc = "failed"].pc = "failed"
BY DEF IdleTask, TaskStates, Sources

(* A task that makes another attempt at its storage call.                  *)
LEMMA TriesTyped ==
    ASSUME NEW t \in TaskStates, NEW n \in Nat
    PROVE  /\ [t EXCEPT !.tries = n] \in TaskStates
           /\ TaskKept(t) => TaskKept([t EXCEPT !.tries = n])
BY DEF TaskStates, TaskKept

(* A call that starts.                                                     *)
LEMMA FetchingTyped ==
    ASSUME NEW item \in Requests \cup {None}
    PROVE  Fetching(item, TRUE) \in ChainStates /\ Fetching(item, TRUE).pc = "listed"
BY DEF Fetching, ChainStates

(* The two calls of a task, each typed, together.                          *)
LEMMA BothTyped ==
    ASSUME NEW a \in ChainStates, NEW b \in ChainStates
    PROVE  /\ Both(a, b) \in [Calls -> ChainStates]
           /\ Both(a, b)["main"] = a
           /\ Both(a, b)["late"] = b
BY DEF Both, Calls

(* A call its task gave up on.                                             *)
LEMMA DisownedTyped ==
    ASSUME NEW a \in ChainStates
    PROVE  /\ Disowned(a) \in ChainStates
           /\ Disowned(a).pc = a.pc
           /\ Disowned(a).item = a.item
BY DEF Disowned, ChainStates

(* The calls of a task whose fetch is over, or fails.                      *)
LEMMA OverKept ==
    ASSUME Adds, NEW old \in ChainStates,
           old.pc # "listed", old.pc = "added" => Queued(old.item)
    PROVE  /\ Both(NoChain, Disowned(old)) \in [Calls -> ChainStates]
           /\ \A x : x = Both(NoChain, Disowned(old)) => CallsKept(x)'
<1>1. PICK x : x = Both(NoChain, Disowned(old))
  OBVIOUS
<1>2. /\ x \in [Calls -> ChainStates]
      /\ x["main"] = NoChain
      /\ x["late"] = Disowned(old)
  BY <1>1, NoChainTyped, DisownedTyped, BothTyped
<1>3. CallsKept(x)
  BY <1>2, NoChainTyped, DisownedTyped DEF CallsKept, Calls
<1> QED
  BY <1>1, <1>2, <1>3, StillKept

(* The task leaves, idle or failed.                                        *)
LEMMA LeavesMove ==
    ASSUME TasksTyped, Kept, Adds, NEW w \in Tasks, NEW t \in TaskStates,
           t.pc \in {"idle", "failed"}, Leaves(w, t)
    PROVE  Moves(w)
<1>1. PICK old \in ChainStates :
          /\ old = chain[w]["late"]
          /\ old.pc # "listed"
          /\ old.pc = "added" => Queued(old.item)
  BY TaskNow DEF CallsKept, Calls
<1>2. PICK x \in [Calls -> ChainStates] :
          x = Both(NoChain, Disowned(old)) /\ CallsKept(x)'
  BY <1>1, OverKept
<1>3. chain' = [chain EXCEPT ![w] = x]
  BY <1>1, <1>2 DEF Leaves
<1> QED
  BY <1>2, <1>3 DEF Leaves, Moves, TaskKept

(* A task that ends, its open call disowned, moves.                        *)
LEMMA EndsMoves ==
    ASSUME TasksTyped, Kept, Adds, NEW w \in Tasks, Ends(w) \/ Dies(w)
    PROVE  Moves(w)
<1>1. CASE Ends(w)
  BY <1>1, LeavesMove, IdleTyped DEF Ends
<1>2. CASE Dies(w)
  BY <1>2, LeavesMove, FailedTyped DEF Dies
<1> QED
  BY <1>1, <1>2

(* _fetchNextRequest is called again, or was called too often.             *)
LEMMA FetchesAgainMoves ==
    ASSUME TasksTyped, Kept, Adds, NEW w \in Tasks, NEW old \in ChainStates,
           old.pc # "listed", old.pc = "added" => Queued(old.item),
           FetchesAgain(w, old)
    PROVE  Moves(w)
<1>1. CASE \E item \in Requests \cup {None} :
              /\ task' = [task EXCEPT ![w].tries = @ + 1]
              /\ chain' = [chain EXCEPT ![w] = Both(Fetching(item, TRUE), old)]
  <2>1. PICK item \in Requests \cup {None} :
              /\ task' = [task EXCEPT ![w].tries = @ + 1]
              /\ chain' = [chain EXCEPT ![w] = Both(Fetching(item, TRUE), old)]
    BY <1>1
  <2>2. PICK f \in ChainStates : f = Fetching(item, TRUE) /\ f.pc = "listed"
    BY FetchingTyped
  <2>3. PICK x \in [Calls -> ChainStates] :
            x = Both(f, old) /\ x["main"] = f /\ x["late"] = old
    BY <2>2, BothTyped
  <2>4. CallsKept(x)'
    <3>1. CallsKept(x)
      BY <2>2, <2>3 DEF CallsKept, Calls
    <3> QED
      BY <3>1, StillKept
  <2>n. task[w] \in TaskStates /\ TaskKept(task[w]) /\ task[w].tries + 1 \in Nat
    BY TaskNow DEF TaskStates
  <2>5. PICK t \in TaskStates :
            t = [task[w] EXCEPT !.tries = task[w].tries + 1] /\ TaskKept(t)
    BY <2>n, TriesTyped
  <2>6. TaskKept(t)'
    BY <2>5, StillKept
  <2>7. task' = [task EXCEPT ![w] = t] /\ chain' = [chain EXCEPT ![w] = x]
    BY <2>1, <2>2, <2>3, <2>5
  <2> QED
    BY <2>4, <2>6, <2>7 DEF Moves
<1>2. CASE /\ task' = [task EXCEPT ![w] = [IdleTask EXCEPT !.pc = "failed"]]
           /\ chain' = [chain EXCEPT ![w] = Both(NoChain, Disowned(old))]
  <2>1. PICK x \in [Calls -> ChainStates] :
            x = Both(NoChain, Disowned(old)) /\ CallsKept(x)'
    BY OverKept
  <2>2. PICK t \in TaskStates : t = [IdleTask EXCEPT !.pc = "failed"] /\ t.pc = "failed"
    BY FailedTyped
  <2> QED
    BY <1>2, <2>1, <2>2 DEF Moves, TaskKept
<1> QED
  BY <1>1, <1>2 DEF FetchesAgain

(* A call that goes to its next await.                                     *)
LEMMA PlaceTyped ==
    ASSUME NEW a \in ChainStates, NEW place \in {"adding", "added", "taking"}
    PROVE  /\ [a EXCEPT !.pc = place] \in ChainStates
           /\ [a EXCEPT !.pc = place].pc = place
           /\ [a EXCEPT !.pc = place].item = a.item
BY DEF ChainStates

(* A task whose request arrived.                                           *)
LEMMA FetchedTyped ==
    ASSUME NEW t \in TaskStates, NEW r \in Requests \cup {None}, NEW b \in BOOLEAN
    PROVE  LET u == [t EXCEPT !.pc = "fetched", !.request = r, !.tries = 0, !.fromList = b]
           IN  u \in TaskStates /\ u.pc = "fetched"
BY DEF TaskStates

(* The same, with a request that is there.                                 *)
LEMMA RequestTyped ==
    ASSUME NEW t \in TaskStates, NEW r \in Requests \cup {None}
    PROVE  LET u == [t EXCEPT !.request = r]
           IN  u \in TaskStates /\ u.pc = t.pc /\ u.request = r /\ u.context = t.context
BY DEF TaskStates

(* A call of w goes on to another place.                                   *)
LEMMA GoesMoves ==
    ASSUME TasksTyped, Kept, Adds, NEW w \in Tasks, NEW c \in Calls,
           NEW place \in {"adding", "added", "taking"}, Goes(w, c, place),
           place = "added" => \A r : r = chain[w][c].item => Queued(r)'
    PROVE  Moves(w)
<1>1. chain[w] \in [Calls -> ChainStates] /\ CallsKept(chain[w])
  BY TaskNow
<1>2. PICK a \in ChainStates :
          /\ a = [chain[w][c] EXCEPT !.pc = place]
          /\ a.pc = place /\ a.item = chain[w][c].item
  <2>1. chain[w][c] \in ChainStates
    BY <1>1
  <2> QED
    BY <2>1, PlaceTyped
<1>3. PICK x \in [Calls -> ChainStates] : x = [chain[w] EXCEPT ![c] = a]
  BY <1>1
<1>4. chain' = [chain EXCEPT ![w] = x]
  BY <1>2, <1>3 DEF Goes, TasksTyped
<1>5. CallsKept(x)'
  BY <1>1, <1>2, <1>3 DEF CallsKept, Calls, Adds, QueueAdds
<1> QED
  BY <1>3, <1>4, <1>5, CallsMove DEF Goes

(* A call of w returns: nothing, what the queue has, or to its own task.   *)
LEMMA ReturnsMoves ==
    ASSUME TasksTyped, Kept, Adds, NEW w \in Tasks, NEW c \in Calls,
           NEW r \in Requests \cup {None}, Returns(w, c, r),
           r = None \/ c = "main" \/ Queued(r)
    PROVE  Moves(w)
<1>1. PICK x \in [Calls -> ChainStates] :
          x = [chain[w] EXCEPT ![c] = NoChain] /\ CallsKept(x)'
  <2>1. chain[w] \in [Calls -> ChainStates] /\ CallsKept(chain[w])
    BY TaskNow
  <2>2. [chain[w] EXCEPT ![c] = NoChain] \in [Calls -> ChainStates]
    BY <2>1, NoChainTyped
  <2>3. CallsKept([chain[w] EXCEPT ![c] = NoChain])
    BY <2>1, NoChainTyped DEF CallsKept, Calls
  <2> QED
    BY <2>2, <2>3, StillKept
<1>2. chain' = [chain EXCEPT ![w] = x]
  BY <1>1 DEF Returns, TasksTyped
<1>3. task[w] \in TaskStates /\ TaskKept(task[w])
  BY TaskNow
<1>4. CASE c = "main"
  <2>1. PICK t \in TaskStates :
            /\ t = [task[w] EXCEPT !.pc = "fetched", !.request = r, !.tries = 0,
                                   !.fromList = ~hasQueue]
            /\ t.pc = "fetched"
    <3>1. (~hasQueue) \in BOOLEAN
      OBVIOUS
    <3> QED
      BY <1>3, <3>1, FetchedTyped
  <2>2. task' = [task EXCEPT ![w] = t]
    BY <1>4, <2>1 DEF Returns
  <2> QED
    BY <1>1, <1>2, <2>1, <2>2 DEF Moves, TaskKept
<1>5. CASE c # "main" /\ chain[w][c].mine
  <2>1. PICK t \in TaskStates :
            /\ t = [task[w] EXCEPT !.request = r]
            /\ t.pc = task[w].pc /\ t.request = r /\ t.context = task[w].context
    BY <1>3, RequestTyped
  <2>2. TaskKept(t)
    BY <1>3, <1>5, <2>1 DEF TaskKept
  <2>3. task' = [task EXCEPT ![w] = t]
    BY <1>5, <2>1 DEF Returns
  <2> QED
    BY <1>1, <1>2, <2>2, <2>3, StillKept DEF Moves
<1>6. CASE c # "main" /\ ~chain[w][c].mine
  <2>1. UNCHANGED task
    BY <1>6 DEF Returns
  <2> QED
    BY <1>1, <1>2, <2>1, CallsMove
<1> QED
  BY <1>4, <1>5, <1>6

-----------------------------------------------------------------------------
(* The steps of a fetch.                                                   *)
LEMMA AddsNothing ==
    ASSUME TasksTyped, UNCHANGED <<status, storedRetries, listRetries, processed, gaveUp>>,
           listDone' \subseteq listDone
    PROVE  Adds
BY DEF TasksTyped, Adds, QueueAdds, Queued

(* Reading from the list marks nothing there.                              *)
LEMMA ReadsForgetsNothing ==
    ASSUME NEW item, Reads(item)
    PROVE  UNCHANGED listDone
BY DEF Reads, FetchFromList, FetchReclaimed, FetchNext, listVars

(* What the invariant says of one call: a late one is past the list.       *)
LEMMA LateCallsKept ==
    ASSUME TasksTyped, Kept, NEW w \in Tasks, NEW c \in Calls
    PROVE  /\ chain[w][c] \in ChainStates
           /\ chain[w][c].item \in Requests \cup {None}
           /\ chain[w][c].pc = "added" => Queued(chain[w][c].item)
           /\ c = "late" => chain[w][c].pc # "listed"
BY DEF TasksTyped, Kept, FetchesKept, ChainStates

(* The steps of fetchNextRequest, the task's own and a late one's.         *)
LEMMA FetchStep ==
    ASSUME TasksTyped, Kept, NEW w \in Tasks, NEW c \in Calls, FetchSteps(w, c)
    PROVE  TasksTyped' /\ Kept'
<1> USE LateCallsKept
<1>1. CASE ListAnswered(w, c)
  <2>1. Adds
    BY <1>1, AddsNothing DEF ListAnswered, listVars, queueVars, historyVars
  <2>2. CASE Returns(w, c, chain[w][c].item)
    BY <1>1, <2>1, <2>2, ReturnsMoves, MovesKeep DEF ListAnswered, Calls
  <2>3. CASE Goes(w, c, "adding") \/ Goes(w, c, "taking")
    BY <2>1, <2>3, GoesMoves, MovesKeep
  <2> QED
    BY <1>1, <2>2, <2>3 DEF ListAnswered
<1>2. CASE AddReaches(w, c)
  <2>1. PICK r \in Requests \cup {None} : r = chain[w][c].item
    OBVIOUS
  <2>2. AddTo(r) /\ Goes(w, c, "added")
    BY <1>2, <2>1 DEF AddReaches
  <2>3. Adds /\ Queued(r)'
    <3>1. UNCHANGED <<listRetries, processed, gaveUp, listDone>>
      BY <1>2 DEF AddReaches, listVars, historyVars
    <3>2. CASE status[r] = "absent"
      <4>1. /\ status' = [status EXCEPT ![r] = "pending"]
            /\ storedRetries' = [storedRetries EXCEPT ![r] = listRetries[r]]
        BY <2>2, <3>2 DEF AddTo
      <4>2. status' \in [Requests -> {"absent", "pending", "handled"}]
        BY <4>1 DEF TasksTyped
      <4>3. storedRetries' \in [Requests -> Nat]
        BY <4>1 DEF TasksTyped
      <4>4. (\A x : Queued(x) => Queued(x)') /\ Queued(r)'
        BY <4>1 DEF TasksTyped, Queued
      <4> QED
        BY <3>1, <4>2, <4>3, <4>4 DEF Adds, QueueAdds, TasksTyped
    <3>3. CASE status[r] # "absent"
      BY <2>2, <3>1, <3>3, AddsNothing DEF AddTo, Queued
    <3> QED
      BY <3>2, <3>3
  <2> QED
    BY <2>1, <2>2, <2>3, GoesMoves, MovesKeep
<1>3. CASE AddReturns(w, c)
  <2>1. Adds
    BY <1>3 DEF AddReturns, MarkInList, Adds, QueueAdds, TasksTyped, Queued, queueVars, historyVars
  <2> QED
    BY <1>3, <2>1, GoesMoves, MovesKeep DEF AddReturns
<1>4. CASE AddFails(w, c)
  <2>1. Adds
    BY <1>4, AddsNothing DEF AddFails, ReclaimInList, queueVars, historyVars
  <2> QED
    BY <1>4, <2>1, ReturnsMoves, MovesKeep DEF AddFails
<1>5. CASE TakeNothing(w, c)
  <2>1. Adds
    BY <1>5, AddsNothing DEF TakeNothing, listVars, queueVars, historyVars
  <2> QED
    BY <1>5, <2>1, ReturnsMoves, MovesKeep DEF TakeNothing
<1>6. CASE \E r \in Requests : Take(w, c, r)
  <2>1. PICK r \in Requests : Take(w, c, r)
    BY <1>6
  <2>2. Adds
    BY <2>1, AddsNothing DEF Take, listVars, historyVars
  <2>3. Queued(r)
    BY <2>1 DEF Take, Available, Queued
  <2> QED
    BY <2>1, <2>2, <2>3, ReturnsMoves, MovesKeep DEF Take
<1>7. CASE FetchFails(w, c)
  <2>1. CASE c = "main" /\ FetchesAgain(w, chain[w]["late"])
    <3>1. Adds
      BY <1>7, <2>1, ReadsForgetsNothing, AddsNothing
         DEF FetchFails, FetchesAgain, listVars, queueVars, historyVars
    <3>2. /\ chain[w]["late"] \in ChainStates
          /\ chain[w]["late"].pc = "added" => Queued(chain[w]["late"].item)
          /\ chain[w]["late"].pc # "listed"
      BY DEF Calls
    <3> QED
      BY <2>1, <3>1, <3>2, FetchesAgainMoves, MovesKeep
  <2>2. CASE chain' = [chain EXCEPT ![w][c] = NoChain] /\ UNCHANGED <<task, listVars>>
    <3>1. Adds
      BY <1>7, <2>2, AddsNothing DEF FetchFails, listVars, queueVars, historyVars
    <3>2. PICK x \in [Calls -> ChainStates] : x = [chain[w] EXCEPT ![c] = NoChain]
      BY NoChainTyped DEF TasksTyped
    <3>3. CallsKept(x)
      BY <3>2, NoChainTyped, TaskNow DEF CallsKept
    <3>4. chain' = [chain EXCEPT ![w] = x]
      BY <2>2, <3>2 DEF TasksTyped
    <3> QED
      BY <2>2, <3>1, <3>3, <3>4, StillKept, CallsMove, MovesKeep
  <2> QED
    BY <1>7, <2>1, <2>2 DEF FetchFails
<1> QED
  BY <1>1, <1>2, <1>3, <1>4, <1>5, <1>6, <1>7 DEF FetchSteps

-----------------------------------------------------------------------------
(* The steps of a task.                                                    *)
LEMMA HandlesErrorStep ==
    ASSUME TasksTyped, Kept, NEW w \in Tasks, NEW t \in TaskStates, NEW tries \in Nat,
           HandlesError(w, t, tries),
           UNCHANGED <<chain, processed, listDone>>, QueueAdds
    PROVE  TasksTyped' /\ Kept'
<1>1. CASE ShouldRetry(t)
  <2>n. PICK n \in Nat : n = t.retryCount + 1
    <3>1. t.retryCount \in Nat
      BY DEF TaskStates
    <3> QED
      BY <3>1
  <2>1. LET u == [t EXCEPT !.pc = "reclaiming", !.retryCount = n, !.tries = tries]
        IN  u \in TaskStates /\ u.pc = "reclaiming"
    BY DEF TaskStates
  <2>2. PICK u \in TaskStates :
            /\ u = [t EXCEPT !.pc = "reclaiming", !.retryCount = n, !.tries = tries]
            /\ u.pc = "reclaiming"
    BY <2>1
  <2>3. task' = [task EXCEPT ![w] = u] /\ UNCHANGED gaveUp
    BY <1>1, <2>n, <2>2 DEF HandlesError
  <2>4. listRetries' \in [Requests -> Nat]
    <3>1. listRetries' \in {listRetries, [listRetries EXCEPT ![t.context] = n]}
      BY <1>1, <2>n DEF HandlesError
    <3> QED
      BY <3>1 DEF TasksTyped
  <2>5. Adds
    BY <2>3, <2>4 DEF Adds, QueueAdds, TasksTyped, Queued
  <2>6. TaskKept(u)'
    BY <2>2 DEF TaskKept
  <2> QED
    BY <2>3, <2>5, <2>6, MovesAlone, MovesKeep
<1>2. CASE ~ShouldRetry(t)
  <2>1. LET u == [t EXCEPT !.pc = "givingUp", !.tries = tries]
        IN  u \in TaskStates /\ u.pc = "givingUp" /\ u.context = t.context
    BY DEF TaskStates
  <2>2. PICK u \in TaskStates :
            /\ u = [t EXCEPT !.pc = "givingUp", !.tries = tries]
            /\ u.pc = "givingUp" /\ u.context = t.context
    BY <2>1
  <2>3. /\ task' = [task EXCEPT ![w] = u]
        /\ gaveUp' = gaveUp \cup {t.context}
        /\ UNCHANGED listRetries
    BY <1>2, <2>2 DEF HandlesError
  <2>4. Adds
    BY <2>3 DEF Adds, QueueAdds, TasksTyped, Queued
  <2>5. TaskKept(u)'
    BY <2>2, <2>3 DEF TaskKept
  <2> QED
    BY <2>3, <2>4, <2>5, MovesAlone, MovesKeep
<1> QED
  BY <1>1, <1>2

(* The task ends or throws.                                                *)
LEMMA DiesStep ==
    ASSUME TasksTyped, Kept, NEW w \in Tasks, Dies(w) \/ Ends(w), Adds
    PROVE  TasksTyped' /\ Kept'
BY EndsMoves, MovesKeep

(* _runTaskFunction starts.                                                *)
LEMMA StartTaskStep ==
    ASSUME TasksTyped, Kept, NEW w \in Tasks, StartTask(w)
    PROVE  TasksTyped' /\ Kept'
<1>1. PICK item \in Requests \cup {None} :
          /\ Reads(item)
          /\ chain' = [chain EXCEPT ![w]["main"] = Fetching(item, TRUE)]
  BY DEF StartTask
<1>2. Adds
  BY <1>1, ReadsForgetsNothing, AddsNothing DEF StartTask, queueVars, historyVars
<1>3. PICK f \in ChainStates : f = Fetching(item, TRUE) /\ f.pc = "listed"
  BY FetchingTyped
<1>4. PICK x \in [Calls -> ChainStates] : x = [chain[w] EXCEPT !["main"] = f]
  BY DEF TasksTyped
<1>5. CallsKept(x)
  BY <1>3, <1>4, TaskNow DEF CallsKept, Calls
<1>6. chain' = [chain EXCEPT ![w] = x]
  BY <1>1, <1>3, <1>4 DEF TasksTyped
<1>7. PICK source \in Sources : source = IF hasQueue THEN "queue" ELSE "list"
  BY DEF Sources
<1>8. PICK t \in TaskStates :
          t = [IdleTask EXCEPT !.pc = "fetching", !.source = source] /\ t.pc = "fetching"
  <2>1. LET u == [IdleTask EXCEPT !.pc = "fetching", !.source = source]
        IN  u \in TaskStates /\ u.pc = "fetching"
    BY DEF IdleTask, TaskStates
  <2> QED
    BY <2>1
<1>9. task' = [task EXCEPT ![w] = t]
  BY <1>7, <1>8 DEF StartTask
<1> QED
  BY <1>2, <1>5, <1>6, <1>8, <1>9, StillKept, MovesKeep DEF Moves, TaskKept

(* The handler starts with the fetched request.                            *)
LEMMA StartJobStep ==
    ASSUME TasksTyped, Kept, NEW w \in Tasks, StartJob(w)
    PROVE  TasksTyped' /\ Kept'
<1>1. Adds
  BY AddsNothing DEF StartJob, listVars, queueVars
<1>2. CASE task[w].request = None
  BY <1>1, <1>2, DiesStep DEF StartJob
<1>3. CASE task[w].request # None
  <2>1. PICK n \in Nat, r \in Requests :
            /\ r = task[w].request
            /\ n = IF task[w].fromList THEN listRetries[r] ELSE storedRetries[r]
    BY <1>3 DEF TasksTyped, TaskStates
  <2>2. LET u == [task[w] EXCEPT !.pc = "handling", !.context = r, !.tries = 0,
                                 !.retryCount = n]
        IN  u \in TaskStates /\ u.pc = "handling" /\ u.request = r /\ u.context = r
    BY <2>1 DEF TasksTyped, TaskStates
  <2>3. PICK t \in TaskStates :
            /\ t = [task[w] EXCEPT !.pc = "handling", !.context = r, !.tries = 0,
                                   !.retryCount = n]
            /\ t.pc = "handling" /\ t.request = r /\ t.context = r
    BY <2>2
  <2>4. task' = [task EXCEPT ![w] = t] /\ UNCHANGED chain
    BY <1>3, <2>1, <2>3 DEF StartJob
  <2>5. TaskKept(t)'
    BY <2>3 DEF TaskKept
  <2> QED
    BY <1>1, <2>4, <2>5, MovesAlone, MovesKeep
<1> QED
  BY <1>2, <1>3

(* A storage call is tried again.                                          *)
LEMMA TriesStep ==
    ASSUME TasksTyped, Kept, NEW w \in Tasks, Adds,
           task' = [task EXCEPT ![w].tries = @ + 1], UNCHANGED chain
    PROVE  TasksTyped' /\ Kept'
<1>1. task[w] \in TaskStates /\ TaskKept(task[w]) /\ task[w].tries + 1 \in Nat
  BY TaskNow DEF TaskStates
<1>2. PICK t \in TaskStates :
          t = [task[w] EXCEPT !.tries = task[w].tries + 1] /\ TaskKept(t)
  BY <1>1, TriesTyped
<1>3. TaskKept(t)'
  BY <1>2, StillKept
<1>4. task' = [task EXCEPT ![w] = t]
  BY <1>2
<1> QED
  BY <1>3, <1>4, MovesAlone, MovesKeep

(* Asking for a session fails.                                             *)
LEMMA SessionStep ==
    ASSUME TasksTyped, Kept, NEW w \in Tasks, SessionFails(w)
    PROVE  TasksTyped' /\ Kept'
<1>1. Adds
  BY AddsNothing DEF SessionFails, listVars, queueVars, historyVars
<1> QED
  BY <1>1, TriesStep, DiesStep DEF SessionFails

(* The handler adds a request.                                             *)
LEMMA HandlerAddsStep ==
    ASSUME TasksTyped, Kept, NEW w \in Tasks, NEW r \in Linked, HandlerAdds(w, r)
    PROVE  TasksTyped' /\ Kept'
<1>1. Adds
  BY DEF HandlerAdds, Adds, QueueAdds, TasksTyped, Queued, listVars, historyVars
<1> QED
  BY <1>1, PoolStep DEF HandlerAdds

(* The handler is done with the request of the context.                    *)
LEMMA HandlerReturnsStep ==
    ASSUME TasksTyped, Kept, NEW w \in Tasks, HandlerReturns(w)
    PROVE  TasksTyped' /\ Kept'
<1>1. Adds
  BY DEF HandlerReturns, Adds, QueueAdds, TasksTyped, Queued, listVars, queueVars
<1>2. CASE task[w].request = None
  BY <1>1, <1>2, DiesStep DEF HandlerReturns
<1>3. CASE task[w].request # None
  <2>1. task[w] \in TaskStates /\ TaskKept(task[w]) /\ task[w].pc = "handling"
    BY TaskNow DEF HandlerReturns
  <2>2. LET u == [task[w] EXCEPT !.pc = "marking"]
        IN  /\ u \in TaskStates /\ u.pc = "marking"
            /\ u.request = task[w].request /\ u.context = task[w].context
    BY <2>1 DEF TaskStates
  <2>3. PICK t \in TaskStates :
            /\ t = [task[w] EXCEPT !.pc = "marking"] /\ t.pc = "marking"
            /\ t.request = task[w].request /\ t.context = task[w].context
    BY <2>2
  <2>4. /\ task' = [task EXCEPT ![w] = t]
        /\ processed' = processed \cup {t.context}
        /\ UNCHANGED <<chain, status>>
    BY <1>3, <2>3 DEF HandlerReturns, queueVars
  <2>5. TaskKept(t)'
    BY <2>1, <2>3, <2>4 DEF TaskKept, Queued
  <2> QED
    BY <1>1, <2>4, <2>5, MovesAlone, MovesKeep
<1> QED
  BY <1>2, <1>3

(* The handler throws.                                                     *)
LEMMA HandlerThrowsStep ==
    ASSUME TasksTyped, Kept, NEW w \in Tasks, NEW b \in BOOLEAN, HandlerThrows(w, b)
    PROVE  TasksTyped' /\ Kept'
<1>1. CASE HandlesError(w, [task[w] EXCEPT !.noRetry = b], 0) /\ UNCHANGED chain
  <2>1. [task[w] EXCEPT !.noRetry = b] \in TaskStates
    BY DEF TasksTyped, TaskStates
  <2>2. UNCHANGED <<chain, processed, listDone>> /\ QueueAdds
    BY <1>1 DEF HandlerThrows, listVars, queueVars, TasksTyped, QueueAdds, Queued
  <2> QED
    BY <1>1, <2>1, <2>2, HandlesErrorStep
<1>2. CASE Dies(w) /\ UNCHANGED <<listRetries, gaveUp>>
  <2>1. Adds
    BY <1>2, AddsNothing DEF HandlerThrows, listVars, queueVars
  <2> QED
    BY <1>2, <2>1, DiesStep
<1> QED
  BY <1>1, <1>2 DEF HandlerThrows

(* The timeout of a call passes before its answer comes.                   *)
LEMMA TimesOutStep ==
    ASSUME TasksTyped, Kept, NEW w \in Tasks, FetchTimesOut(w)
    PROVE  TasksTyped' /\ Kept'
<1>1. Adds
  BY ReadsForgetsNothing, AddsNothing
     DEF FetchTimesOut, FetchesAgain, listVars, queueVars, historyVars
<1>2. /\ chain[w]["main"] \in ChainStates
      /\ chain[w]["main"].pc = "added" => Queued(chain[w]["main"].item)
      /\ chain[w]["main"].pc # "listed"
  BY LateCallsKept DEF FetchTimesOut, Calls
<1> QED
  BY <1>1, <1>2, FetchesAgainMoves, MovesKeep DEF FetchTimesOut

(* A call that throws adds nothing to the histories.                       *)
LEMMA ThrowsAdds ==
    ASSUME TasksTyped, NEW w \in Tasks, NEW r, NEW newStatus \in {"pending", "handled"},
           SourceThrows(w, r, newStatus)
    PROVE  QueueAdds
<1>1. CASE UNCHANGED <<status, storedRetries>>
  BY <1>1 DEF TasksTyped, QueueAdds, Queued
<1>2. CASE /\ status' = [status EXCEPT ![r] = newStatus]
           /\ storedRetries' = [storedRetries EXCEPT
                  ![r] = IF r = task[w].context THEN task[w].retryCount ELSE @]
  <2>1. PICK n \in Nat : n = task[w].retryCount
    BY DEF TasksTyped, TaskStates
  <2>2. storedRetries' \in [Requests -> Nat]
    BY <1>2, <2>1 DEF TasksTyped
  <2> QED
    BY <1>2, <2>2 DEF TasksTyped, QueueAdds, Queued
<1> QED
  BY <1>1, <1>2 DEF SourceThrows, queueVars

(* A failure that the error path retries, or that ends the task.           *)
LEMMA ErrorHandlerStep ==
    ASSUME TasksTyped, Kept, NEW w \in Tasks, ErrorHandlerThrows(w), QueueAdds,
           UNCHANGED <<processed, listDone>>
    PROVE  TasksTyped' /\ Kept'
<1>1. CASE HandlesError(w, task[w], task[w].tries + 1) /\ UNCHANGED chain
  <2>1. task[w] \in TaskStates /\ task[w].tries + 1 \in Nat
    BY DEF TasksTyped, TaskStates
  <2> QED
    BY <1>1, <2>1, HandlesErrorStep
<1>2. CASE Dies(w) /\ UNCHANGED <<listRetries, gaveUp>>
  <2>1. Adds
    BY <1>2 DEF Adds, TasksTyped
  <2> QED
    BY <1>2, <2>1, DiesStep
<1> QED
  BY <1>1, <1>2 DEF ErrorHandlerThrows

(* markRequestHandled throws.                                              *)
LEMMA MarkThrowsStep ==
    ASSUME TasksTyped, Kept, NEW w \in Tasks, MarkThrows(w)
    PROVE  TasksTyped' /\ Kept'
<1>1. QueueAdds /\ UNCHANGED <<processed, listDone>>
  BY ThrowsAdds DEF MarkThrows, listVars
<1>2. CASE /\ task' = [task EXCEPT ![w].tries = @ + 1]
           /\ UNCHANGED <<chain, listRetries, gaveUp>>
  <2>1. Adds
    BY <1>1, <1>2 DEF Adds, TasksTyped
  <2> QED
    BY <1>2, <2>1, TriesStep
<1>3. CASE HandlesError(w, task[w], 0) /\ UNCHANGED chain
  <2>1. task[w] \in TaskStates
    BY DEF TasksTyped
  <2> QED
    BY <1>1, <1>3, <2>1, HandlesErrorStep
<1>4. CASE Dies(w) /\ UNCHANGED <<listRetries, gaveUp>>
  <2>1. Adds
    BY <1>1, <1>4 DEF Adds, TasksTyped
  <2> QED
    BY <1>4, <2>1, DiesStep
<1> QED
  BY <1>2, <1>3, <1>4 DEF MarkThrows

(* _requestFunctionErrorHandler fails, in the source or in the report.     *)
LEMMA ErrorStep ==
    ASSUME TasksTyped, Kept, NEW w \in Tasks, SourceFailsError(w) \/ ReportFails(w)
    PROVE  TasksTyped' /\ Kept'
<1>1. CASE SourceFailsError(w)
  BY <1>1, ThrowsAdds, ErrorHandlerStep DEF SourceFailsError, listVars
<1>2. CASE ReportFails(w)
  <2>1. QueueAdds
    BY <1>2 DEF ReportFails, queueVars, QueueAdds, TasksTyped, Queued
  <2> QED
    BY <1>2, <2>1, ErrorHandlerStep DEF ReportFails, listVars
<1> QED
  BY <1>1, <1>2

(* Marking takes a request out of the list only if it is queued, was       *)
(* processed or was given up.                                              *)
LEMMA MarksAdds ==
    ASSUME TasksTyped, NEW w \in Tasks, NEW r, SourceMarks(w, r),
           Queued(r) \/ r \in processed \cup gaveUp,
           UNCHANGED <<listRetries, processed, gaveUp>>
    PROVE  Adds
<1>1. CASE /\ status' = IF r \in busy THEN [status EXCEPT ![r] = "handled"] ELSE status
           /\ UNCHANGED <<storedRetries, listVars>>
  <2>1. status' \in [Requests -> {"absent", "pending", "handled"}]
    BY <1>1 DEF TasksTyped
  <2>2. \A x : Queued(x) => Queued(x)'
    BY <1>1 DEF TasksTyped, Queued
  <2> QED
    BY <1>1, <2>1, <2>2 DEF listVars, Adds, QueueAdds, TasksTyped
<1>2. CASE MarkInList(r) /\ UNCHANGED queueVars
  BY <1>2 DEF MarkInList, queueVars, Adds, QueueAdds, TasksTyped, Queued
<1> QED
  BY <1>1, <1>2 DEF SourceMarks

(* markRequestHandled returns after a handler that succeeded.              *)
LEMMA MarkReturnsStep ==
    ASSUME TasksTyped, Kept, NEW w \in Tasks, MarkReturns(w)
    PROVE  TasksTyped' /\ Kept'
<1>1. PICK r : r = task[w].request /\ SourceMarks(w, r)
  BY DEF MarkReturns
<1>2. Queued(r) \/ r \in processed \cup gaveUp
  BY <1>1, TaskNow DEF MarkReturns, TaskKept
<1>3. Adds
  BY <1>1, <1>2, MarksAdds DEF MarkReturns
<1> QED
  BY <1>3, DiesStep DEF MarkReturns

(* markRequestHandled returns for a request that is given up.              *)
LEMMA GiveUpStep ==
    ASSUME TasksTyped, Kept, NEW w \in Tasks, GiveUpReturns(w)
    PROVE  TasksTyped' /\ Kept'
<1>1. PICK r : r = task[w].context /\ SourceMarks(w, r)
  BY DEF GiveUpReturns
<1>2. r \in gaveUp
  BY <1>1, TaskNow DEF GiveUpReturns, TaskKept
<1>3. Adds
  BY <1>1, <1>2, MarksAdds DEF GiveUpReturns
<1>4. LET u == [task[w] EXCEPT !.pc = "reporting"]
      IN  u \in TaskStates /\ u.pc = "reporting"
  BY DEF TasksTyped, TaskStates
<1>5. PICK t \in TaskStates : t = [task[w] EXCEPT !.pc = "reporting"] /\ t.pc = "reporting"
  BY <1>4
<1>6. task' = [task EXCEPT ![w] = t] /\ TaskKept(t)' /\ UNCHANGED chain
  BY <1>5 DEF GiveUpReturns, TaskKept
<1> QED
  BY <1>3, <1>6, MovesAlone, MovesKeep

(* reclaimRequest returns, from the queue or from the list.                *)
LEMMA ReclaimStep ==
    ASSUME TasksTyped, Kept, NEW w \in Tasks, ReclaimReturns(w)
    PROVE  TasksTyped' /\ Kept'
<1>1. PICK n \in Nat, r \in Requests \cup {None} :
           n = task[w].retryCount /\ r = task[w].context
  BY DEF TasksTyped, TaskStates
<1>2. CASE /\ status' = IF r \in busy THEN [status EXCEPT ![r] = "pending"] ELSE status
           /\ storedRetries' = IF r \in busy THEN [storedRetries EXCEPT ![r] = n]
                               ELSE storedRetries
           /\ UNCHANGED listVars
  BY <1>2, DiesStep DEF ReclaimReturns, listVars, historyVars, Adds, QueueAdds, TasksTyped, Queued
<1>3. CASE ReclaimInList(r) /\ UNCHANGED queueVars
  <2>1. Adds
    BY <1>3, AddsNothing DEF ReclaimReturns, ReclaimInList, queueVars, historyVars
  <2> QED
    BY <2>1, DiesStep DEF ReclaimReturns
<1> QED
  BY <1>1, <1>2, <1>3 DEF ReclaimReturns, SourceReclaims

(* failedRequestHandler returns.                                           *)
LEMMA ReportedStep ==
    ASSUME TasksTyped, Kept, NEW w \in Tasks, FailureReported(w)
    PROVE  TasksTyped' /\ Kept'
<1>1. Adds
  BY AddsNothing DEF FailureReported, listVars, queueVars, historyVars
<1> QED
  BY <1>1, DiesStep DEF FailureReported

-----------------------------------------------------------------------------
(* Every step of a task keeps both parts.                                  *)
LEMMA TaskStepKeeps ==
    ASSUME TasksTyped, Kept, NEW w \in Tasks, TaskSteps(w)
    PROVE  TasksTyped' /\ Kept'
BY StartTaskStep, TimesOutStep, StartJobStep, SessionStep, HandlerAddsStep, HandlerReturnsStep,
   HandlerThrowsStep, MarkReturnsStep, MarkThrowsStep, ReclaimStep, GiveUpStep, ErrorStep,
   ReportedStep DEF TaskSteps

(* The tasks are gone after a restart; the queue stays.                    *)
LEMMA RestartKeeps ==
    ASSUME TasksTyped, Kept, Restart
    PROVE  TasksTyped' /\ Kept'
<1>1. Both(NoChain, NoChain) \in [Calls -> ChainStates]
  BY NoChainTyped, BothTyped
<1>2. \A w \in Tasks : task'[w] = IdleTask
  BY DEF Restart
<1>3. \A w \in Tasks : chain'[w]["main"] = NoChain /\ chain'[w]["late"] = NoChain
  BY NoChainTyped, BothTyped DEF Restart
<1>4. TasksTyped'
  BY <1>1, IdleTyped DEF Restart, TasksTyped
<1>5. MarksKept' /\ FetchesKept'
  BY <1>2, <1>3, IdleTyped, NoChainTyped DEF MarksKept, FetchesKept, Calls
<1>6. ForgottenKept'
  BY DEF Restart, RestoreState, Kept, ForgottenKept, Queued
<1> QED
  BY <1>4, <1>5, <1>6 DEF Kept

(* Both parts hold of a crawler that starts.                               *)
LEMMA InitKept == CrawlerInit => TasksTyped /\ Kept
<1> SUFFICES ASSUME CrawlerInit
             PROVE  TasksTyped /\ Kept
  OBVIOUS
<1>1. Both(NoChain, NoChain) \in [Calls -> ChainStates]
  BY NoChainTyped, BothTyped
<1>2. \A w \in Tasks : task[w] = IdleTask
  BY DEF CrawlerInit
<1>3. \A w \in Tasks : chain[w]["main"] = NoChain /\ chain[w]["late"] = NoChain
  BY NoChainTyped, BothTyped DEF CrawlerInit
<1>4. TasksTyped
  BY <1>1, IdleTyped DEF CrawlerInit, TasksTyped
<1>5. MarksKept /\ FetchesKept
  BY <1>2, <1>3, IdleTyped, NoChainTyped DEF MarksKept, FetchesKept, Calls
<1>6. ForgottenKept
  BY DEF CrawlerInit, ListInit, ForgottenKept
<1> QED
  BY <1>4, <1>5, <1>6 DEF Kept

(* Every step of the crawler keeps both parts.                             *)
LEMMA StepKept == TasksTyped /\ Kept /\ [Next]_vars => TasksTyped' /\ Kept'
<1> SUFFICES ASSUME TasksTyped, Kept, [Next]_vars
             PROVE  TasksTyped' /\ Kept'
  OBVIOUS
<1>1. CASE PoolSteps
  <2>1. UNCHANGED <<task, chain>>
    BY <1>1 DEF PoolSteps, AskReady, NotReady, FinishAnswered, QueryFails, PauseOnMigration
  <2>2. Adds
    BY <1>1, AddsNothing
       DEF PoolSteps, AskReady, NotReady, FinishAnswered, QueryFails, PauseOnMigration,
           queueVars, listVars, historyVars
  <2> QED
    BY <2>1, <2>2, PoolStep
<1>2. ASSUME NEW p \in Savers, Persists(p)
      PROVE  TasksTyped' /\ Kept'
  <2>1. Adds
    BY <1>2, AddsNothing
       DEF Persists, PersistState, StatePersisted, PersistFails, queueVars, historyVars
  <2> QED
    BY <1>2, <2>1, PoolStep DEF Persists
<1>3. CASE UNCHANGED vars
  <2>1. Adds
    BY <1>3, AddsNothing DEF vars, listVars, queueVars, historyVars
  <2> QED
    BY <1>3, <2>1, PoolStep DEF vars
<1> QED
  BY <1>1, <1>2, <1>3, FetchStep, TaskStepKeeps, RestartKeeps DEF Next

(* What the list has forgotten is in the queue or done with, and what it   *)
(* has not it still has everywhere.                                        *)
LEMMA InvNothingLost == CrawlerInv => NothingLost
<1> SUFFICES ASSUME CrawlerInv, NEW r \in Listed \ (processed \cup gaveUp)
             PROVE  \/ status[r] # "absent"
                    \/ /\ r \in From(nextIndex) \cup listInProgress
                       /\ r \in Remaining(savedState)
                       /\ \A p \in Savers : \A s \in saving[p] : r \in Remaining(s)
  BY DEF NothingLost
<1>1. NothingSkipped
  BY InvNothingSkipped DEF CrawlerInv
<1>2. r \in Requests
  BY ListedRequests DEF CrawlerInv, ListInv, ListTypeOK
<1>3. r \in listDone => status[r] # "absent"
  BY <1>2 DEF CrawlerInv, Kept, ForgottenKept, Queued
<1> QED
  BY <1>1, <1>3 DEF NothingSkipped

-----------------------------------------------------------------------------
(* The inductive invariant of the crawler: what the list forgets, what its *)
(* tasks may still mark and what its fetches, late ones too, will mark.    *)
THEOREM CrawlerInvHolds == CrawlerSpec => []CrawlerInv
<1>1. CrawlerInit => CrawlerInv
  BY InitListInv, InitKept DEF CrawlerInit, CrawlerInv
<1>2. CrawlerInv /\ [Next]_vars => CrawlerInv'
  <2> SUFFICES ASSUME CrawlerInv, [Next]_vars
               PROVE  CrawlerInv'
    OBVIOUS
  <2>1. [ListNext]_listVars
    BY ListClient DEF CrawlerInv, ListInv
  <2> QED
    BY <2>1, ListStep, StepKept DEF CrawlerInv
<1> QED
  BY <1>1, <1>2, PTL DEF CrawlerSpec

(* Whatever fails, times out, is answered late or dies, in whatever order: *)
(* every request of the list that no handler is done with is in the queue, *)
(* or in the memory and in every stored or half-written state of the list. *)
THEOREM NothingLostHolds == CrawlerSpec => []NothingLost
BY CrawlerInvHolds, InvNothingLost, PTL

-----------------------------------------------------------------------------
(***************************************************************************)
(* Who has which request: a request of the queue is one task's at most, a  *)
(* request of the list one task's or one fetch's.  From that follow the    *)
(* counts of the crawler: its statistics, its limit of requests, the       *)
(* attempts that a request gets, and what it means that it has finished.   *)
(***************************************************************************)

(* The places of a task that has the answer of its fetch.                  *)
Working == {"fetched", "handling", "marking", "reclaiming", "givingUp", "reporting"}

(* Of these, the ones after the handler was called.                        *)
WithContext == Working \ {"fetched"}

-----------------------------------------------------------------------------
(* What a step may do to its task, in plain words.                         *)

(* No other task moves.                                                    *)
Else(w) == \A v \in Tasks : v # w => task'[v] = task[v] /\ chain'[v] = chain[v]

(* The task has what it had.                                               *)
SameJob(w) ==
    /\ task'[w].source = task[w].source
    /\ task'[w].fromList = task[w].fromList
    /\ task'[w].request = task[w].request
    /\ task'[w].context = task[w].context

(* At most its tries or noRetry change.                                    *)
Stays(w) ==
    /\ SameJob(w)
    /\ task'[w].pc = task[w].pc
    /\ task'[w].retryCount = task[w].retryCount

(* It goes on to another await.                                            *)
Turns(w, pc) ==
    /\ SameJob(w)
    /\ task'[w].pc = pc
    /\ task'[w].retryCount = task[w].retryCount

(* It ends or fails, and disowns its late call.                            *)
Left(w) ==
    /\ task'[w].pc \in {"idle", "failed"}
    /\ task'[w].context = None
    /\ task'[w].request = None
    /\ ~task'[w].fromList
    /\ chain'[w]["main"] = NoChain
    /\ ~chain'[w]["late"].mine
    /\ chain'[w]["late"].pc = chain[w]["late"].pc
    /\ chain'[w]["late"].item = chain[w]["late"].item

(* One call goes to another place.                                         *)
Went(w, c, place) ==
    /\ chain'[w][c].pc = place
    /\ chain'[w][c].item = chain[w][c].item
    /\ chain'[w][c].mine = chain[w][c].mine
    /\ \A d \in Calls : d # c => chain'[w][d] = chain[w][d]
    /\ task'[w] = task[w]

(* One call is over.                                                       *)
Over(w, c) ==
    /\ chain'[w][c] = NoChain
    /\ \A d \in Calls : d # c => chain'[w][d] = chain[w][d]

(* It is over, and its task has r.                                         *)
Gave(w, c, r) ==
    /\ Over(w, c)
    /\ task'[w].source = task[w].source
    /\ task'[w].context = task[w].context
    /\ task'[w].retryCount = task[w].retryCount
    /\ c = "main" =>
          /\ task'[w].pc = "fetched"
          /\ task'[w].request = r
          /\ task'[w].fromList <=> ~hasQueue
    /\ c = "late" =>
          /\ task'[w].pc = task[w].pc
          /\ task'[w].fromList = task[w].fromList
          /\ task'[w].request = IF chain[w][c].mine THEN r ELSE task[w].request

(* The call is made anew; another one goes on late.                        *)
Again(w, old) ==
    \/ /\ Stays(w)
       /\ \E item \in Requests \cup {None} :
             Reads(item) /\ chain'[w]["main"] = Fetching(item, TRUE)
       /\ chain'[w]["late"] = old
       /\ UNCHANGED pool
    \/ /\ task'[w].pc = "failed"
       /\ task'[w].context = None
       /\ task'[w].request = None
       /\ ~task'[w].fromList
       /\ chain'[w]["main"] = NoChain
       /\ ~chain'[w]["late"].mine
       /\ chain'[w]["late"].pc = old.pc
       /\ chain'[w]["late"].item = old.item
       /\ UNCHANGED listVars
       /\ pool' = IF pool \in {"running", "paused"} THEN "dead" ELSE pool

(* The error handler goes on to a retry or to giving up.                   *)
Erred(w) ==
    /\ SameJob(w)
    /\ UNCHANGED chain
    /\ \/ /\ task'[w].pc = "reclaiming"
          /\ task[w].retryCount < MaxRequestRetries
          /\ task'[w].retryCount = task[w].retryCount + 1
          /\ UNCHANGED <<handledRequestsCount, gaveUp>>
          /\ listRetries' = IF task[w].fromList
                            THEN [listRetries EXCEPT ![task[w].context] = task[w].retryCount + 1]
                            ELSE listRetries
       \/ /\ task'[w].pc = "givingUp"
          /\ task'[w].retryCount = task[w].retryCount
          /\ handledRequestsCount' = handledRequestsCount + 1
          /\ gaveUp' = gaveUp \cup {task[w].context}
          /\ UNCHANGED listRetries

(* It fails, and with it the run.                                          *)
Died(w) ==
    /\ Left(w)
    /\ task'[w].pc = "failed"
    /\ pool' = IF pool \in {"running", "paused"} THEN "dead" ELSE pool

-----------------------------------------------------------------------------
(* The operations of the crawler do just that.                             *)
LEMMA GoesPlain ==
    ASSUME TasksTyped, NEW w \in Tasks, NEW c \in Calls, NEW place, Goes(w, c, place)
    PROVE  Else(w) /\ Went(w, c, place)
<1>1. chain[w] \in [Calls -> ChainStates] /\ chain[w][c] \in ChainStates
  BY DEF TasksTyped
<1>2. \A v \in Tasks : v # w => chain'[v] = chain[v]
  BY DEF Goes, TasksTyped
<1>3. chain'[w] = [chain[w] EXCEPT ![c].pc = place]
  BY DEF Goes, TasksTyped
<1>4. /\ chain'[w][c] = [chain[w][c] EXCEPT !.pc = place]
      /\ \A d \in Calls : d # c => chain'[w][d] = chain[w][d]
  BY <1>1, <1>3
<1>5. /\ chain'[w][c].pc = place
      /\ chain'[w][c].item = chain[w][c].item
      /\ chain'[w][c].mine = chain[w][c].mine
  BY <1>1, <1>4 DEF ChainStates
<1> QED
  BY <1>2, <1>4, <1>5 DEF Goes, Else, Went

(* A call that returns is over, and has given its answer.                  *)
LEMMA ReturnsPlain ==
    ASSUME TasksTyped, NEW w \in Tasks, NEW c \in Calls, NEW r \in Requests \cup {None},
           Returns(w, c, r)
    PROVE  Else(w) /\ Gave(w, c, r)
<1>1. /\ chain[w] \in [Calls -> ChainStates]
      /\ task[w] \in TaskStates
  BY DEF TasksTyped
<1>2. chain' = [chain EXCEPT ![w][c] = NoChain]
  BY DEF Returns
<1>3. Over(w, c) /\ \A v \in Tasks : v # w => chain'[v] = chain[v]
  BY <1>1, <1>2 DEF Over, TasksTyped
<1>4. \A v \in Tasks : v # w => task'[v] = task[v]
  BY DEF Returns, TasksTyped
<1>5. CASE c = "main"
  <2>1. task'[w] = [task[w] EXCEPT !.pc = "fetched", !.request = r, !.tries = 0,
                                   !.fromList = ~hasQueue]
    BY <1>5 DEF Returns, TasksTyped
  <2> QED
    BY <1>1, <1>3, <1>4, <1>5, <2>1 DEF Else, Gave, TaskStates
<1>6. CASE c = "late" /\ chain[w][c].mine
  <2>1. task'[w] = [task[w] EXCEPT !.request = r]
    BY <1>6 DEF Returns, TasksTyped
  <2> QED
    BY <1>1, <1>3, <1>4, <1>6, <2>1 DEF Else, Gave, TaskStates
<1>7. CASE c = "late" /\ ~chain[w][c].mine
  <2>1. task'[w] = task[w]
    BY <1>7 DEF Returns
  <2> QED
    BY <1>1, <1>3, <1>4, <1>7, <2>1 DEF Else, Gave, TaskStates
<1> QED
  BY <1>5, <1>6, <1>7 DEF Calls

(* Ends and Dies leave.                                                    *)
LEMMA LeavesPlain ==
    ASSUME TasksTyped, NEW w \in Tasks, Ends(w) \/ Dies(w)
    PROVE  /\ Else(w)
           /\ Left(w)
           /\ Ends(w) => task'[w] = IdleTask
           /\ Dies(w) => Died(w)
<1>1. chain[w]["late"] \in ChainStates
  BY DEF TasksTyped, Calls
<1>2. ASSUME NEW t, Leaves(w, t)
      PROVE  /\ task'[w] = t
             /\ chain'[w] = Both(NoChain, Disowned(chain[w]["late"]))
             /\ Else(w)
  BY <1>2 DEF Leaves, TasksTyped, Else
<1>3. /\ task'[w] \in {IdleTask, [IdleTask EXCEPT !.pc = "failed"]}
      /\ Ends(w) => task'[w] = IdleTask
      /\ Dies(w) => task'[w] = [IdleTask EXCEPT !.pc = "failed"]
      /\ chain'[w] = Both(NoChain, Disowned(chain[w]["late"]))
      /\ Else(w)
  BY <1>2 DEF Ends, Dies
<1>4. /\ task'[w].pc \in {"idle", "failed"} /\ task'[w].context = None
      /\ task'[w].request = None /\ ~task'[w].fromList
      /\ (Dies(w) => task'[w].pc = "failed")
  BY <1>3 DEF IdleTask
<1>7. Dies(w) => pool' = IF pool \in {"running", "paused"} THEN "dead" ELSE pool
  BY DEF Dies
<1>5. /\ chain'[w]["main"] = NoChain
      /\ chain'[w]["late"] = Disowned(chain[w]["late"])
  BY <1>3 DEF Both, Calls
<1>6. /\ ~chain'[w]["late"].mine
      /\ chain'[w]["late"].pc = chain[w]["late"].pc
      /\ chain'[w]["late"].item = chain[w]["late"].item
  BY <1>1, <1>5 DEF Disowned, ChainStates
<1> QED
  BY <1>3, <1>4, <1>5, <1>6, <1>7 DEF Left, Died

(* A try that is counted leaves the task where it is.                      *)
LEMMA TriesPlain ==
    ASSUME TasksTyped, NEW w \in Tasks, task' = [task EXCEPT ![w].tries = @ + 1],
           UNCHANGED chain
    PROVE  Else(w) /\ Stays(w)
<1>1. task[w] \in TaskStates
  BY DEF TasksTyped
<1>2. task'[w] = [task[w] EXCEPT !.tries = task[w].tries + 1]
  BY DEF TasksTyped
<1>3. Else(w)
  BY DEF TasksTyped, Else
<1> QED
  BY <1>1, <1>2, <1>3 DEF Stays, SameJob, TaskStates

(* A fetch is made again, or the task fails.                               *)
LEMMA AgainPlain ==
    ASSUME TasksTyped, NEW w \in Tasks, NEW old \in ChainStates, FetchesAgain(w, old)
    PROVE  Else(w) /\ Again(w, old)
<1>1. task[w] \in TaskStates
  BY DEF TasksTyped
<1>2. CASE /\ task' = [task EXCEPT ![w].tries = @ + 1]
           /\ \E item \in Requests \cup {None} :
                  /\ Reads(item)
                  /\ chain' = [chain EXCEPT ![w] = Both(Fetching(item, TRUE), old)]
           /\ UNCHANGED pool
  <2>1. PICK item \in Requests \cup {None} :
            Reads(item) /\ chain' = [chain EXCEPT ![w] = Both(Fetching(item, TRUE), old)]
    BY <1>2
  <2>2. task' = [task EXCEPT ![w].tries = @ + 1] /\ UNCHANGED pool
    BY <1>2
  <2>3. task'[w] = [task[w] EXCEPT !.tries = task[w].tries + 1]
    BY <2>2 DEF TasksTyped
  <2>4. Stays(w)
    BY <1>1, <2>3 DEF Stays, SameJob, TaskStates
  <2>5. Else(w) /\ chain'[w] = Both(Fetching(item, TRUE), old)
    BY <2>1, <2>2 DEF TasksTyped, Else
  <2>6. chain'[w]["main"] = Fetching(item, TRUE) /\ chain'[w]["late"] = old
    BY <2>5 DEF Both, Calls
  <2> QED
    BY <2>1, <2>2, <2>4, <2>5, <2>6 DEF Again
<1>3. CASE /\ task' = [task EXCEPT ![w] = [IdleTask EXCEPT !.pc = "failed"]]
           /\ chain' = [chain EXCEPT ![w] = Both(NoChain, Disowned(old))]
           /\ pool' = IF pool \in {"running", "paused"} THEN "dead" ELSE pool
           /\ UNCHANGED listVars
  <2>2. /\ task'[w] = [IdleTask EXCEPT !.pc = "failed"]
        /\ chain'[w] = Both(NoChain, Disowned(old))
        /\ Else(w)
    BY <1>3 DEF TasksTyped, Else
  <2>3. chain'[w]["main"] = NoChain /\ chain'[w]["late"] = Disowned(old)
    BY <2>2 DEF Both, Calls
  <2>4. /\ task'[w].pc = "failed" /\ task'[w].context = None
        /\ task'[w].request = None /\ ~task'[w].fromList
    BY <2>2 DEF IdleTask
  <2>5. /\ ~chain'[w]["late"].mine
        /\ chain'[w]["late"].pc = old.pc
        /\ chain'[w]["late"].item = old.item
    BY <2>3 DEF Disowned, ChainStates
  <2> QED
    BY <1>3, <2>2, <2>3, <2>4, <2>5 DEF Again
<1> QED
  BY <1>2, <1>3 DEF FetchesAgain

(* The error handler errs, whatever it sets noRetry to.                    *)
LEMMA ErrorPlain ==
    ASSUME TasksTyped, handledRequestsCount \in Nat,
           NEW w \in Tasks, NEW t \in TaskStates, NEW tries, UNCHANGED chain,
           HandlesError(w, t, tries),
           \E b \in BOOLEAN : t = [task[w] EXCEPT !.noRetry = b]
    PROVE  Else(w) /\ Erred(w)
<1>1. task[w] \in TaskStates
  BY DEF TasksTyped
<1>2. /\ t.retryCount = task[w].retryCount /\ t.fromList = task[w].fromList
      /\ t.request = task[w].request /\ t.context = task[w].context
      /\ t.source = task[w].source
  BY <1>1 DEF TaskStates
<1>3. Else(w)
  BY DEF HandlesError, TasksTyped, Else
<1>4. CASE ShouldRetry(t)
  <2>1. task'[w] = [t EXCEPT !.pc = "reclaiming", !.retryCount = @ + 1, !.tries = tries]
    BY <1>4 DEF HandlesError, TasksTyped
  <2>2. SameJob(w) /\ task'[w].pc = "reclaiming" /\ task'[w].retryCount = task[w].retryCount + 1
    BY <1>2, <2>1 DEF SameJob, TaskStates
  <2>3. /\ UNCHANGED gaveUp
        /\ handledRequestsCount' = handledRequestsCount + 0
        /\ task[w].retryCount < MaxRequestRetries
        /\ listRetries' = IF task[w].fromList
                          THEN [listRetries EXCEPT ![task[w].context] = task[w].retryCount + 1]
                          ELSE listRetries
    BY <1>2, <1>4 DEF HandlesError, ShouldRetry
  <2> QED
    BY <1>3, <2>2, <2>3 DEF Erred
<1>5. CASE ~ShouldRetry(t)
  <2>1. task'[w] = [t EXCEPT !.pc = "givingUp", !.tries = tries]
    BY <1>5 DEF HandlesError, TasksTyped
  <2>2. SameJob(w) /\ task'[w].pc = "givingUp" /\ task'[w].retryCount = task[w].retryCount
    BY <1>2, <2>1 DEF SameJob, TaskStates
  <2> QED
    BY <1>2, <1>3, <1>5, <2>2 DEF Erred, HandlesError
<1> QED
  BY <1>4, <1>5

(* A task that is started is fetching, and its call has read the list.     *)
Began(w) ==
    /\ task[w].pc = "idle"
    /\ task'[w].pc = "fetching"
    /\ task'[w].source = IF hasQueue THEN "queue" ELSE "list"
    /\ task'[w].request = None
    /\ task'[w].context = None
    /\ ~task'[w].fromList
    /\ \E item \in Requests \cup {None} :
           Reads(item) /\ chain'[w]["main"] = Fetching(item, TRUE)
    /\ chain'[w]["late"] = chain[w]["late"]

(* A task that starts begins.                                              *)
LEMMA StartPlain ==
    ASSUME TasksTyped, NEW w \in Tasks, StartTask(w)
    PROVE  Else(w) /\ Began(w)
<1>1. PICK item \in Requests \cup {None} :
          Reads(item) /\ chain' = [chain EXCEPT ![w]["main"] = Fetching(item, TRUE)]
  BY DEF StartTask
<1>2. task' = [task EXCEPT ![w] = [IdleTask EXCEPT !.pc = "fetching",
                   !.source = IF hasQueue THEN "queue" ELSE "list"]]
  BY DEF StartTask
<1>3. task'[w] = [IdleTask EXCEPT !.pc = "fetching",
                   !.source = IF hasQueue THEN "queue" ELSE "list"]
  BY <1>2 DEF TasksTyped
<1>4. /\ task'[w].pc = "fetching"
      /\ task'[w].source = IF hasQueue THEN "queue" ELSE "list"
      /\ task'[w].request = None /\ task'[w].context = None /\ ~task'[w].fromList
  BY <1>3 DEF IdleTask
<1>5. Else(w)
  BY <1>1, <1>2 DEF TasksTyped, Else
<1>6. chain[w] \in [Calls -> ChainStates] /\ chain'[w] = [chain[w] EXCEPT !["main"] = Fetching(item, TRUE)]
  BY <1>1 DEF TasksTyped
<1>7. chain'[w]["main"] = Fetching(item, TRUE) /\ chain'[w]["late"] = chain[w]["late"]
  BY <1>6 DEF Calls
<1> QED
  BY <1>1, <1>4, <1>5, <1>7 DEF Began, StartTask

(* The handler begins, with the request that was fetched.                  *)
Handles(w) ==
    /\ task[w].request \in Requests
    /\ task'[w].pc = "handling"
    /\ task'[w].source = task[w].source
    /\ task'[w].fromList = task[w].fromList
    /\ task'[w].request = task[w].request
    /\ task'[w].context = task[w].request
    /\ task'[w].retryCount = IF task[w].fromList THEN listRetries[task[w].request]
                             ELSE storedRetries[task[w].request]
    /\ jobs' = jobs \cup {Job(task[w], task[w].request)}
    /\ attempts' = [attempts EXCEPT ![<<Kind(task[w]), task[w].request>>] = @ + 1]
    /\ UNCHANGED chain

(* With a request the handler is called; without, the task leaves.         *)
LEMMA StartJobPlain ==
    ASSUME TasksTyped, NEW w \in Tasks, StartJob(w)
    PROVE  /\ Else(w)
           /\ \/ Handles(w)
              \/ Ends(w) /\ Left(w) /\ UNCHANGED <<jobs, attempts>>
<1>1. CASE task[w].request = None
  <2>1. Ends(w) /\ UNCHANGED <<jobs, attempts>>
    BY <1>1 DEF StartJob
  <2> QED
    BY <2>1, LeavesPlain
<1>2. CASE task[w].request # None
  <2>1. task[w] \in TaskStates /\ task[w].request \in Requests
    BY <1>2 DEF TasksTyped, TaskStates
  <2>2. PICK n : n = IF task[w].fromList THEN listRetries[task[w].request]
                     ELSE storedRetries[task[w].request]
    OBVIOUS
  <2>3. /\ task' = [task EXCEPT ![w].pc = "handling", ![w].context = task[w].request,
                                ![w].tries = 0, ![w].retryCount = n]
        /\ jobs' = jobs \cup {Job(task[w], task[w].request)}
        /\ attempts' = [attempts EXCEPT ![<<Kind(task[w]), task[w].request>>] = @ + 1]
        /\ UNCHANGED chain
    BY <1>2, <2>2 DEF StartJob
  <2>4. task'[w] = [task[w] EXCEPT !.pc = "handling", !.context = task[w].request,
                                   !.tries = 0, !.retryCount = n]
    BY <2>3 DEF TasksTyped
  <2>5. /\ task'[w].pc = "handling"
        /\ task'[w].source = task[w].source
        /\ task'[w].fromList = task[w].fromList
        /\ task'[w].request = task[w].request
        /\ task'[w].context = task[w].request
        /\ task'[w].retryCount = n
    BY <2>1, <2>4 DEF TaskStates
  <2>6. Else(w)
    BY <2>3 DEF TasksTyped, Else
  <2> QED
    BY <2>1, <2>2, <2>3, <2>5, <2>6 DEF Handles
<1> QED
  BY <1>1, <1>2

(* A task that only goes on turns.                                         *)
LEMMA PcPlain ==
    ASSUME TasksTyped, NEW w \in Tasks, NEW pc \in {"marking", "reporting"},
           task' = [task EXCEPT ![w].pc = pc], UNCHANGED chain
    PROVE  Else(w) /\ Turns(w, pc)
<1>1. task[w] \in TaskStates
  BY DEF TasksTyped
<1>2. task'[w] = [task[w] EXCEPT !.pc = pc]
  BY DEF TasksTyped
<1>3. Turns(w, pc)
  BY <1>1, <1>2 DEF Turns, SameJob, TaskStates
<1> QED
  BY <1>3 DEF Else, TasksTyped

(* Without a session the task stays, or dies.                              *)
LEMMA SessionPlain ==
    ASSUME TasksTyped, NEW w \in Tasks, SessionFails(w)
    PROVE  Else(w) /\ ((Stays(w) /\ UNCHANGED <<chain, pool>>) \/ Died(w))
BY TriesPlain, LeavesPlain DEF SessionFails

(* After the handler the task turns to marking, or dies for want of a      *)
(* request.                                                                *)
LEMMA ReturnPlain ==
    ASSUME TasksTyped, NEW w \in Tasks, HandlerReturns(w)
    PROVE  /\ Else(w)
           /\ \/ Turns(w, "marking") /\ UNCHANGED <<chain, pool>> /\ task[w].request # None
              \/ Died(w) /\ task[w].request = None
BY PcPlain, LeavesPlain DEF HandlerReturns

(* When the handler throws the task errs, or dies for want of a request.   *)
LEMMA ThrowPlain ==
    ASSUME TasksTyped, handledRequestsCount \in Nat, NEW w \in Tasks, NEW b \in BOOLEAN,
           HandlerThrows(w, b)
    PROVE  /\ Else(w)
           /\ \/ Erred(w) /\ UNCHANGED pool
              \/ Died(w) /\ UNCHANGED <<handledRequestsCount, listRetries, gaveUp>>
<1>1. [task[w] EXCEPT !.noRetry = b] \in TaskStates
  BY DEF TasksTyped, TaskStates
<1> QED
  BY <1>1, ErrorPlain, LeavesPlain DEF HandlerThrows

(* A task handles the error with what it has.                              *)
LEMMA ErrorNow ==
    ASSUME TasksTyped, handledRequestsCount \in Nat, NEW w \in Tasks, NEW tries,
           UNCHANGED chain, HandlesError(w, task[w], tries)
    PROVE  Else(w) /\ Erred(w)
<1>1. task[w] \in TaskStates
  BY DEF TasksTyped
<1>2. task[w].noRetry \in BOOLEAN /\ task[w] = [task[w] EXCEPT !.noRetry = task[w].noRetry]
  BY <1>1 DEF TaskStates
<1> QED
  BY <1>1, <1>2, ErrorPlain

(* When the error handler throws it errs again, or the task dies.          *)
LEMMA ErrorAgain ==
    ASSUME TasksTyped, handledRequestsCount \in Nat, NEW w \in Tasks, ErrorHandlerThrows(w)
    PROVE  /\ Else(w)
           /\ \/ Erred(w) /\ UNCHANGED pool
              \/ Died(w) /\ UNCHANGED <<handledRequestsCount, listRetries, gaveUp>>
BY ErrorNow, LeavesPlain DEF ErrorHandlerThrows

(* When marking throws the task tries again, errs or dies.                 *)
LEMMA MarkThrowPlain ==
    ASSUME TasksTyped, handledRequestsCount \in Nat, NEW w \in Tasks, MarkThrows(w)
    PROVE  /\ Else(w)
           /\ \/ /\ Stays(w)
                 /\ UNCHANGED <<chain, pool, handledRequestsCount, listRetries, gaveUp>>
              \/ Erred(w) /\ UNCHANGED pool
              \/ Died(w) /\ UNCHANGED <<handledRequestsCount, listRetries, gaveUp>>
BY TriesPlain, ErrorNow, LeavesPlain DEF MarkThrows

-----------------------------------------------------------------------------
(* The types of what is counted.                                           *)
CountsTyped ==
    /\ queueGiven \in BOOLEAN
    /\ hasQueue \in BOOLEAN
    /\ maxRequestsPerCrawl \in Nat
    /\ busy \subseteq Requests
    /\ jobs \subseteq Sources \X Requests
    /\ closed \subseteq Sources \X Requests
    /\ {handledRequestsCount, requestsFinished, requestsFailed} \subseteq Nat
    /\ {lates, restarts} \subseteq Nat
    /\ attempts \in [Kinds \X Requests -> Nat]

(* What a new process counts as handled in the list is a number: no more   *)
(* requests can be in progress than were read.                             *)
LEMMA HandledIsNat ==
    ASSUME ListInv, RestoreState
    PROVE  HandledInList' \in Nat
<1>1. PICK n \in 0 .. Len(requests) :
          n = savedState.nextIndex /\ nextIndex' = n /\ listInProgress' = Restored(savedState)
  BY DEF ListInv, Stored, Sound, RestoreState
<1>2. requests \in Seq(Requests) /\ Len(requests) \in Nat /\ DOMAIN requests = 1 .. Len(requests)
  BY ListedRequests DEF ListInv, ListTypeOK
<1>3. listInProgress' \subseteq {requests[i] : i \in 1 .. n}
  <2>1. Sound(savedState)
    BY DEF ListInv, Stored
  <2>2. \A r \in Restored(savedState) : r \in Listed /\ r \notin From(n)
    BY <1>1, <2>1 DEF Restored, Sound
  <2>3. \A i \in DOMAIN requests : requests[i] \in From(n) \/ i \in 1 .. n
    BY <1>1, <1>2 DEF From
  <2> QED
    BY <1>1, <2>2, <2>3 DEF Listed
<1>4. IsFiniteSet(1 .. n) /\ Cardinality(1 .. n) = n
  <2>1. n \in Int /\ 1 \in Int /\ n \in Nat
    BY <1>1, <1>2
  <2>2. IsFiniteSet(1 .. n) /\ Cardinality(1 .. n) = IF 1 > n THEN 0 ELSE n - 1 + 1
    BY <2>1, FS_Interval
  <2> QED
    BY <2>1, <2>2
<1>5. DEFINE Read == {requests[i] : i \in 1 .. n}
<1>6. IsFiniteSet(Read) /\ Cardinality(Read) <= n
  <2>1. PICK f : f = [i \in 1 .. n |-> requests[i]]
    OBVIOUS
  <2>2. f \in Surjection(1 .. n, Read)
    BY <2>1 DEF Surjection
  <2> QED
    BY <1>4, <2>2, FS_Surjection
<1>7. IsFiniteSet(listInProgress') /\ Cardinality(listInProgress') <= Cardinality(Read)
  BY <1>3, <1>6, FS_Subset
<1>8. Cardinality(listInProgress') \in Nat /\ Cardinality(Read) \in Nat
  BY <1>6, <1>7, FS_CardinalityType
<1>9. Cardinality(listInProgress') <= n /\ n \in Nat
  <2> HIDE DEF Read
  <2> QED
    BY <1>1, <1>2, <1>6, <1>7, <1>8
<1> QED
  BY <1>1, <1>8, <1>9 DEF HandledInList

(* The count that a new process loads is a number.                         *)
LEMMA LoadedIsNat ==
    ASSUME ListInv, CountsTyped, Restart
    PROVE  handledRequestsCount' \in Nat
<1>1. Cardinality({r \in Requests : status'[r] = "handled"}) \in Nat
  BY ListAssumption, FS_Subset, FS_CardinalityType
<1>2. HandledInList' \in Nat
  BY HandledIsNat DEF Restart
<1> QED
  BY <1>1, <1>2 DEF Restart, LoadedCount

(* The counts are typed at first.                                          *)
LEMMA InitCounts == CrawlerInit => CountsTyped
<1> SUFFICES ASSUME CrawlerInit
             PROVE  CountsTyped
  OBVIOUS
<1>1. queueGiven \in BOOLEAN /\ maxRequestsPerCrawl \in Nat
  BY CrawlerAssumption DEF CrawlerInit
<1>2. attempts \in [Kinds \X Requests -> Nat]
  BY DEF CrawlerInit
<1> QED
  BY <1>1, <1>2 DEF CrawlerInit, CountsTyped

(* Marking adds a closed one at most, whatever the source is.              *)
LEMMA MarksTyped ==
    ASSUME TasksTyped, CountsTyped, NEW w \in Tasks, NEW r \in Requests, SourceMarks(w, r)
    PROVE  busy' \subseteq Requests /\ closed' \subseteq Sources \X Requests
BY DEF SourceMarks, CountsTyped, Sources, queueVars

(* They stay so as calls go on.                                            *)
LEMMA FetchCounts ==
    ASSUME TasksTyped, CountsTyped, NEW w \in Tasks, NEW c \in Calls, FetchSteps(w, c)
    PROVE  CountsTyped'
BY DEF FetchSteps, ListAnswered, AddReaches, AddTo, AddReturns, AddFails, TakeNothing, Take,
       FetchFails, Fails, setupVars, optionVars, queueVars, statsVars, historyVars, boundVars,
       CountsTyped

(* They stay so as the pool asks.                                          *)
LEMMA PoolCounts ==
    ASSUME CountsTyped,
           \/ PoolSteps
           \/ \E p \in Savers : Persists(p)
           \/ UNCHANGED vars
    PROVE  CountsTyped'
BY DEF PoolSteps, AskReady, NotReady, ResetsQueue, FinishAnswered, QueryFails, PauseOnMigration,
       Persists, vars, Fails, setupVars, optionVars, queueVars, statsVars, historyVars, boundVars,
       CountsTyped

(* They stay so in a restart.                                              *)
LEMMA RestartCounts ==
    ASSUME ListInv, CountsTyped, Restart
    PROVE  CountsTyped'
BY LoadedIsNat DEF Restart, optionVars, CountsTyped

(* The counts of an error that is handled.                                 *)
LEMMA ErredCounts ==
    ASSUME CountsTyped, NEW w \in Tasks, Erred(w)
    PROVE  handledRequestsCount' \in Nat
BY DEF Erred, CountsTyped

(* They stay so as tasks go on.                                            *)
LEMMA TaskCounts ==
    ASSUME ListTypeOK, TasksTyped, CountsTyped, NEW w \in Tasks, TaskSteps(w)
    PROVE  CountsTyped'
<1>n. handledRequestsCount \in Nat
  BY DEF CountsTyped
<1>t. task[w] \in TaskStates
  BY DEF TasksTyped
<1>1. CASE StartTask(w) \/ SessionFails(w) \/ ReclaimReturns(w) \/ FailureReported(w)
  BY <1>1 DEF StartTask, SessionFails, ReclaimReturns, SourceReclaims, FailureReported, Fails,
       setupVars, optionVars, queueVars, statsVars, historyVars, boundVars, CountsTyped
<1>2. CASE FetchTimesOut(w)
  BY <1>2 DEF FetchTimesOut, setupVars, optionVars, queueVars, statsVars, historyVars, CountsTyped
<1>3. CASE StartJob(w)
  <2>1. CASE Handles(w)
    <3>1. PICK r \in Requests : r = task[w].request
      BY <2>1 DEF Handles
    <3>2. jobs' \subseteq Sources \X Requests
      BY <2>1, <3>1 DEF Handles, Job, Sources, CountsTyped
    <3>3. attempts' \in [Kinds \X Requests -> Nat]
      <4>1. <<Kind(task[w]), r>> \in Kinds \X Requests
        BY DEF Kind, Kinds, Sources
      <4>2. attempts' = [attempts EXCEPT ![<<Kind(task[w]), r>>] = @ + 1]
        BY <2>1, <3>1 DEF Handles
      <4> QED
        BY <4>1, <4>2 DEF CountsTyped
    <3> QED
      BY <1>3, <3>2, <3>3
         DEF StartJob, setupVars, optionVars, queueVars, boundVars, CountsTyped
  <2>2. CASE UNCHANGED <<jobs, attempts>>
    BY <1>3, <2>2 DEF StartJob, setupVars, optionVars, queueVars, boundVars, CountsTyped
  <2> QED
    BY <1>3, <2>1, <2>2, StartJobPlain
<1>4. CASE \E r \in Linked : HandlerAdds(w, r)
  BY <1>4 DEF HandlerAdds, optionVars, statsVars, historyVars, boundVars, CountsTyped
<1>5. CASE HandlerReturns(w)
  BY <1>5 DEF HandlerReturns, setupVars, optionVars, queueVars, statsVars, boundVars, CountsTyped
<1>6. CASE \E b \in BOOLEAN : HandlerThrows(w, b)
  <2>1. handledRequestsCount' \in Nat
    BY <1>n, <1>6, ThrowPlain, ErredCounts
  <2> QED
    BY <1>6, <2>1 DEF HandlerThrows, setupVars, optionVars, queueVars, statsVars, boundVars, CountsTyped
<1>7. CASE MarkReturns(w)
  <2>1. task[w].request \in Requests
    BY <1>t, <1>7 DEF MarkReturns, TaskStates
  <2>2. busy' \subseteq Requests /\ closed' \subseteq Sources \X Requests
    BY <1>7, <2>1, MarksTyped DEF MarkReturns
  <2> QED
    BY <1>7, <2>2 DEF MarkReturns, EndsJob, setupVars, optionVars, boundVars, CountsTyped
<1>8. CASE MarkThrows(w)
  <2>1. handledRequestsCount' \in Nat
    BY <1>n, <1>8, MarkThrowPlain, ErredCounts
  <2> QED
    BY <1>8, <2>1 DEF MarkThrows, SourceThrows, Fails, setupVars, optionVars, queueVars, statsVars,
                      boundVars, CountsTyped
<1>9. CASE GiveUpReturns(w)
  <2>1. /\ busy' \subseteq Requests
        /\ closed' \subseteq Sources \X Requests
    <3>1. task[w].context \in Requests \cup {None}
      BY <1>t DEF TaskStates
    <3>2. CASE task[w].context \in Requests
      BY <1>9, <3>2, MarksTyped DEF GiveUpReturns
    <3>3. CASE task[w].context = None
      <4>1. None \notin listInProgress /\ None \notin busy
        BY ListedRequests, CrawlerAssumption DEF ListTypeOK, CountsTyped
      <4> QED
        BY <1>9, <3>3, <4>1
           DEF GiveUpReturns, SourceMarks, MarkInList, IsProcessed, CountsTyped, queueVars
    <3> QED
      BY <3>1, <3>2, <3>3
  <2> QED
    BY <1>9, <2>1 DEF GiveUpReturns, EndsJob, setupVars, optionVars, boundVars, CountsTyped
<1>10. CASE SourceFailsError(w)
  <2>1. handledRequestsCount' \in Nat
    BY <1>n, <1>10, ErrorAgain, ErredCounts DEF SourceFailsError
  <2> QED
    BY <1>10, <2>1 DEF SourceFailsError, SourceThrows, Fails, setupVars, optionVars, queueVars,
                       statsVars, boundVars, CountsTyped
<1>11. CASE ReportFails(w)
  <2>1. handledRequestsCount' \in Nat
    BY <1>n, <1>11, ErrorAgain, ErredCounts DEF ReportFails
  <2> QED
    BY <1>11, <2>1 DEF ReportFails, Fails, setupVars, optionVars, queueVars,
                       statsVars, boundVars, CountsTyped
<1> QED
  BY <1>1, <1>2, <1>3, <1>4, <1>5, <1>6, <1>7, <1>8, <1>9, <1>10, <1>11 DEF TaskSteps

-----------------------------------------------------------------------------
(* Where a task is, its calls are: only a fetching task awaits its fetch,  *)
(* calls go on to the queue only if there is one, and what a task that     *)
(* began with the queue has comes from there.  No late fetch can change    *)
(* the request that came from the list alone.                              *)
CallsPlaced(w) ==
    /\ chain[w]["main"].pc # "none" => task[w].pc = "fetching"
    /\ \A c \in Calls : chain[w][c].pc \in {"adding", "added", "taking"} => hasQueue
    /\ chain[w]["late"].mine => chain[w]["late"].pc # "none"

(* Where a task may be, and what it has there.                             *)
TaskPlaced(w) ==
    /\ task[w].pc \in WithContext <=> task[w].context # None
    /\ task[w].pc \in Working =>
          /\ task[w].source = "queue" => ~task[w].fromList
          /\ ~task[w].fromList => hasQueue
          /\ task[w].fromList => ~chain[w]["late"].mine
    /\ task[w].pc = "fetching" => (task[w].source = "queue" => hasQueue)
    /\ task[w].pc \in WithContext /\ task[w].fromList => task[w].request = task[w].context

(* All tasks and their calls are in place.                                 *)
Places == \A w \in Tasks : CallsPlaced(w) /\ TaskPlaced(w)

(* The other tasks stay in place as long as the queue stays.               *)
LEMMA PlacesElse ==
    ASSUME Places, NEW w \in Tasks, Else(w), hasQueue => hasQueue',
           CallsPlaced(w)', TaskPlaced(w)'
    PROVE  Places'
<1> SUFFICES ASSUME NEW v \in Tasks, v # w
             PROVE  CallsPlaced(v)' /\ TaskPlaced(v)'
  BY DEF Places
<1>1. task'[v] = task[v] /\ chain'[v] = chain[v]
  BY DEF Else
<1> QED
  BY <1>1 DEF Places, CallsPlaced, TaskPlaced

(* A task that has left, or that stays and keeps its calls, is in place.   *)
LEMMA LeftPlaced ==
    ASSUME TasksTyped, Places, NEW w \in Tasks, Left(w), UNCHANGED hasQueue
    PROVE  CallsPlaced(w)' /\ TaskPlaced(w)'
BY DEF Left, Places, CallsPlaced, TaskPlaced, NoChain, Calls, Working, WithContext

(* A task that errs is in place.                                           *)
LEMMA ErredPlaced ==
    ASSUME TasksTyped, Places, NEW w \in Tasks, Erred(w), UNCHANGED hasQueue,
           task[w].pc \in WithContext
    PROVE  CallsPlaced(w)' /\ TaskPlaced(w)'
<1>1. /\ chain'[w] = chain[w]
      /\ task'[w].pc \in {"reclaiming", "givingUp"}
      /\ SameJob(w)
  BY DEF Erred
<1> QED
  BY <1>1 DEF SameJob, Places, CallsPlaced, TaskPlaced, Working, WithContext

(* So is one that stays.                                                   *)
LEMMA StaysPlaced ==
    ASSUME TasksTyped, Places, NEW w \in Tasks, Stays(w), UNCHANGED <<chain, hasQueue>>
    PROVE  CallsPlaced(w)' /\ TaskPlaced(w)'
BY DEF Stays, SameJob, Places, CallsPlaced, TaskPlaced, Working, WithContext

(* So is one that turns.                                                   *)
LEMMA TurnsPlaced ==
    ASSUME TasksTyped, Places, NEW w \in Tasks, NEW pc \in WithContext, Turns(w, pc),
           UNCHANGED <<chain, hasQueue>>, task[w].pc \in WithContext
    PROVE  CallsPlaced(w)' /\ TaskPlaced(w)'
BY DEF Turns, SameJob, Places, CallsPlaced, TaskPlaced, Working, WithContext

(* So is one that is given to the handler.                                 *)
LEMMA HandlesPlaced ==
    ASSUME TasksTyped, Places, NEW w \in Tasks, Handles(w), UNCHANGED hasQueue,
           task[w].pc = "fetched"
    PROVE  CallsPlaced(w)' /\ TaskPlaced(w)'
<1>1. task[w].request # None
  BY CrawlerAssumption DEF Handles
<1> QED
  BY <1>1 DEF Handles, Places, CallsPlaced, TaskPlaced, Working, WithContext

(* So is one that has an answer.                                           *)
LEMMA GavePlaced ==
    ASSUME TasksTyped, Kept, Places, NEW w \in Tasks, NEW c \in Calls, NEW r, Gave(w, c, r),
           UNCHANGED hasQueue, chain[w][c].pc # "none"
    PROVE  CallsPlaced(w)' /\ TaskPlaced(w)'
<1>1. CASE c = "main"
  <2>1. task[w].pc = "fetching"
    BY <1>1 DEF Places, CallsPlaced
  <2>2. chain'[w]["main"] = NoChain /\ chain'[w]["late"] = chain[w]["late"]
    BY <1>1 DEF Gave, Over, Calls
  <2>3. chain[w]["late"].mine => hasQueue
    <3>1. chain[w]["late"] \in ChainStates
      BY DEF TasksTyped, Calls
    <3>2. chain[w]["late"].pc # "listed"
      BY DEF Kept, FetchesKept
    <3> QED
      BY <3>1, <3>2 DEF Places, CallsPlaced, Calls, ChainStates
  <2>4. /\ task'[w].pc = "fetched" /\ task'[w].source = task[w].source
        /\ task'[w].context = task[w].context /\ (task'[w].fromList <=> ~hasQueue)
    BY <1>1 DEF Gave
  <2> QED
    BY <2>1, <2>2, <2>3, <2>4
       DEF Places, CallsPlaced, TaskPlaced, Working, WithContext, NoChain, Calls
<1>2. CASE c = "late"
  <2>1. chain'[w]["late"] = NoChain /\ chain'[w]["main"] = chain[w]["main"]
    BY <1>2 DEF Gave, Over, Calls
  <2>2. /\ task'[w].pc = task[w].pc /\ task'[w].source = task[w].source
        /\ task'[w].context = task[w].context /\ task'[w].fromList = task[w].fromList
        /\ task[w].fromList /\ task[w].pc \in Working => task'[w].request = task[w].request
    BY <1>2 DEF Gave, Places, TaskPlaced
  <2> QED
    BY <2>1, <2>2
       DEF Places, CallsPlaced, TaskPlaced, Working, WithContext, NoChain, Calls
<1> QED
  BY <1>1, <1>2 DEF Calls

(* So is one that fetches again.                                           *)
LEMMA AgainPlaced ==
    ASSUME TasksTyped, Kept, Places, NEW w \in Tasks, NEW old \in ChainStates, Again(w, old),
           UNCHANGED hasQueue, task[w].pc = "fetching",
           old.pc # "none" => hasQueue,
           old.mine => old.pc # "none"
    PROVE  CallsPlaced(w)' /\ TaskPlaced(w)'
<1>1. CASE /\ Stays(w)
           /\ \E item \in Requests \cup {None} :
                 Reads(item) /\ chain'[w]["main"] = Fetching(item, TRUE)
           /\ chain'[w]["late"] = old
  <2>1. chain'[w]["main"].pc = "listed"
    BY <1>1 DEF Fetching
  <2> QED
    BY <1>1, <2>1 DEF Stays, SameJob, Places, CallsPlaced, TaskPlaced, Working, WithContext, Calls
<1>2. CASE /\ task'[w].pc = "failed"
           /\ task'[w].context = None
           /\ chain'[w]["main"] = NoChain
           /\ ~chain'[w]["late"].mine
           /\ chain'[w]["late"].pc = old.pc
  <2>1. chain'[w]["main"].pc = "none"
    BY <1>2 DEF NoChain
  <2> QED
    BY <1>2, <2>1 DEF Places, CallsPlaced, TaskPlaced, Working, WithContext, Calls
<1> QED
  BY <1>1, <1>2 DEF Again

(* So is one whose call goes on.                                           *)
LEMMA WentPlaced ==
    ASSUME TasksTyped, Places, NEW w \in Tasks, NEW c \in Calls,
           NEW place \in {"adding", "added", "taking"}, Went(w, c, place),
           UNCHANGED hasQueue, hasQueue, chain[w][c].pc # "none"
    PROVE  CallsPlaced(w)' /\ TaskPlaced(w)'
BY DEF Went, Places, CallsPlaced, TaskPlaced, Working, WithContext, Calls

(* A fetch that fails.                                                     *)
LEMMA FailsPlain ==
    ASSUME TasksTyped, NEW w \in Tasks, NEW c \in Calls, FetchFails(w, c)
    PROVE  /\ Else(w)
           /\ \/ c = "main" /\ Again(w, chain[w]["late"])
              \/ c = "late" /\ Over(w, "late") /\ UNCHANGED <<task, pool, listVars>>
<1>1. CASE c = "main" /\ FetchesAgain(w, chain[w]["late"])
  <2>1. chain[w]["late"] \in ChainStates
    BY DEF TasksTyped, Calls
  <2> QED
    BY <1>1, <2>1, AgainPlain
<1>2. CASE /\ c = "late"
           /\ chain' = [chain EXCEPT ![w][c] = NoChain]
           /\ UNCHANGED <<task, pool, listVars>>
  <2>1. chain[w] \in [Calls -> ChainStates]
    BY DEF TasksTyped
  <2>2. Over(w, "late") /\ Else(w)
    BY <1>2, <2>1 DEF Over, Else, TasksTyped
  <2> QED
    BY <1>2, <2>2
<1> QED
  BY <1>1, <1>2 DEF FetchFails

(* A fetch that times out goes on late, and is made again.                 *)
LEMMA TimesOutPlain ==
    ASSUME TasksTyped, NEW w \in Tasks, FetchTimesOut(w)
    PROVE  Else(w) /\ Again(w, chain[w]["main"])
<1>1. chain[w]["main"] \in ChainStates
  BY DEF TasksTyped, Calls
<1> QED
  BY <1>1, AgainPlain DEF FetchTimesOut

(* A step of a call keeps the places.                                      *)
LEMMA FetchPlaces ==
    ASSUME TasksTyped, Kept, Places, NEW w \in Tasks, NEW c \in Calls, FetchSteps(w, c)
    PROVE  Places'
<1>q. UNCHANGED hasQueue
  BY DEF FetchSteps, ListAnswered, AddReaches, AddReturns, AddFails, TakeNothing, Take, FetchFails,
         setupVars
<1>c. chain[w][c] \in ChainStates
  BY DEF TasksTyped
<1>r. chain[w][c].item \in Requests \cup {None}
  BY <1>c DEF ChainStates
<1>1. ASSUME NEW r \in Requests \cup {None}, Returns(w, c, r), chain[w][c].pc # "none"
      PROVE  Places'
  BY <1>q, <1>1, ReturnsPlain, GavePlaced, PlacesElse
<1>2. ASSUME NEW place \in {"adding", "added", "taking"}, Goes(w, c, place), hasQueue,
             chain[w][c].pc # "none"
      PROVE  Places'
  BY <1>q, <1>2, GoesPlain, WentPlaced, PlacesElse
<1>h. chain[w][c].pc \in {"adding", "added", "taking"} => hasQueue
  BY DEF Places, CallsPlaced
<1>3. CASE ListAnswered(w, c)
  BY <1>1, <1>2, <1>3, <1>r DEF ListAnswered
<1>4. CASE AddReaches(w, c) \/ AddReturns(w, c)
  BY <1>2, <1>4, <1>h DEF AddReaches, AddReturns
<1>5. CASE AddFails(w, c) \/ TakeNothing(w, c)
  BY <1>1, <1>5 DEF AddFails, TakeNothing
<1>6. CASE \E r \in Requests : Take(w, c, r)
  BY <1>1, <1>6 DEF Take
<1>7. CASE FetchFails(w, c)
  <2>1. CASE c = "main" /\ Again(w, chain[w]["late"])
    <3>1. chain[w]["main"].pc # "none"
      BY <1>7, <2>1 DEF FetchFails
    <3>2. chain[w]["late"] \in ChainStates /\ chain[w]["late"].pc # "listed"
      BY DEF TasksTyped, Kept, FetchesKept, Calls
    <3>3. /\ chain[w]["late"].pc # "none" => hasQueue
          /\ chain[w]["late"].mine => chain[w]["late"].pc # "none"
          /\ task[w].pc = "fetching"
      BY <3>1, <3>2 DEF Places, CallsPlaced, ChainStates, Calls
    <3> QED
      BY <1>q, <1>7, <2>1, <3>2, <3>3, AgainPlaced, FailsPlain, PlacesElse
  <2>2. CASE c = "late" /\ Over(w, "late") /\ UNCHANGED <<task, pool, listVars>>
    <3>1. CallsPlaced(w)' /\ TaskPlaced(w)'
      BY <1>q, <2>2 DEF Over, Places, CallsPlaced, TaskPlaced, NoChain, Calls
    <3> QED
      BY <1>q, <1>7, <3>1, FailsPlain, PlacesElse
  <2> QED
    BY <1>7, <2>1, <2>2, FailsPlain
<1> QED
  BY <1>3, <1>4, <1>5, <1>6, <1>7 DEF FetchSteps

(* So does a step of a task.                                               *)
LEMMA TaskPlaces ==
    ASSUME TasksTyped, CountsTyped, Kept, Places, NEW w \in Tasks, TaskSteps(w)
    PROVE  Places'
<1>n. handledRequestsCount \in Nat
  BY DEF CountsTyped
<1>l. ASSUME Else(w), Left(w) \/ Died(w), UNCHANGED hasQueue
      PROVE  Places'
  BY <1>l, LeftPlaced, PlacesElse DEF Died
<1>e. ASSUME Else(w), Erred(w), UNCHANGED hasQueue, task[w].pc \in WithContext
      PROVE  Places'
  BY <1>e, ErredPlaced, PlacesElse
<1>s. ASSUME Else(w), Stays(w), UNCHANGED <<chain, hasQueue>>
      PROVE  Places'
  BY <1>s, StaysPlaced, PlacesElse
<1>1. CASE StartTask(w)
  <2>1. Began(w) /\ Else(w) /\ UNCHANGED hasQueue
    BY <1>1, StartPlain DEF StartTask, setupVars
  <2>2. chain'[w]["main"].pc = "listed" /\ chain'[w]["late"] = chain[w]["late"]
    BY <2>1 DEF Began, Fetching
  <2>3. CallsPlaced(w)' /\ TaskPlaced(w)'
    BY <2>1, <2>2 DEF Began, Places, CallsPlaced, TaskPlaced, Working, WithContext, Calls
  <2> QED
    BY <2>1, <2>3, PlacesElse
<1>2. CASE FetchTimesOut(w)
  <2>1. /\ chain[w]["main"].pc \in {"adding", "added", "taking"}
        /\ UNCHANGED hasQueue
    BY <1>2 DEF FetchTimesOut, setupVars
  <2>2. hasQueue /\ task[w].pc = "fetching" /\ chain[w]["main"] \in ChainStates
    BY <2>1 DEF Places, CallsPlaced, Calls, TasksTyped
  <2> QED
    BY <1>2, <2>1, <2>2, TimesOutPlain, AgainPlaced, PlacesElse
<1>3. CASE StartJob(w)
  <2>1. UNCHANGED hasQueue /\ task[w].pc = "fetched"
    BY <1>3 DEF StartJob, setupVars
  <2> QED
    BY <1>3, <1>l, <2>1, StartJobPlain, HandlesPlaced, PlacesElse
<1>4. CASE SessionFails(w)
  BY <1>4, <1>l, <1>s, SessionPlain DEF SessionFails, setupVars
<1>5. CASE \E r \in Linked : HandlerAdds(w, r)
  <2>1. UNCHANGED <<task, chain>> /\ hasQueue'
    BY <1>5 DEF HandlerAdds
  <2> QED
    BY <2>1 DEF Places, CallsPlaced, TaskPlaced
<1>6. CASE HandlerReturns(w)
  <2>1. UNCHANGED hasQueue /\ task[w].pc \in WithContext
    BY <1>6 DEF HandlerReturns, setupVars, WithContext, Working
  <2>2. "marking" \in WithContext
    BY DEF WithContext, Working
  <2> QED
    BY <1>6, <1>l, <2>1, <2>2, ReturnPlain, TurnsPlaced, PlacesElse
<1>7. CASE \E b \in BOOLEAN : HandlerThrows(w, b)
  <2>1. UNCHANGED hasQueue /\ task[w].pc \in WithContext
    BY <1>7 DEF HandlerThrows, setupVars, WithContext, Working
  <2> QED
    BY <1>7, <1>l, <1>e, <1>n, <2>1, ThrowPlain
<1>8. CASE MarkReturns(w) \/ ReclaimReturns(w) \/ FailureReported(w)
  <2>1. UNCHANGED hasQueue /\ Ends(w)
    BY <1>8 DEF MarkReturns, ReclaimReturns, FailureReported, setupVars
  <2> QED
    BY <2>1, <1>l, LeavesPlain
<1>9. CASE MarkThrows(w)
  <2>1. UNCHANGED hasQueue /\ task[w].pc \in WithContext
    BY <1>9 DEF MarkThrows, setupVars, WithContext, Working
  <2> QED
    BY <1>9, <1>l, <1>e, <1>s, <1>n, <2>1, MarkThrowPlain
<1>10. CASE GiveUpReturns(w)
  <2>1. /\ UNCHANGED <<chain, hasQueue>> /\ task[w].pc \in WithContext
        /\ task' = [task EXCEPT ![w].pc = "reporting"]
    BY <1>10 DEF GiveUpReturns, setupVars, WithContext, Working
  <2>2. "reporting" \in WithContext
    BY DEF WithContext, Working
  <2>3. Else(w) /\ Turns(w, "reporting")
    BY <2>1, PcPlain
  <2> QED
    BY <2>1, <2>2, <2>3, TurnsPlaced, PlacesElse
<1>11. CASE SourceFailsError(w) \/ ReportFails(w)
  <2>1. /\ UNCHANGED hasQueue /\ task[w].pc \in WithContext
        /\ ErrorHandlerThrows(w)
    BY <1>11 DEF SourceFailsError, ReportFails, setupVars, WithContext, Working
  <2> QED
    BY <1>11, <1>l, <1>e, <1>n, <2>1, ErrorAgain
<1> QED
  BY <1>1, <1>2, <1>3, <1>4, <1>5, <1>6, <1>7, <1>8, <1>9, <1>10, <1>11 DEF TaskSteps

(* When a process begins there is nothing to place.                        *)
Fresh ==
    /\ task = [w \in Tasks |-> IdleTask]
    /\ chain = [w \in Tasks |-> Both(NoChain, NoChain)]

(* A new process has no task and no call.                                  *)
LEMMA NoTasks ==
    ASSUME Fresh
    PROVE  /\ \A w \in Tasks : /\ task[w].pc = "idle" /\ task[w].context = None
                               /\ task[w].request = None /\ ~task[w].fromList
                               /\ chain[w]["main"] = NoChain /\ chain[w]["late"] = NoChain
           /\ NoChain.pc = "none" /\ ~NoChain.mine /\ NoChain.item = None
<1>1. \A w \in Tasks : task[w] = IdleTask
  BY DEF Fresh
<1>2. \A w \in Tasks : chain[w]["main"] = NoChain /\ chain[w]["late"] = NoChain
  BY DEF Fresh, Both, Calls
<1>3. \A w \in Tasks : /\ task[w].pc = "idle" /\ task[w].context = None
                       /\ task[w].request = None /\ ~task[w].fromList
  BY <1>1 DEF IdleTask
<1>4. NoChain.pc = "none" /\ ~NoChain.mine /\ NoChain.item = None
  BY DEF NoChain
<1> QED
  BY <1>2, <1>3, <1>4

(* That is in place.                                                       *)
LEMMA FreshPlaces == Fresh => Places
BY NoTasks DEF Places, CallsPlaced, TaskPlaced, Working, WithContext, Calls

(* Every step keeps the places.                                            *)
LEMMA StepPlaces ==
    ASSUME TasksTyped, CountsTyped, Kept, Places, [Next]_vars
    PROVE  Places'
<1>1. CASE PoolSteps \/ (\E p \in Savers : Persists(p)) \/ UNCHANGED vars
  <2>1. UNCHANGED <<task, chain, hasQueue>>
    BY <1>1 DEF PoolSteps, AskReady, NotReady, FinishAnswered, QueryFails, PauseOnMigration,
                Persists, vars, setupVars
  <2> QED
    BY <2>1 DEF Places, CallsPlaced, TaskPlaced
<1>2. CASE Restart
  <2>1. Fresh'
    BY <1>2 DEF Restart, Fresh
  <2> QED
    BY <2>1, FreshPlaces, PTL
<1> QED
  BY <1>1, <1>2, FetchPlaces, TaskPlaces DEF Next

-----------------------------------------------------------------------------
(* As long as no fetch was late, a task marks what its context has.        *)
OnTime(w) ==
    /\ chain[w]["late"].pc = "none"
    /\ ~chain[w]["late"].mine
    /\ task[w].pc \in WithContext => task[w].request = task[w].context

(* As long as no fetch is late: the property, and each task marks what it  *)
(* handled.                                                                *)
LateKept == lates = 0 => HandledWasProcessed /\ \A w \in Tasks : OnTime(w)

(* What is handled was processed or given up, now or before.               *)
OnlyProcessed ==
    /\ processed \subseteq processed'
    /\ gaveUp \subseteq gaveUp'
    /\ \A r \in Requests : status'[r] = "handled" =>
          status[r] = "handled" \/ r \in processed' \cup gaveUp'
    /\ \A r \in Requests : <<"list", r>> \in closed' =>
          <<"list", r>> \in closed \/ r \in processed' \cup gaveUp'

(* What was handled was processed, if what is handled now was.             *)
LEMMA ProcessedStep ==
    ASSUME HandledWasProcessed, OnlyProcessed
    PROVE  HandledWasProcessed'
BY DEF HandledWasProcessed, OnlyProcessed

(* The other tasks stay on time.                                           *)
LEMMA OnTimeElse ==
    ASSUME NEW w \in Tasks, Else(w), OnTime(w)', \A v \in Tasks : OnTime(v)
    PROVE  \A v \in Tasks : OnTime(v)'
<1> SUFFICES ASSUME NEW v \in Tasks, v # w
             PROVE  OnTime(v)'
  OBVIOUS
<1> QED
  BY DEF Else, OnTime

(* What may become of a task, without a late call.                         *)
LEMMA OnTimeMoves ==
    ASSUME TasksTyped, NEW w \in Tasks, OnTime(w),
           \/ Left(w) \/ Died(w)
           \/ Stays(w) /\ UNCHANGED chain
           \/ Erred(w) /\ task[w].pc \in WithContext
           \/ (\E pc : Turns(w, pc)) /\ task[w].pc \in WithContext /\ UNCHANGED chain
           \/ Handles(w)
    PROVE  OnTime(w)'
BY DEF Left, Died, Stays, Erred, Turns, SameJob, Handles, OnTime

(* A call that is not late keeps its task on time.                         *)
LEMMA FetchOnTime ==
    ASSUME TasksTyped, Kept, Places, \A v \in Tasks : OnTime(v),
           NEW w \in Tasks, NEW c \in Calls, FetchSteps(w, c)
    PROVE  \A v \in Tasks : OnTime(v)'
<1>0. chain[w]["late"].pc = "none" /\ chain[w][c] \in ChainStates
  BY DEF OnTime, TasksTyped
<1>1. c = "main" /\ chain[w][c].pc # "none" /\ task[w].pc = "fetching"
  BY <1>0 DEF FetchSteps, ListAnswered, AddReaches, AddReturns, AddFails, TakeNothing, Take,
              FetchFails, Calls, Places, CallsPlaced
<1>2. ASSUME NEW r \in Requests \cup {None}, Returns(w, c, r)
      PROVE  \A v \in Tasks : OnTime(v)'
  <2>1. Else(w) /\ Gave(w, c, r)
    BY <1>2, ReturnsPlain
  <2>2. OnTime(w)'
    BY <1>1, <2>1 DEF Gave, Over, OnTime, Calls, WithContext, Working
  <2> QED
    BY <2>1, <2>2, OnTimeElse
<1>3. ASSUME NEW place, Goes(w, c, place)
      PROVE  \A v \in Tasks : OnTime(v)'
  <2>1. Else(w) /\ Went(w, c, place)
    BY <1>3, GoesPlain
  <2>2. OnTime(w)'
    BY <1>1, <2>1 DEF Went, OnTime, Calls
  <2> QED
    BY <2>1, <2>2, OnTimeElse
<1>4. CASE FetchFails(w, c)
  <2>1. Else(w) /\ Again(w, chain[w]["late"])
    BY <1>1, <1>4, FailsPlain
  <2>2. OnTime(w)'
    BY <1>1, <2>1 DEF Again, Stays, SameJob, OnTime, WithContext, Working
  <2> QED
    BY <2>1, <2>2, OnTimeElse
<1>5. chain[w][c].item \in Requests \cup {None}
  BY <1>0 DEF ChainStates
<1> QED
  BY <1>2, <1>3, <1>4, <1>5 DEF FetchSteps, ListAnswered, AddReaches, AddReturns, AddFails,
                            TakeNothing, Take

(* A step of a task keeps it on time.                                      *)
LEMMA TaskOnTime ==
    ASSUME TasksTyped, CountsTyped, Places, \A v \in Tasks : OnTime(v),
           NEW w \in Tasks, TaskSteps(w), lates' = 0
    PROVE  \A v \in Tasks : OnTime(v)'
<1>n. handledRequestsCount \in Nat /\ lates \in Nat
  BY DEF CountsTyped
<1>m. ASSUME Else(w),
             \/ Left(w) \/ Died(w)
             \/ Stays(w) /\ UNCHANGED chain
             \/ Erred(w) /\ task[w].pc \in WithContext
             \/ (\E pc : Turns(w, pc)) /\ task[w].pc \in WithContext /\ UNCHANGED chain
             \/ Handles(w)
      PROVE  \A v \in Tasks : OnTime(v)'
  BY <1>m, OnTimeMoves, OnTimeElse
<1>1. CASE StartTask(w)
  <2>1. Began(w) /\ Else(w)
    BY <1>1, StartPlain
  <2>2. OnTime(w)'
    BY <2>1 DEF Began, OnTime, WithContext, Working
  <2> QED
    BY <2>1, <2>2, OnTimeElse
<1>2. CASE FetchTimesOut(w)
  BY <1>n, <1>2 DEF FetchTimesOut
<1>3. CASE StartJob(w) \/ SessionFails(w)
  BY <1>3, <1>m, StartJobPlain, SessionPlain
<1>4. CASE \E r \in Linked : HandlerAdds(w, r)
  BY <1>4 DEF HandlerAdds, OnTime
<1>5. CASE HandlerReturns(w)
  BY <1>5, <1>m, ReturnPlain DEF HandlerReturns, WithContext, Working
<1>6. CASE \E b \in BOOLEAN : HandlerThrows(w, b)
  BY <1>6, <1>m, <1>n, ThrowPlain DEF HandlerThrows, WithContext, Working
<1>7. CASE MarkReturns(w) \/ ReclaimReturns(w) \/ FailureReported(w)
  BY <1>7, <1>m, LeavesPlain DEF MarkReturns, ReclaimReturns, FailureReported
<1>8. CASE MarkThrows(w)
  BY <1>8, <1>m, <1>n, MarkThrowPlain DEF MarkThrows, WithContext, Working
<1>9. CASE GiveUpReturns(w)
  BY <1>9, <1>m, PcPlain DEF GiveUpReturns, WithContext, Working
<1>10. CASE SourceFailsError(w) \/ ReportFails(w)
  BY <1>10, <1>m, <1>n, ErrorAgain DEF SourceFailsError, ReportFails, WithContext, Working
<1> QED
  BY <1>1, <1>2, <1>3, <1>4, <1>5, <1>6, <1>7, <1>8, <1>9, <1>10 DEF TaskSteps

(* A storage call of a request that is done with marks no other.           *)
LEMMA MarksProcessed ==
    ASSUME TasksTyped, NEW w \in Tasks, NEW r, SourceMarks(w, r),
           r \in processed \cup gaveUp, UNCHANGED <<processed, gaveUp>>
    PROVE  OnlyProcessed
<1>1. CASE /\ status' = IF r \in busy THEN [status EXCEPT ![r] = "handled"] ELSE status
           /\ closed' = IF r \in busy THEN closed \cup {<<"queue", r>>} ELSE closed
  <2>1. \A x \in Requests : status'[x] = "handled" => status[x] = "handled" \/ x = r
    BY <1>1 DEF TasksTyped
  <2>2. \A x : <<"list", x>> \in closed' => <<"list", x>> \in closed
    BY <1>1
  <2> QED
    BY <2>1, <2>2 DEF OnlyProcessed
<1>2. CASE UNCHANGED status /\ closed' = closed \cup {<<"list", r>>}
  BY <1>2 DEF OnlyProcessed
<1> QED
  BY <1>1, <1>2 DEF SourceMarks, queueVars

(* A call that throws may write what was processed.                        *)
LEMMA ThrowsProcessed ==
    ASSUME TasksTyped, NEW w \in Tasks, NEW r, NEW new, SourceThrows(w, r, new),
           new = "handled" => r \in processed \cup gaveUp,
           processed \subseteq processed', gaveUp \subseteq gaveUp', UNCHANGED closed
    PROVE  OnlyProcessed
<1>1. UNCHANGED status \/ status' = [status EXCEPT ![r] = new]
  BY DEF SourceThrows, queueVars
<1>2. \A x \in Requests : status'[x] = "handled" =>
          status[x] = "handled" \/ (x = r /\ new = "handled")
  BY <1>1 DEF TasksTyped
<1> QED
  BY <1>2 DEF OnlyProcessed

(* A step of a task on time writes what was processed.                     *)
LEMMA TaskProcessed ==
    ASSUME TasksTyped, CountsTyped, Kept, \A v \in Tasks : OnTime(v),
           NEW w \in Tasks, TaskSteps(w)
    PROVE  OnlyProcessed
<1>n. handledRequestsCount \in Nat
  BY DEF CountsTyped
<1>k. /\ task[w].pc = "marking" => task[w].context \in processed
      /\ task[w].pc = "givingUp" => task[w].context \in gaveUp
      /\ task[w].pc = "marking" => task[w].request = task[w].context
  BY DEF Kept, MarksKept, OnTime, WithContext, Working
<1>g. Erred(w) => gaveUp \subseteq gaveUp'
  BY DEF Erred
<1>1. CASE \/ StartTask(w) \/ FetchTimesOut(w) \/ StartJob(w) \/ SessionFails(w)
           \/ FailureReported(w)
  <2>1. UNCHANGED <<processed, gaveUp, closed, status>>
    BY <1>1 DEF StartTask, FetchTimesOut, StartJob, SessionFails, FailureReported,
                historyVars, queueVars
  <2> QED
    BY <2>1 DEF OnlyProcessed
<1>2. CASE \E r \in Linked : HandlerAdds(w, r)
  BY <1>2 DEF HandlerAdds, historyVars, OnlyProcessed, TasksTyped
<1>3. CASE HandlerReturns(w)
  BY <1>3 DEF HandlerReturns, queueVars, OnlyProcessed
<1>4. CASE \E b \in BOOLEAN : HandlerThrows(w, b)
  <2>1. UNCHANGED <<processed, closed, status>> /\ gaveUp \subseteq gaveUp'
    BY <1>4, <1>n, <1>g, ThrowPlain DEF HandlerThrows, queueVars
  <2> QED
    BY <2>1 DEF OnlyProcessed
<1>5. CASE MarkReturns(w)
  BY <1>5, <1>k, MarksProcessed DEF MarkReturns
<1>6. CASE MarkThrows(w)
  <2>1. UNCHANGED <<processed, closed>> /\ gaveUp \subseteq gaveUp'
    BY <1>6, <1>n, <1>g, MarkThrowPlain DEF MarkThrows
  <2> QED
    BY <1>6, <1>k, <2>1, ThrowsProcessed DEF MarkThrows
<1>7. CASE ReclaimReturns(w)
  <2>1. PICK r : r = task[w].context
    OBVIOUS
  <2>2. UNCHANGED status \/ status' = [status EXCEPT ![r] = "pending"]
    BY <1>7, <2>1 DEF ReclaimReturns, SourceReclaims, queueVars
  <2>3. UNCHANGED <<processed, gaveUp, closed>>
    BY <1>7 DEF ReclaimReturns, historyVars
  <2>4. \A x \in Requests : status'[x] = "handled" => status[x] = "handled"
    BY <2>2 DEF TasksTyped
  <2> QED
    BY <2>3, <2>4 DEF OnlyProcessed
<1>8. CASE GiveUpReturns(w)
  BY <1>8, <1>k, MarksProcessed DEF GiveUpReturns
<1>9. CASE SourceFailsError(w)
  <2>1. UNCHANGED <<processed, closed>> /\ gaveUp \subseteq gaveUp'
    BY <1>9, <1>n, <1>g, ErrorAgain DEF SourceFailsError
  <2> QED
    BY <1>9, <1>k, <2>1, ThrowsProcessed DEF SourceFailsError
<1>10. CASE ReportFails(w)
  <2>1. UNCHANGED <<processed, closed, status>> /\ gaveUp \subseteq gaveUp'
    BY <1>10, <1>n, <1>g, ErrorAgain DEF ReportFails, queueVars
  <2> QED
    BY <2>1 DEF OnlyProcessed
<1> QED
  BY <1>1, <1>2, <1>3, <1>4, <1>5, <1>6, <1>7, <1>8, <1>9, <1>10 DEF TaskSteps

(* A step of a call writes nothing as handled.                             *)
LEMMA FetchProcessed ==
    ASSUME TasksTyped, NEW w \in Tasks, NEW c \in Calls, FetchSteps(w, c)
    PROVE  OnlyProcessed
<1>1. UNCHANGED <<processed, gaveUp, closed>>
  BY DEF FetchSteps, ListAnswered, AddReaches, AddReturns, AddFails, TakeNothing, Take, FetchFails,
         historyVars
<1>2. \/ UNCHANGED status
      \/ \E r : status' = [status EXCEPT ![r] = "pending"]
  BY DEF FetchSteps, ListAnswered, AddReaches, AddTo, AddReturns, AddFails, TakeNothing, Take,
         FetchFails, queueVars
<1>3. \A x \in Requests : status'[x] = "handled" => status[x] = "handled"
  BY <1>2 DEF TasksTyped
<1> QED
  BY <1>1, <1>3 DEF OnlyProcessed

(* A new process is on time.                                               *)
LEMMA FreshOnTime == Fresh => \A w \in Tasks : OnTime(w)
BY NoTasks DEF OnTime, WithContext, Working

(* Every step keeps LateKept.                                              *)
LEMMA StepLate ==
    ASSUME TasksTyped, CountsTyped, Kept, Places, LateKept, [Next]_vars
    PROVE  LateKept'
<1> SUFFICES ASSUME lates' = 0
             PROVE  HandledWasProcessed' /\ \A w \in Tasks : OnTime(w)'
  BY DEF LateKept
<1>l. lates = 0
  <2>1. lates' = lates \/ lates' = lates + 1
    <3>1. CASE PoolSteps \/ (\E p \in Savers : Persists(p)) \/ UNCHANGED vars
      BY <3>1 DEF PoolSteps, AskReady, NotReady, FinishAnswered, QueryFails, PauseOnMigration,
                  Persists, Fails, boundVars, vars
    <3>2. CASE Restart
      BY <3>2 DEF Restart
    <3>3. ASSUME NEW w \in Tasks, TaskSteps(w)
          PROVE  lates' = lates \/ lates' = lates + 1
      <4>1. CASE StartTask(w) \/ StartJob(w) \/ SessionFails(w) \/ FailureReported(w)
                 \/ ReportFails(w)
        BY <4>1 DEF StartTask, StartJob, SessionFails, FailureReported, ReportFails, Fails,
                    boundVars
      <4>2. CASE FetchTimesOut(w)
        BY <4>2 DEF FetchTimesOut
      <4>3. CASE \/ \E r \in Linked : HandlerAdds(w, r)
                 \/ HandlerReturns(w)
                 \/ \E b \in BOOLEAN : HandlerThrows(w, b)
        BY <4>3 DEF HandlerAdds, HandlerReturns, HandlerThrows, boundVars
      <4>4. CASE MarkReturns(w) \/ ReclaimReturns(w) \/ GiveUpReturns(w)
        BY <4>4 DEF MarkReturns, ReclaimReturns, GiveUpReturns, boundVars
      <4>5. CASE MarkThrows(w) \/ SourceFailsError(w)
        BY <4>5 DEF MarkThrows, SourceFailsError, SourceThrows, Fails, boundVars
      <4> QED
        BY <3>3, <4>1, <4>2, <4>3, <4>4, <4>5 DEF TaskSteps
    <3>4. ASSUME NEW w \in Tasks, NEW c \in Calls, FetchSteps(w, c)
          PROVE  lates' = lates \/ lates' = lates + 1
      BY <3>4 DEF FetchSteps, ListAnswered, AddReaches, AddReturns, AddFails, TakeNothing, Take,
                  FetchFails, Fails, boundVars
    <3> QED
      BY <3>1, <3>2, <3>3, <3>4 DEF Next
  <2> QED
    BY <2>1 DEF CountsTyped
<1>h. HandledWasProcessed /\ \A w \in Tasks : OnTime(w)
  BY <1>l DEF LateKept
<1>1. CASE PoolSteps \/ (\E p \in Savers : Persists(p)) \/ UNCHANGED vars
  <2>1. UNCHANGED <<task, chain, status, processed, gaveUp, closed>>
    BY <1>1 DEF PoolSteps, AskReady, NotReady, FinishAnswered, QueryFails, PauseOnMigration,
                Persists, vars, queueVars, historyVars
  <2> QED
    BY <1>h, <2>1 DEF HandledWasProcessed, OnTime
<1>2. CASE Restart
  <2>1. Fresh'
    BY <1>2 DEF Restart, Fresh
  <2>2. (\A w \in Tasks : OnTime(w))'
    BY <2>1, FreshOnTime, PTL
  <2>3. HandledWasProcessed'
    BY <1>h, <1>2 DEF Restart, HandledWasProcessed
  <2> QED
    BY <2>2, <2>3
<1>3. ASSUME NEW w \in Tasks, TaskSteps(w)
      PROVE  HandledWasProcessed' /\ \A v \in Tasks : OnTime(v)'
  BY <1>h, <1>3, TaskOnTime, TaskProcessed, ProcessedStep
<1>4. ASSUME NEW w \in Tasks, NEW c \in Calls, FetchSteps(w, c)
      PROVE  HandledWasProcessed' /\ \A v \in Tasks : OnTime(v)'
  BY <1>h, <1>4, FetchOnTime, FetchProcessed, ProcessedStep
<1> QED
  BY <1>1, <1>2, <1>3, <1>4 DEF Next

-----------------------------------------------------------------------------
(* Types and places, which hold in every state.                            *)
TasksInv == CrawlerInv /\ CountsTyped /\ Places

(* At first there is no task.                                              *)
LEMMA InitFresh == CrawlerInit => Fresh
BY DEF CrawlerInit, Fresh

(* Every step keeps the counts typed.                                      *)
LEMMA StepCounts ==
    ASSUME CrawlerInv, CountsTyped, [Next]_vars
    PROVE  CountsTyped'
BY FetchCounts, PoolCounts, RestartCounts, TaskCounts DEF Next, CrawlerInv, ListInv

(* The types and places hold in every state.                               *)
LEMMA TasksInvHolds == CrawlerSpec => []TasksInv
<1>1. CrawlerInit => CountsTyped /\ Places
  BY InitCounts, InitFresh, FreshPlaces
<1>2. CrawlerInv /\ CountsTyped /\ Places /\ [Next]_vars => CountsTyped' /\ Places'
  BY StepCounts, StepPlaces DEF CrawlerInv
<1> QED
  BY <1>1, <1>2, CrawlerInvHolds, PTL DEF CrawlerSpec, TasksInv

(* LateKept holds at first.                                                *)
LEMMA InitLate == CrawlerInit => LateKept
<1> SUFFICES ASSUME CrawlerInit
             PROVE  LateKept
  OBVIOUS
<1>1. \A w \in Tasks : OnTime(w)
  BY InitFresh, FreshOnTime
<1>2. HandledWasProcessed
  BY DEF CrawlerInit, HandledWasProcessed
<1> QED
  BY <1>1, <1>2 DEF LateKept

(* As long as no fetch is answered after its timeout, whatever else fails, *)
(* dies or is repeated: what the queue has as handled, or a task marked in *)
(* the list, was given to the handler, which returned, or was given up.    *)
THEOREM ProcessedUnlessLateHolds == CrawlerSpec => []ProcessedUnlessLate
<1>1. TasksInv /\ LateKept /\ [Next]_vars => LateKept'
  BY StepLate DEF TasksInv, CrawlerInv
<1>2. LateKept => ProcessedUnlessLate
  BY DEF LateKept, ProcessedUnlessLate
<1> QED
  BY <1>1, <1>2, InitLate, TasksInvHolds, PTL DEF CrawlerSpec

-----------------------------------------------------------------------------
(* The requests of the queue that a task has: the one it fetched, and the  *)
(* one of its context, which a late fetch makes another.                   *)
Held(w) ==
    {r \in Requests :
        /\ task[w].pc \in Working
        /\ ~task[w].fromList
        /\ r = task[w].request \/ r = task[w].context}

(* Only after the error handler has marked it, perhaps without knowing, is *)
(* what a task has no longer in progress.                                  *)
HeldKept(w) ==
    \A r \in Held(w) :
        \/ r \in busy
        \/ task[w].pc \in {"givingUp", "reporting", "reclaiming"} /\ status[r] = "handled"

(* The queue has what it gave out; nobody has what another task has.       *)
HeldBusy ==
    /\ \A r \in busy : status[r] # "absent"
    /\ \A w \in Tasks : HeldKept(w)
    /\ \A v, w \in Tasks : v # w => Held(v) \cap Held(w) = {}

(* A step of w takes away from the others nothing that they have.          *)
CalmQueue(w) ==
    /\ \A r \in busy : r \in busy' \/ r \in Held(w)
    /\ \A r \in Requests : status[r] = "handled" => r \in busy \/ status'[r] = "handled"
    /\ \A r \in busy' : status'[r] # "absent"

(* What the others have they keep, if the step is calm.                    *)
LEMMA HeldElse ==
    ASSUME HeldBusy, NEW w \in Tasks, Else(w), CalmQueue(w), HeldKept(w)',
           \A r \in Held(w)' : r \in Held(w) \/ \A v \in Tasks : r \notin Held(v)
    PROVE  HeldBusy'
<1>1. \A v \in Tasks : v # w => Held(v)' = Held(v) /\ task'[v] = task[v]
  BY DEF Else, Held
<1>2. ASSUME NEW v \in Tasks, v # w, NEW r \in Held(v)
      PROVE  \/ r \in busy'
             \/ task[v].pc \in {"givingUp", "reporting", "reclaiming"} /\ status'[r] = "handled"
  <2>1. r \notin Held(w) /\ r \in Requests
    BY <1>2 DEF HeldBusy, Held
  <2> QED
    BY <1>2, <2>1 DEF HeldBusy, HeldKept, CalmQueue
<1>3. \A v \in Tasks : HeldKept(v)'
  BY <1>1, <1>2 DEF HeldKept
<1>4. \A v \in Tasks : v # w => Held(v)' \cap Held(w)' = {}
  BY <1>1 DEF HeldBusy
<1>5. \A u, v \in Tasks : u # v => Held(u)' \cap Held(v)' = {}
  BY <1>1, <1>4 DEF HeldBusy
<1> QED
  BY <1>3, <1>5 DEF HeldBusy, CalmQueue

(* The queue itself does not change.                                       *)
LEMMA CalmStill ==
    ASSUME HeldBusy, NEW w \in Tasks, UNCHANGED <<status, busy>>
    PROVE  CalmQueue(w)
BY DEF HeldBusy, CalmQueue

(* What a task marks or reclaims is its own, or not of the queue.          *)
LEMMA CalmMarks ==
    ASSUME TasksTyped, CountsTyped, Places, HeldBusy, NEW w \in Tasks,
           NEW r \in {task[w].request, task[w].context},
           SourceMarks(w, r) \/ SourceReclaims(w, r), task[w].pc \in Working
    PROVE  CalmQueue(w)
<1>1. CASE task[w].source = "list" /\ UNCHANGED queueVars
  BY <1>1, CalmStill DEF queueVars
<1>2. CASE /\ task[w].source = "queue"
           /\ \E new \in {"handled", "pending"} :
                 status' = IF r \in busy THEN [status EXCEPT ![r] = new] ELSE status
           /\ busy' = busy \ {r}
  <2>1. ~task[w].fromList /\ (r \in busy => r \in Held(w))
    BY <1>2 DEF Places, TaskPlaced, Held, CountsTyped
  <2>2. \A x \in Requests : x # r => status'[x] = status[x]
    BY <1>2 DEF TasksTyped
  <2>3. \A x \in Requests : x \notin busy => status'[x] = status[x]
    BY <1>2 DEF TasksTyped
  <2> QED
    BY <1>2, <2>1, <2>2, <2>3 DEF HeldBusy, CalmQueue, CountsTyped
<1> QED
  BY <1>1, <1>2 DEF SourceMarks, SourceReclaims

(* A call that throws is calm.                                             *)
LEMMA CalmThrows ==
    ASSUME TasksTyped, CountsTyped, HeldBusy, NEW w \in Tasks, NEW r,
           NEW new \in {"handled", "pending"}, SourceThrows(w, r, new)
    PROVE  CalmQueue(w) /\ UNCHANGED busy /\ \A x \in Requests : x \notin busy => status'[x] = status[x]
<1>1. UNCHANGED <<status, busy>> \/ (status' = [status EXCEPT ![r] = new] /\ r \in busy /\ UNCHANGED busy)
  BY DEF SourceThrows, queueVars
<1> QED
  BY <1>1 DEF TasksTyped, HeldBusy, CalmQueue, CountsTyped

(* A step of a call keeps what tasks have.                                 *)
LEMMA FetchHeld ==
    ASSUME TasksInv, HeldBusy, NEW w \in Tasks, NEW c \in Calls, FetchSteps(w, c)
    PROVE  HeldBusy'
<1>t. TasksTyped /\ CountsTyped /\ Kept /\ Places
  BY DEF TasksInv, CrawlerInv
<1>c. chain[w][c] \in ChainStates /\ chain[w][c].item \in Requests \cup {None}
  BY <1>t DEF TasksTyped, ChainStates
<1>p. ~task[w].fromList \/ task[w].pc \notin Working \/ ~chain[w]["late"].mine
  BY <1>t DEF Places, TaskPlaced
(* What a call gives is the task's, and nobody else has it.                *)
<1>1. ASSUME NEW r \in Requests \cup {None}, Returns(w, c, r), chain[w][c].pc # "none",
             CalmQueue(w),
             \A x \in Held(w) : x \in busy => x \in busy',
             \/ r = None
             \/ ~hasQueue /\ c = "main"
             \/ r \in busy' /\ \A v \in Tasks : r \notin Held(v)
      PROVE  HeldBusy'
  <2>1. Else(w) /\ Gave(w, c, r)
    BY <1>1, <1>t, ReturnsPlain
  <2>2. CASE c = "main"
    <3>1. task[w].context = None
      BY <1>1, <1>t, <2>2 DEF Places, CallsPlaced, TaskPlaced, WithContext, Working
    <3>2. Held(w)' \subseteq {r} \ {None} /\ (~hasQueue => Held(w)' = {})
      BY <2>1, <2>2, <3>1, CrawlerAssumption DEF Gave, Held
    <3> QED
      BY <1>1, <2>1, <2>2, <3>2, HeldElse DEF HeldKept
  <2>3. CASE c = "late"
    <3>1. Held(w)' \subseteq Held(w) \cup ({r} \ {None})
      BY <2>1, <2>3, CrawlerAssumption DEF Gave, Held
    <3>2. \A x \in Held(w) : \/ x \in busy'
                              \/ /\ task'[w].pc \in {"givingUp", "reporting", "reclaiming"}
                                 /\ status'[x] = "handled"
      <4>1. task'[w].pc = task[w].pc
        BY <2>1, <2>3 DEF Gave
      <4> QED
        BY <1>1, <4>1 DEF HeldBusy, HeldKept, CalmQueue, Held
    <3> QED
      BY <1>1, <2>1, <2>3, <3>1, <3>2, HeldElse, CrawlerAssumption DEF HeldKept, Calls
  <2> QED
    BY <2>2, <2>3 DEF Calls
(* The others move the call, and leave the task what it has.               *)
<1>2. ASSUME Else(w), CalmQueue(w), task'[w] = task[w], UNCHANGED busy
      PROVE  HeldBusy'
  <2>1. Held(w)' = Held(w)
    BY <1>2 DEF Held
  <2>2. HeldKept(w)'
    BY <1>2, <2>1 DEF HeldBusy, HeldKept, CalmQueue, Held
  <2> QED
    BY <1>2, <2>1, <2>2, HeldElse
<1>3. CASE ListAnswered(w, c)
  <2>1. UNCHANGED <<status, busy>> /\ CalmQueue(w)
    BY <1>3, CalmStill DEF ListAnswered, queueVars
  <2>2. CASE ~hasQueue /\ Returns(w, c, chain[w][c].item)
    <3>1. c = "main"
      BY <1>3, <1>t DEF ListAnswered, Kept, FetchesKept, Calls
    <3> QED
      BY <1>1, <1>3, <1>c, <2>1, <2>2, <3>1 DEF ListAnswered
  <2>3. CASE Goes(w, c, IF chain[w][c].item = None THEN "taking" ELSE "adding")
    BY <1>t, <1>2, <2>1, <2>3, GoesPlain DEF Went
  <2> QED
    BY <1>3, <2>2, <2>3 DEF ListAnswered
<1>4. CASE AddReaches(w, c)
  <2>1. CalmQueue(w) /\ UNCHANGED busy
    <3>1. PICK r : r = chain[w][c].item
      OBVIOUS
    <3>2. /\ UNCHANGED status \/ (status[r] = "absent" /\ status' = [status EXCEPT ![r] = "pending"])
          /\ UNCHANGED busy
      BY <1>4, <3>1 DEF AddReaches, AddTo
    <3>3. \A x \in Requests : \/ status'[x] = status[x]
                              \/ status[x] = "absent" /\ status'[x] = "pending"
      BY <1>t, <3>2 DEF TasksTyped
    <3>4. busy \subseteq Requests /\ \A x \in busy : status[x] # "absent"
      BY <1>t DEF HeldBusy, CountsTyped
    <3>5. \A x \in Requests : status[x] # "absent" => status'[x] = status[x]
      BY <3>3
    <3>6. \A x \in busy : status'[x] # "absent"
      BY <3>4, <3>5
    <3> QED
      BY <3>2, <3>5, <3>6 DEF CalmQueue
  <2> QED
    BY <1>t, <1>2, <1>4, <2>1, GoesPlain DEF AddReaches, Went
<1>5. CASE AddReturns(w, c)
  BY <1>t, <1>2, <1>5, GoesPlain, CalmStill DEF AddReturns, Went, queueVars
<1>6. CASE AddFails(w, c) \/ TakeNothing(w, c)
  <2>1. Returns(w, c, None) /\ UNCHANGED <<status, busy>> /\ chain[w][c].pc # "none"
    BY <1>6 DEF AddFails, TakeNothing, queueVars
  <2> QED
    BY <1>1, <2>1, CalmStill
<1>7. CASE \E r \in Requests : Take(w, c, r)
  <2>1. PICK r \in Requests : Take(w, c, r)
    BY <1>7
  <2>2. /\ status[r] = "pending" /\ r \notin busy
        /\ busy' = busy \cup {r} /\ UNCHANGED status
        /\ Returns(w, c, r) /\ chain[w][c].pc # "none"
    BY <2>1 DEF Take, Available
  <2>3. CalmQueue(w)
    BY <2>2 DEF CalmQueue, HeldBusy
  <2>4. \A v \in Tasks : r \notin Held(v)
    BY <2>2 DEF HeldBusy, HeldKept
  <2> QED
    BY <1>1, <2>2, <2>3, <2>4
<1>8. CASE FetchFails(w, c)
  <2>1. UNCHANGED <<status, busy>> /\ Else(w)
    BY <1>8, <1>t, FailsPlain DEF FetchFails, queueVars
  <2>2. CASE c = "main" /\ Again(w, chain[w]["late"])
    <3>1. task[w].pc = "fetching"
      BY <1>8, <1>t, <2>2 DEF FetchFails, Places, CallsPlaced
    <3>2. Held(w)' = {}
      BY <2>2, <3>1 DEF Again, Stays, Held, Working
    <3> QED
      BY <2>1, <3>2, CalmStill, HeldElse DEF HeldKept
  <2>3. CASE UNCHANGED task
    BY <1>2, <2>1, <2>3, CalmStill
  <2> QED
    BY <1>8, <1>t, <2>2, <2>3, FailsPlain
<1> QED
  BY <1>3, <1>4, <1>5, <1>6, <1>7, <1>8 DEF FetchSteps

(* A task that errs, turns, stays or leaves has what it had, or nothing.   *)
LEMMA MovesHeld ==
    ASSUME NEW w \in Tasks,
           \/ Left(w) \/ Died(w)
           \/ Stays(w)
           \/ Erred(w) /\ task[w].pc \in WithContext
           \/ (\E pc : Turns(w, pc)) /\ task[w].pc \in WithContext
    PROVE  Held(w)' \subseteq Held(w)
<1>1. CASE Left(w) \/ Died(w)
  BY <1>1 DEF Left, Died, Held, Working
<1>2. CASE SameJob(w) /\ task[w].pc \in Working
  BY <1>2 DEF SameJob, Held
<1>3. CASE SameJob(w) /\ task'[w].pc = task[w].pc
  BY <1>3 DEF SameJob, Held
<1> QED
  BY <1>1, <1>2, <1>3 DEF Stays, Erred, Turns, WithContext

(* A task that moves has still what it had.                                *)
LEMMA MovesKept ==
    ASSUME CountsTyped, HeldBusy, NEW w \in Tasks, Else(w), CalmQueue(w), UNCHANGED busy,
           \/ Left(w) \/ Died(w)
           \/ Stays(w)
           \/ Erred(w) /\ task[w].pc \in WithContext
           \/ Turns(w, "marking") /\ task[w].pc = "handling"
    PROVE  HeldBusy'
<1>1. Held(w)' \subseteq Held(w)
  <2>1. "handling" \in WithContext
    BY DEF WithContext, Working
  <2> QED
    BY <2>1, MovesHeld
<1>2. \A r \in Held(w) : r \in busy' \/ (status[r] = "handled" /\ status'[r] = "handled")
  BY DEF HeldBusy, HeldKept, CalmQueue, Held
<1>3. HeldKept(w)'
  <2>1. CASE Left(w) \/ Died(w)
    BY <2>1 DEF Left, Died, Held, HeldKept, Working
  <2>2. CASE Erred(w)
    BY <1>1, <1>2, <2>2 DEF Erred, HeldKept
  <2>3. CASE Stays(w)
    BY <1>1, <1>2, <2>3 DEF Stays, HeldBusy, HeldKept
  <2>4. CASE task[w].pc = "handling"
    BY <1>1, <2>4 DEF HeldBusy, HeldKept
  <2> QED
    BY <2>1, <2>2, <2>3, <2>4
<1> QED
  BY <1>1, <1>3, HeldElse

(* A step of a task keeps what tasks have.                                 *)
LEMMA TaskHeld ==
    ASSUME TasksInv, HeldBusy, NEW w \in Tasks, TaskSteps(w)
    PROVE  HeldBusy'
<1>t. TasksTyped /\ CountsTyped /\ Kept /\ Places
  BY DEF TasksInv, CrawlerInv
<1>n. handledRequestsCount \in Nat
  BY <1>t DEF CountsTyped
<1>e. ASSUME Else(w), Held(w)' = {}, CalmQueue(w)
      PROVE  HeldBusy'
  BY <1>e, HeldElse DEF HeldKept
<1>1. CASE StartTask(w)
  <2>1. Began(w) /\ Else(w) /\ UNCHANGED <<status, busy>>
    BY <1>t, <1>1, StartPlain DEF StartTask, queueVars
  <2>2. Held(w)' = {}
    BY <2>1 DEF Began, Held, Working
  <2> QED
    BY <2>1, <2>2, <1>e, CalmStill
<1>2. CASE FetchTimesOut(w)
  <2>1. Again(w, chain[w]["main"]) /\ Else(w) /\ UNCHANGED <<status, busy>>
    BY <1>t, <1>2, TimesOutPlain DEF FetchTimesOut, queueVars
  <2>2. task[w].pc = "fetching"
    BY <1>t, <1>2 DEF FetchTimesOut, Places, CallsPlaced
  <2>3. Held(w)' = {}
    BY <2>1, <2>2 DEF Again, Stays, Held, Working
  <2> QED
    BY <2>1, <2>3, <1>e, CalmStill
<1>3. CASE StartJob(w)
  <2>1. Else(w) /\ UNCHANGED <<status, busy>> /\ task[w].pc = "fetched"
    BY <1>t, <1>3, StartJobPlain DEF StartJob, queueVars
  <2>2. CASE Handles(w)
    <3>1. Held(w)' \subseteq Held(w)
      BY <2>1, <2>2 DEF Handles, Held, Working
    <3>2. HeldKept(w)'
      BY <2>1, <3>1 DEF HeldBusy, HeldKept
    <3> QED
      BY <2>1, <3>1, <3>2, HeldElse, CalmStill
  <2>3. CASE Left(w)
    BY <1>t, <2>1, <2>3, MovesKept, CalmStill
  <2> QED
    BY <1>t, <1>3, <2>2, <2>3, StartJobPlain
<1>4. CASE SessionFails(w) \/ FailureReported(w)
  <2>1. UNCHANGED <<status, busy>>
    BY <1>4 DEF SessionFails, FailureReported, queueVars
  <2> QED
    BY <1>t, <1>4, <2>1, SessionPlain, LeavesPlain, MovesKept, CalmStill DEF FailureReported
<1>5. CASE \E r \in Linked : HandlerAdds(w, r)
  <2>1. PICK r \in Linked : HandlerAdds(w, r)
    BY <1>5
  <2>2. /\ UNCHANGED <<task, chain, busy>>
        /\ status[r] = "absent" /\ status' = [status EXCEPT ![r] = "pending"]
    BY <2>1 DEF HandlerAdds
  <2>3. \A x \in Requests : status[x] # "absent" => status'[x] = status[x]
    BY <1>t, <2>2 DEF TasksTyped
  <2>4. \A x \in busy : x \in Requests /\ status[x] # "absent"
    BY <1>t DEF CountsTyped, HeldBusy
  <2>5. CalmQueue(w)
    BY <2>2, <2>3, <2>4 DEF CalmQueue
  <2> QED
    BY <1>t, <2>2, <2>5, MovesKept DEF Stays, SameJob, Else
<1>6. CASE HandlerReturns(w)
  <2>1. UNCHANGED <<status, busy>> /\ task[w].pc = "handling"
    BY <1>6 DEF HandlerReturns, queueVars
  <2> QED
    BY <1>t, <1>6, <2>1, ReturnPlain, MovesKept, CalmStill
<1>7. CASE \E b \in BOOLEAN : HandlerThrows(w, b)
  <2>1. UNCHANGED <<status, busy>> /\ task[w].pc \in WithContext
    BY <1>7 DEF HandlerThrows, queueVars, WithContext, Working
  <2> QED
    BY <1>t, <1>n, <1>7, <2>1, ThrowPlain, MovesKept, CalmStill
<1>8. CASE MarkReturns(w) \/ ReclaimReturns(w)
  <2>1. Ends(w) /\ task[w].pc \in Working
    BY <1>8 DEF MarkReturns, ReclaimReturns, Working
  <2>2. Else(w) /\ Left(w)
    BY <1>t, <2>1, LeavesPlain
  <2>3. Held(w)' = {}
    BY <2>2 DEF Left, Held, Working
  <2>4. CalmQueue(w)
    BY <1>t, <1>8, <2>1, CalmMarks DEF MarkReturns, ReclaimReturns
  <2> QED
    BY <2>2, <2>3, <2>4, <1>e
<1>9. CASE MarkThrows(w)
  <2>1. CalmQueue(w) /\ UNCHANGED busy /\ task[w].pc \in WithContext
    BY <1>t, <1>9, CalmThrows DEF MarkThrows, WithContext, Working
  <2> QED
    BY <1>t, <1>n, <1>9, <2>1, MarkThrowPlain, MovesKept
<1>10. CASE GiveUpReturns(w)
  <2>1. /\ task[w].pc = "givingUp" /\ UNCHANGED chain
        /\ task' = [task EXCEPT ![w].pc = "reporting"]
        /\ SourceMarks(w, task[w].context)
    BY <1>10 DEF GiveUpReturns
  <2>2. Else(w) /\ Turns(w, "reporting")
    BY <1>t, <2>1, PcPlain
  <2>3. CalmQueue(w)
    BY <1>t, <2>1, CalmMarks DEF Working
  <2>4. Held(w)' \subseteq Held(w) /\ task'[w].pc = "reporting"
    BY <2>1, <2>2, MovesHeld DEF Turns, WithContext, Working
  <2>5. ASSUME NEW r \in Held(w)
        PROVE  r \in busy' \/ status'[r] = "handled"
    <3>1. CASE r \in busy
      BY <1>t, <2>1, <2>5, <3>1 DEF SourceMarks, queueVars, TasksTyped, Held
    <3>2. CASE r \notin busy
      BY <2>3, <2>5, <3>2 DEF HeldBusy, HeldKept, CalmQueue, Held
    <3> QED
      BY <3>1, <3>2
  <2>6. HeldKept(w)'
    BY <2>4, <2>5 DEF HeldKept
  <2> QED
    BY <2>2, <2>3, <2>4, <2>6, HeldElse
<1>11. CASE SourceFailsError(w)
  <2>1. CalmQueue(w) /\ UNCHANGED busy /\ task[w].pc \in WithContext
    BY <1>t, <1>11, CalmThrows DEF SourceFailsError, WithContext, Working
  <2> QED
    BY <1>t, <1>n, <1>11, <2>1, ErrorAgain, MovesKept DEF SourceFailsError
<1>12. CASE ReportFails(w)
  <2>1. UNCHANGED <<status, busy>> /\ task[w].pc \in WithContext
    BY <1>12 DEF ReportFails, queueVars, WithContext, Working
  <2> QED
    BY <1>t, <1>n, <1>12, <2>1, ErrorAgain, MovesKept, CalmStill DEF ReportFails
<1> QED
  BY <1>1, <1>2, <1>3, <1>4, <1>5, <1>6, <1>7, <1>8, <1>9, <1>10, <1>11, <1>12 DEF TaskSteps

(* A new process has nothing of the queue.                                 *)
LEMMA FreshHeld == Fresh => \A w \in Tasks : Held(w) = {}
BY NoTasks DEF Held, Working

(* Only when no task runs does the queue take back what it gave out.       *)
LEMMA StepHeld ==
    ASSUME TasksInv, HeldBusy, [Next]_vars
    PROVE  HeldBusy'
<1>1. CASE PoolSteps \/ (\E p \in Savers : Persists(p)) \/ UNCHANGED vars
  <2>1. UNCHANGED <<task, status>>
    BY <1>1 DEF PoolSteps, AskReady, NotReady, FinishAnswered, QueryFails, PauseOnMigration,
                Persists, vars, queueVars
  <2>2. UNCHANGED busy \/ (busy' = {} /\ Running = {})
    BY <1>1 DEF PoolSteps, AskReady, NotReady, ResetsQueue, FinishAnswered, QueryFails,
                PauseOnMigration, Persists, vars, queueVars
  <2>3. CASE UNCHANGED busy
    BY <2>1, <2>3 DEF HeldBusy, HeldKept, Held
  <2>4. CASE busy' = {} /\ Running = {}
    <3>1. \A w \in Tasks : Held(w)' = {}
      BY <2>1, <2>4 DEF Running, Held, Working
    <3> QED
      BY <2>4, <3>1 DEF HeldBusy, HeldKept
  <2> QED
    BY <2>2, <2>3, <2>4
<1>2. CASE Restart
  <2>1. Fresh'
    BY <1>2 DEF Restart, Fresh
  <2>2. (\A w \in Tasks : Held(w) = {})'
    BY <2>1, FreshHeld, PTL
  <2>3. busy' = {}
    BY <1>2 DEF Restart
  <2> QED
    BY <2>2, <2>3 DEF HeldBusy, HeldKept
<1> QED
  BY <1>1, <1>2, FetchHeld, TaskHeld DEF Next

(* Nor is there anything at first.                                         *)
LEMMA InitHeld == CrawlerInit => HeldBusy
<1> SUFFICES ASSUME CrawlerInit
             PROVE  HeldBusy
  OBVIOUS
<1>1. \A w \in Tasks : Held(w) = {}
  BY InitFresh, FreshHeld
<1> QED
  BY <1>1 DEF CrawlerInit, HeldBusy, HeldKept

(* In every state the queue has as busy what tasks have, each for itself.  *)
LEMMA HeldBusyHolds == CrawlerSpec => []HeldBusy
<1>1. TasksInv /\ HeldBusy /\ [Next]_vars => HeldBusy'
  BY StepHeld
<1> QED
  BY <1>1, InitHeld, TasksInvHolds, PTL DEF CrawlerSpec

-----------------------------------------------------------------------------
(* The requests of the list: a call that has read one and not given it on, *)
(* or a task that works without a queue, owns it.                          *)
Hands == Calls \cup {"task"}

(* Either hand, or the task itself, has the request.                       *)
Owns(w, p, r) ==
    \/ /\ p \in Calls
       /\ chain[w][p].pc \in {"listed", "adding"}
       /\ chain[w][p].item = r
    \/ /\ p = "task"
       /\ task[w].pc \in Working
       /\ task[w].fromList
       /\ task[w].request = r

(* The task has it somewhere.                                              *)
Owned(w, r) == \E p \in Hands : Owns(w, p, r)

(* Nobody can have the request from the queue.                             *)
Sole(r) == r \in Requests /\ (hasQueue => status[r] = "absent")

(* What the list will still give out.                                      *)
Unread == reclaimed \cup From(nextIndex)

(* One owner at most, of what is not unread.                               *)
OwnedOnce(r) ==
    \A w \in Tasks : \A p \in Hands : Owns(w, p, r) =>
        /\ r \notin Unread
        /\ p \in Calls => r \in listInProgress
        /\ \A v \in Tasks : \A q \in Hands : Owns(v, q, r) => v = w /\ q = p

(* What is read was taken off what is unread; each request has one owner.  *)
ListOnce ==
    /\ listInProgress \cap From(nextIndex) = {}
    /\ \A r \in Requests : Sole(r) => OwnedOnce(r)
    /\ \A r \in Requests : \A v, w \in Tasks :
          Owns(v, "task", r) /\ Owns(w, "task", r) => v = w

(* What a step of w may do to the list: only what w owns becomes unread or *)
(* is let go, and w gets only what was unread or its own.                  *)
TakesOwn(w, r) ==
    /\ Sole(r)
    /\ r \in Unread' => r \in Unread \/ Owned(w, r)
    /\ r \in listInProgress => r \in listInProgress' \/ Owned(w, r)
    /\ \A p \in Hands : Owns(w, p, r)' =>
          /\ r \in Unread \/ Owned(w, r)
          /\ r \notin Unread'
          /\ p \in Calls => r \in listInProgress'
          /\ \A q \in Hands : Owns(w, q, r)' => q = p

(* A step that takes only its own keeps that.                              *)
LEMMA OnceStep ==
    ASSUME ListOnce, NEW w \in Tasks, Else(w),
           (listInProgress \cap From(nextIndex))' = {},
           \A r \in Requests : Sole(r)' => TakesOwn(w, r),
           \A r \in Requests : Owns(w, "task", r)' =>
               Owns(w, "task", r) \/ (Sole(r) /\ Owned(w, r))
    PROVE  ListOnce'
<1>1. \A v \in Tasks : v # w => \A p, r : Owns(v, p, r)' <=> Owns(v, p, r)
  BY DEF Else, Owns
<1>2. ASSUME NEW r \in Requests, Sole(r)'
      PROVE  OwnedOnce(r)'
  <2>1. TakesOwn(w, r) /\ OwnedOnce(r)
    BY <1>2 DEF ListOnce, TakesOwn
  <2>2. ASSUME NEW v \in Tasks, v # w, NEW p \in Hands, Owns(v, p, r)
        PROVE  /\ r \notin Unread' /\ ~Owned(w, r)
               /\ p \in Calls => r \in listInProgress'
               /\ \A q \in Hands : ~Owns(w, q, r)'
    <3>1. r \notin Unread /\ ~Owned(w, r) /\ (p \in Calls => r \in listInProgress)
      BY <2>1, <2>2 DEF OwnedOnce, Owned
    <3> QED
      BY <2>1, <3>1 DEF TakesOwn
  <2>3. ASSUME NEW p \in Hands, Owns(w, p, r)'
        PROVE  /\ r \notin Unread' /\ (p \in Calls => r \in listInProgress')
               /\ \A q \in Hands : Owns(w, q, r)' => q = p
    BY <2>1, <2>3 DEF TakesOwn
  <2>4. \A v \in Tasks : v # w => \A p \in Hands : Owns(v, p, r)' => Owns(v, p, r)
    BY <1>1
  <2>5. \A u, v \in Tasks : \A p, q \in Hands :
            u # w /\ v # w /\ Owns(u, p, r)' /\ Owns(v, q, r)' => u = v /\ p = q
    BY <2>1, <2>4 DEF OwnedOnce
  <2> QED
    BY <2>2, <2>3, <2>4, <2>5 DEF OwnedOnce
<1>3. ASSUME NEW r \in Requests, NEW v \in Tasks, v # w, Owns(v, "task", r)',
             Owns(w, "task", r)'
      PROVE  FALSE
  <2>1. Owns(v, "task", r) /\ "task" \in Hands
    BY <1>1, <1>3 DEF Hands
  <2>2. CASE Owns(w, "task", r)
    BY <1>3, <2>1, <2>2 DEF ListOnce
  <2>3. CASE Sole(r) /\ Owned(w, r)
    BY <1>3, <2>1, <2>3 DEF ListOnce, OwnedOnce, Owned
  <2> QED
    BY <1>3, <2>2, <2>3
<1>4. \A r \in Requests : \A u, v \in Tasks :
          Owns(u, "task", r)' /\ Owns(v, "task", r)' => u = v
  <2>1. \A r \in Requests : \A u, v \in Tasks :
            u # w /\ v # w /\ Owns(u, "task", r)' /\ Owns(v, "task", r)' => u = v
    BY <1>1 DEF ListOnce
  <2> QED
    BY <1>3, <2>1
<1> QED
  BY <1>2, <1>4 DEF ListOnce

(* A step that gives w nothing new, and lets go or gives back one request  *)
(* at most, which it owns or which is in the queue.                        *)
LEMMA OnceLess ==
    ASSUME ListOnce, NEW w \in Tasks, Else(w), UNCHANGED <<requests, nextIndex>>,
           NEW r,
           \A x \in Requests : Sole(x)' => Sole(x),
           Sole(r)' => \E p \in Hands : Owns(w, p, r) /\ ~Owns(w, p, r)',
           \A x \in reclaimed' : x \in reclaimed \/ x = r,
           UNCHANGED listInProgress,
           \A x \in Requests : \A p \in Hands : Owns(w, p, x)' => Owns(w, p, x)
    PROVE  ListOnce'
<1>1. \A x : x \in Unread' => x \in Unread \/ x = r
  BY DEF Unread, From
<1>2. ASSUME NEW x \in Requests, Sole(x)'
      PROVE  TakesOwn(w, x)
  <2>1. Sole(x) /\ OwnedOnce(x)
    BY <1>2 DEF ListOnce
  <2>2. x = r => Owned(w, x) /\ \A p \in Hands : ~Owns(w, p, x)'
    BY <1>2, <2>1 DEF Owned, OwnedOnce
  <2> QED
    BY <1>1, <1>2, <2>1, <2>2 DEF TakesOwn, OwnedOnce, Owned
<1>3. (listInProgress \cap From(nextIndex))' = {}
  BY DEF ListOnce, From
<1> QED
  BY <1>2, <1>3, OnceStep DEF Hands

(* Marking one's own keeps it.                                             *)
LEMMA OnceMarks ==
    ASSUME ListOnce, NEW w \in Tasks, Else(w), NEW r, MarkInList(r),
           \A x \in Requests : Sole(x)' => Sole(x),
           Sole(r)' => Owns(w, "task", r),
           \A x \in Requests : \A p \in Hands : Owns(w, p, x)' => Owns(w, p, x)
    PROVE  ListOnce'
<1>1. UNCHANGED Unread /\ listInProgress' = listInProgress \ {r}
  BY DEF Unread, From, MarkInList
<1>2. ASSUME NEW x \in Requests, Sole(x)'
      PROVE  TakesOwn(w, x)
  <2>1. Sole(x) /\ OwnedOnce(x)
    BY <1>2 DEF ListOnce
  <2>2. x = r => Owned(w, x) /\ \A p \in Calls : ~Owns(w, p, x)
    BY <1>2, <2>1 DEF Owned, OwnedOnce, Hands, Calls
  <2>3. Calls \subseteq Hands
    BY DEF Hands
  <2> QED
    BY <1>1, <1>2, <2>1, <2>2, <2>3 DEF TakesOwn, OwnedOnce, Owned
<1>3. (listInProgress \cap From(nextIndex))' = {}
  BY <1>1 DEF ListOnce, From, MarkInList
<1> QED
  BY <1>2, <1>3, OnceStep DEF Hands

(* The list changes in no way.                                             *)
LEMMA OnceStill ==
    ASSUME ListOnce, NEW w \in Tasks, Else(w), UNCHANGED <<requests, memoryVars>>,
           \A x \in Requests : Sole(x)' => Sole(x),
           \A x \in Requests : \A p \in Hands : Owns(w, p, x)' => Owns(w, p, x)
    PROVE  ListOnce'
<1>1. ~Sole(None)'
  BY CrawlerAssumption DEF Sole
<1>2. UNCHANGED <<requests, nextIndex, listInProgress, reclaimed>>
  BY DEF memoryVars
<1> QED
  BY <1>1, <1>2, OnceLess

(* Whoever reads the list gets what was unread.                            *)
LEMMA ReadsUnread ==
    ASSUME ListInv, listInProgress \cap From(nextIndex) = {},
           NEW item \in Requests \cup {None}, Reads(item)
    PROVE  /\ (listInProgress \cap From(nextIndex))' = {}
           /\ \A x \in Unread' : x \in Unread /\ x # item
           /\ listInProgress \subseteq listInProgress'
           /\ item # None => item \in Unread /\ item \in listInProgress'
<1>1. CASE item = None
  <2>1. /\ UNCHANGED <<requests, nextIndex, listInProgress, reclaimed>>
        /\ IsListEmpty
    BY <1>1 DEF Reads, listVars, memoryVars
  <2>2. Listed \subseteq Requests /\ \A n \in Nat : From(n) \subseteq Listed
    BY ListedRequests DEF ListInv, ListTypeOK
  <2>3. None \notin From(nextIndex) /\ None \notin reclaimed
    BY <2>2, CrawlerAssumption DEF ListInv, ListTypeOK, From, Listed
  <2> QED
    BY <1>1, <2>1, <2>3 DEF Unread, From
<1>2. CASE item # None /\ FetchReclaimed(item)
  <2>1. /\ item \in reclaimed /\ reclaimed' = reclaimed \ {item}
        /\ UNCHANGED <<requests, nextIndex, listInProgress>>
    BY <1>2 DEF FetchReclaimed
  <2>2. item \in listInProgress /\ item \notin From(nextIndex)
    BY <2>1 DEF ListInv, ListTypeOK
  <2> QED
    BY <2>1, <2>2 DEF Unread, From
<1>3. CASE item # None /\ FetchNext(item)
  <2>1. /\ reclaimed = {} /\ UNCHANGED <<requests, reclaimed>>
        /\ nextIndex < Len(requests) /\ nextIndex' = nextIndex + 1
        /\ item = requests[nextIndex + 1]
        /\ listInProgress' = listInProgress \cup {item}
    BY <1>3 DEF FetchNext
  <2>2. requests \in Seq(Requests) /\ requests \in Lists /\ nextIndex \in Nat /\ Len(requests) \in Nat
    BY ListedRequests DEF ListInv, ListTypeOK
  <2>3. /\ nextIndex + 1 \in DOMAIN requests
        /\ \A j \in DOMAIN requests : j \in Nat
    BY <2>1, <2>2
  <2>4. \A j \in DOMAIN requests : requests[j] = item => j = nextIndex + 1
    BY <2>1, <2>2, <2>3, ListAssumption
  <2>5. item \in From(nextIndex)
    BY <2>1, <2>2, <2>3 DEF From
  <2>6. \A x \in From(nextIndex + 1) : x \in From(nextIndex) /\ x # item
    <3> SUFFICES ASSUME NEW j \in DOMAIN requests, j > nextIndex + 1
                 PROVE  requests[j] \in From(nextIndex) /\ requests[j] # item
      BY DEF From
    <3>1. j > nextIndex /\ j # nextIndex + 1
      BY <2>2, <2>3
    <3> QED
      BY <2>4, <3>1 DEF From
  <2>7. From(nextIndex)' = From(nextIndex + 1)
    BY <2>1 DEF From
  <2> QED
    BY <2>1, <2>5, <2>6, <2>7 DEF Unread
<1> QED
  BY <1>1, <1>2, <1>3 DEF Reads, FetchFromList

(* So does reading the list.                                               *)
LEMMA OnceReads ==
    ASSUME ListInv, ListOnce, NEW w \in Tasks, Else(w), UNCHANGED <<hasQueue, status>>,
           NEW item \in Requests \cup {None}, Reads(item),
           chain'[w]["main"] = Fetching(item, TRUE), task'[w].pc = "fetching",
           \A x \in Requests : Owns(w, "late", x)' => \E p \in Calls : Owns(w, p, x)
    PROVE  ListOnce'
<1>1. /\ (listInProgress \cap From(nextIndex))' = {}
      /\ \A x \in Unread' : x \in Unread /\ x # item
      /\ listInProgress \subseteq listInProgress'
      /\ item # None => item \in Unread /\ item \in listInProgress'
  BY ReadsUnread DEF ListOnce
<1>2. \A x \in Requests : ~Owns(w, "task", x)'
  BY DEF Owns, Working, Calls
<1>3. \A x \in Requests : Owns(w, "main", x)' => x = item /\ item # None
  BY CrawlerAssumption DEF Owns, Fetching
<1>4. ASSUME NEW x \in Requests, Sole(x)'
      PROVE  TakesOwn(w, x)
  <2>1. Sole(x) /\ OwnedOnce(x)
    BY <1>4 DEF ListOnce, Sole
  <2>2. ASSUME Owns(w, "late", x)'
        PROVE  x \notin Unread /\ Owned(w, x) /\ x \in listInProgress
    BY <2>1, <2>2 DEF OwnedOnce, Owned, Hands
  <2>3. ASSUME NEW p \in Hands, Owns(w, p, x)'
        PROVE  /\ p \in Calls
               /\ x \in Unread \/ Owned(w, x)
               /\ x \notin Unread'
               /\ x \in listInProgress'
               /\ \A q \in Hands : Owns(w, q, x)' => q = p
    <3>1. p = "main" \/ p = "late"
      BY <1>2, <2>3 DEF Hands, Calls
    <3>2. CASE p = "main"
      <4>1. x = item /\ x \in Unread /\ x \in listInProgress' /\ x \notin Unread'
        BY <1>1, <1>3, <2>3, <3>2
      <4>2. ~Owns(w, "late", x)'
        BY <2>2, <4>1
      <4> QED
        BY <1>2, <3>2, <4>1, <4>2 DEF Hands, Calls
    <3>3. CASE p = "late"
      <4>1. x \notin Unread /\ Owned(w, x) /\ x \in listInProgress
        BY <2>2, <2>3, <3>3
      <4>2. ~Owns(w, "main", x)'
        BY <1>1, <1>3, <4>1
      <4> QED
        BY <1>1, <1>2, <3>3, <4>1, <4>2 DEF Hands, Calls
    <3> QED
      BY <3>1, <3>2, <3>3
  <2> QED
    BY <1>1, <2>1, <2>3 DEF TakesOwn
<1> QED
  BY <1>1, <1>2, <1>4, OnceStep

(* A call that returns from the queue leaves w only what it owned.         *)
LEMMA GaveLess ==
    ASSUME Places, hasQueue, NEW w \in Tasks, NEW c \in Calls, NEW r, Gave(w, c, r),
           chain[w][c].pc # "none"
    PROVE  /\ \A x, p : Owns(w, p, x)' => Owns(w, p, x)
           /\ \A x : ~Owns(w, c, x)'
<1>1. chain'[w][c].pc = "none" /\ \A d \in Calls : d # c => chain'[w][d] = chain[w][d]
  BY DEF Gave, Over, NoChain
<1>2. c # "task" /\ "task" \notin Calls
  BY DEF Calls
<1>3. \A x : Owns(w, "task", x)' => Owns(w, "task", x)
  <2>1. CASE c = "main"
    BY <1>2, <2>1 DEF Gave, Owns
  <2>2. CASE c = "late"
    BY <1>2, <2>2 DEF Gave, Owns, Places, TaskPlaced
  <2> QED
    BY <2>1, <2>2 DEF Calls
<1> QED
  BY <1>1, <1>2, <1>3 DEF Owns

(* A call that goes on owns no more.                                       *)
LEMMA WentLess ==
    ASSUME NEW w \in Tasks, NEW c \in Calls, NEW place, Went(w, c, place),
           place = "adding" => chain[w][c].pc = "listed",
           place # "listed"
    PROVE  \A x, p : Owns(w, p, x)' => Owns(w, p, x)
BY DEF Went, Owns, Calls

(* A fetch that is made again reads what was unread.                       *)
LEMMA AgainOnce ==
    ASSUME ListInv, ListOnce, NEW w \in Tasks, NEW old, Again(w, old), Else(w),
           UNCHANGED <<hasQueue, status>>, task[w].pc = "fetching",
           old \in {chain[w]["late"], chain[w]["main"]}
    PROVE  ListOnce'
<1>1. CASE /\ Stays(w)
           /\ \E item \in Requests \cup {None} :
                 Reads(item) /\ chain'[w]["main"] = Fetching(item, TRUE)
           /\ chain'[w]["late"] = old
  <2>1. PICK item \in Requests \cup {None} :
            Reads(item) /\ chain'[w]["main"] = Fetching(item, TRUE)
    BY <1>1
  <2>2. task'[w].pc = "fetching"
    BY <1>1 DEF Stays
  <2>3. \A x \in Requests : Owns(w, "late", x)' => \E p \in Calls : Owns(w, p, x)
    BY <1>1 DEF Owns, Calls
  <2> QED
    BY <2>1, <2>2, <2>3, OnceReads
<1>2. ASSUME /\ task'[w].pc = "failed" /\ chain'[w]["main"] = NoChain
             /\ chain'[w]["late"].pc = old.pc /\ chain'[w]["late"].item = old.item
             /\ UNCHANGED listVars
      PROVE  ListOnce'
  <2>1. \A x \in Requests : ~Owns(w, "task", x)' /\ ~Owns(w, "main", x)'
    BY <1>2 DEF Owns, Working, Calls, NoChain
  <2>2. CASE old = chain[w]["late"]
    <3>1. \A x \in Requests : \A p \in Hands : Owns(w, p, x)' => Owns(w, p, x)
      BY <1>2, <2>1, <2>2 DEF Owns, Hands, Calls
    <3> QED
      BY <1>2, <3>1, OnceStill DEF listVars, Sole
  <2>3. CASE old = chain[w]["main"]
    <3>1. \A x \in Requests : Owns(w, "late", x)' => Owns(w, "main", x)
      BY <1>2, <2>3 DEF Owns, Calls
    <3>2. UNCHANGED <<Unread, listInProgress>>
      BY <1>2 DEF listVars, memoryVars, Unread, From
    <3>3. ASSUME NEW x \in Requests, Sole(x)'
          PROVE  TakesOwn(w, x)
      <4>1. Sole(x) /\ OwnedOnce(x)
        BY <3>3 DEF ListOnce, Sole
      <4>2. \A p \in Hands : Owns(w, p, x)' => p = "late" /\ Owns(w, "main", x)
        BY <2>1, <3>1 DEF Hands, Calls
      <4>3. "main" \in Hands /\ "main" \in Calls
        BY DEF Hands, Calls
      <4> QED
        BY <3>2, <4>1, <4>2, <4>3 DEF TakesOwn, OwnedOnce, Owned
    <3>4. (listInProgress \cap From(nextIndex))' = {}
      BY <1>2 DEF ListOnce, listVars, memoryVars, From
    <3> QED
      BY <2>1, <3>3, <3>4, OnceStep
  <2> QED
    BY <2>2, <2>3
<1> QED
  BY <1>1, <1>2 DEF Again

(* A step of a call keeps the owners apart.                                *)
LEMMA FetchOnce ==
    ASSUME TasksInv, ListOnce, NEW w \in Tasks, NEW c \in Calls, FetchSteps(w, c)
    PROVE  ListOnce'
<1>t. ListInv /\ TasksTyped /\ CountsTyped /\ Kept /\ Places
  BY DEF TasksInv, CrawlerInv
<1>c. chain[w][c] \in ChainStates /\ chain[w][c].item \in Requests \cup {None}
  BY <1>t DEF TasksTyped, ChainStates
<1>h. chain[w][c].pc \in {"adding", "added", "taking"} => hasQueue
  BY <1>t DEF Places, CallsPlaced
<1>q. UNCHANGED hasQueue
  BY DEF FetchSteps, ListAnswered, AddReaches, AddReturns, AddFails, TakeNothing, Take, FetchFails,
         setupVars
<1>s. \A x \in Requests : status'[x] = "absent" => status[x] = "absent"
  <2>1. UNCHANGED status \/ \E r : status' = [status EXCEPT ![r] = "pending"]
    BY DEF FetchSteps, ListAnswered, AddReaches, AddTo, AddReturns, AddFails, TakeNothing, Take,
           FetchFails, queueVars
  <2> QED
    BY <1>t, <2>1 DEF TasksTyped
<1>o. \A x \in Requests : Sole(x)' => Sole(x)
  BY <1>q, <1>s DEF Sole
<1>a. \A x : chain[w][c].pc = "added" /\ x = chain[w][c].item => ~Sole(x)'
  BY <1>q, <1>s, <1>h, <1>t DEF Sole, Kept, FetchesKept, Queued
<1>1. CASE ListAnswered(w, c)
  <2>1. UNCHANGED <<requests, nextIndex, listInProgress, reclaimed, status>>
    BY <1>1 DEF ListAnswered, listVars, memoryVars, queueVars
  <2>2. CASE hasQueue
    <3>1. PICK place \in {"taking", "adding"} : Goes(w, c, place) /\ chain[w][c].pc = "listed"
      BY <1>1, <2>2 DEF ListAnswered
    <3>2. Else(w) /\ Went(w, c, place)
      BY <1>t, <3>1, GoesPlain
    <3> QED
      BY <1>o, <2>1, <3>1, <3>2, WentLess, OnceStill DEF memoryVars
  <2>3. CASE ~hasQueue
    <3>1. Returns(w, c, chain[w][c].item) /\ chain[w][c].pc = "listed"
      BY <1>1, <2>3 DEF ListAnswered
    <3>2. c = "main" /\ "main" \in Calls /\ "late" \in Calls
      BY <1>t, <3>1 DEF Kept, FetchesKept, Calls
    <3>3. Else(w) /\ Gave(w, c, chain[w][c].item)
      BY <1>t, <1>c, <3>1, ReturnsPlain
    <3>4. /\ chain'[w]["main"] = NoChain /\ chain'[w]["late"] = chain[w]["late"]
          /\ task'[w].request = chain[w]["main"].item
      BY <3>2, <3>3 DEF Gave, Over
    <3>5. \A x : ~Owns(w, "main", x)' /\ (Owns(w, "late", x)' => Owns(w, "late", x))
                 /\ (Owns(w, "task", x)' => Owns(w, "main", x))
      BY <3>1, <3>2, <3>4 DEF Owns, NoChain, Calls
    <3>6. UNCHANGED <<Unread, listInProgress>>
      BY <2>1 DEF Unread, From
    <3>7. ASSUME NEW x \in Requests, Sole(x)'
          PROVE  TakesOwn(w, x)
      <4>1. Sole(x) /\ OwnedOnce(x)
        BY <1>o, <3>7 DEF ListOnce
      <4>2. \A p \in Hands : Owns(w, p, x)' =>
                \/ p = "late" /\ Owns(w, "late", x)
                \/ p = "task" /\ Owns(w, "main", x)
        BY <3>5 DEF Hands, Calls
      <4>3. "main" \in Hands /\ "late" \in Hands /\ "task" \notin Calls
        BY DEF Hands, Calls
      <4> QED
        BY <3>2, <3>6, <4>1, <4>2, <4>3 DEF TakesOwn, OwnedOnce, Owned
    <3>8. (listInProgress \cap From(nextIndex))' = {}
      BY <2>1 DEF ListOnce, From
    <3>9. \A x \in Requests : Owns(w, "task", x)' => Sole(x) /\ Owned(w, x)
      BY <2>3, <3>5 DEF Sole, Owned, Hands, Calls
    <3> QED
      BY <3>3, <3>7, <3>8, <3>9, OnceStep
  <2> QED
    BY <2>2, <2>3
<1>2. CASE AddReaches(w, c)
  <2>1. Else(w) /\ Went(w, c, "added")
    BY <1>t, <1>2, GoesPlain DEF AddReaches
  <2>2. UNCHANGED <<requests, memoryVars>>
    BY <1>2 DEF AddReaches, listVars
  <2> QED
    BY <1>o, <2>1, <2>2, WentLess, OnceStill
<1>3. CASE AddReturns(w, c)
  <2>1. Else(w) /\ Went(w, c, "taking")
    BY <1>t, <1>3, GoesPlain DEF AddReturns
  <2> QED
    <3>1. PICK r : r = chain[w][c].item
      OBVIOUS
    <3>2. MarkInList(r) /\ chain[w][c].pc = "added"
      BY <1>3, <3>1 DEF AddReturns
    <3>3. \A x, p : Owns(w, p, x)' => Owns(w, p, x)
      BY <2>1, WentLess
    <3> QED
      BY <1>o, <1>a, <2>1, <3>1, <3>2, <3>3, OnceMarks
<1>4. CASE AddFails(w, c)
  <2>1. PICK r : r = chain[w][c].item
    OBVIOUS
  <2>2. /\ chain[w][c].pc \in {"adding", "added"} /\ ReclaimInList(r)
        /\ Returns(w, c, None)
    BY <1>4, <2>1 DEF AddFails
  <2>3. Else(w) /\ Gave(w, c, None)
    BY <1>t, <2>2, ReturnsPlain
  <2>4. /\ \A x, p : Owns(w, p, x)' => Owns(w, p, x)
        /\ \A x : ~Owns(w, c, x)'
    BY <1>t, <1>h, <2>2, <2>3, GaveLess
  <2>5. Sole(r)' => Owns(w, c, r)
    BY <1>a, <2>1, <2>2 DEF Owns
  <2>6. UNCHANGED <<requests, nextIndex, listInProgress>> /\ \A x \in reclaimed' : x \in reclaimed \/ x = r
    BY <2>2 DEF ReclaimInList
  <2>7. c \in Hands
    BY DEF Hands
  <2> QED
    BY <1>o, <2>3, <2>4, <2>5, <2>6, <2>7, OnceLess
<1>5. CASE TakeNothing(w, c) \/ \E r \in Requests : Take(w, c, r)
  <2>1. PICK r \in Requests \cup {None} : Returns(w, c, r) /\ chain[w][c].pc = "taking"
    BY <1>5 DEF TakeNothing, Take
  <2>2. UNCHANGED <<requests, memoryVars>>
    BY <1>5 DEF TakeNothing, Take, listVars
  <2>3. Else(w) /\ Gave(w, c, r)
    BY <1>t, <2>1, ReturnsPlain
  <2>4. \A x, p : Owns(w, p, x)' => Owns(w, p, x)
    BY <1>t, <1>h, <2>1, <2>3, GaveLess
  <2> QED
    BY <1>o, <2>2, <2>3, <2>4, OnceStill
<1>6. CASE FetchFails(w, c)
  <2>1. UNCHANGED status /\ Else(w)
    BY <1>t, <1>6, FailsPlain DEF FetchFails, queueVars
  <2>2. CASE c = "main" /\ Again(w, chain[w]["late"])
    <3>1. task[w].pc = "fetching"
      BY <1>6, <1>t, <2>2 DEF FetchFails, Places, CallsPlaced
    <3> QED
      BY <1>t, <1>q, <2>1, <2>2, <3>1, AgainOnce
  <2>3. CASE c = "late" /\ Over(w, "late") /\ UNCHANGED <<task, pool, listVars>>
    <3>1. \A x, p : Owns(w, p, x)' => Owns(w, p, x)
      BY <2>3 DEF Over, Owns, NoChain, Calls
    <3> QED
      BY <1>o, <2>1, <2>3, <3>1, OnceStill DEF listVars
  <2> QED
    BY <1>6, <1>t, <2>2, <2>3, FailsPlain
<1> QED
  BY <1>1, <1>2, <1>3, <1>4, <1>5, <1>6 DEF FetchSteps

(* Most steps of a task give it nothing new.                               *)
LEMMA OwnsLess ==
    ASSUME NEW w \in Tasks,
           \/ Left(w) \/ Died(w)
           \/ Stays(w) /\ UNCHANGED chain
           \/ Erred(w) /\ task[w].pc \in WithContext
           \/ (\E pc : Turns(w, pc)) /\ task[w].pc \in WithContext /\ UNCHANGED chain
           \/ Handles(w) /\ task[w].pc = "fetched"
    PROVE  \A x, p : Owns(w, p, x)' => Owns(w, p, x)
<1>1. CASE Left(w) \/ Died(w)
  BY <1>1 DEF Left, Died, Owns, Working, Calls, NoChain
<1>2. CASE SameJob(w) /\ UNCHANGED chain /\ (task[w].pc \in Working \/ task'[w].pc = task[w].pc)
  BY <1>2 DEF SameJob, Owns
<1>3. CASE Handles(w) /\ task[w].pc = "fetched"
  BY <1>3 DEF Handles, Owns, Working
<1> QED
  BY <1>1, <1>2, <1>3 DEF Stays, Erred, Turns, WithContext

(* What a task marks in the list it owns, or it has it from the queue.     *)
LEMMA OwnsWhatItMarks ==
    ASSUME TasksInv, HeldBusy, NEW w \in Tasks, task[w].pc \in WithContext,
           NEW r \in {task[w].request, task[w].context}, Sole(r)
    PROVE  Owns(w, "task", r)
<1>t. Places
  BY DEF TasksInv
<1>1. CASE task[w].fromList
  BY <1>t, <1>1 DEF Places, TaskPlaced, Owns, WithContext
<1>2. CASE ~task[w].fromList
  <2>1. r \in Held(w)
    BY <1>2 DEF Held, Sole, WithContext
  <2>2. status[r] # "absent" /\ hasQueue
    BY <1>t, <1>2, <2>1 DEF HeldBusy, HeldKept, Places, TaskPlaced, WithContext
  <2> QED
    BY <2>2 DEF Sole
<1>3. task[w].fromList \in BOOLEAN
  BY DEF TasksInv, CrawlerInv, TasksTyped, TaskStates
<1> QED
  BY <1>1, <1>2

(* A task marks its own.                                                   *)
LEMMA MarksOnce ==
    ASSUME TasksInv, HeldBusy, ListOnce, NEW w \in Tasks, Else(w), UNCHANGED hasQueue,
           task[w].pc \in WithContext,
           NEW r \in {task[w].request, task[w].context}, SourceMarks(w, r),
           \A x, p : Owns(w, p, x)' => Owns(w, p, x)
    PROVE  ListOnce'
<1>t. TasksTyped
  BY DEF TasksInv, CrawlerInv
<1>1. UNCHANGED status \/ status' = [status EXCEPT ![r] = "handled"]
  BY DEF SourceMarks, queueVars
<1>2. \A x \in Requests : status'[x] = "absent" => status[x] = "absent"
  BY <1>t, <1>1 DEF TasksTyped
<1>3. \A x \in Requests : Sole(x)' => Sole(x)
  BY <1>2 DEF Sole
<1>4. CASE UNCHANGED listVars
  BY <1>3, <1>4, OnceStill DEF listVars
<1>5. CASE MarkInList(r)
  <2>1. Sole(r)' => Sole(r)
    BY <1>3 DEF Sole
  <2>2. Sole(r)' => Owns(w, "task", r)
    BY <2>1, OwnsWhatItMarks
  <2> QED
    BY <1>3, <1>5, <2>2, OnceMarks
<1> QED
  BY <1>4, <1>5 DEF SourceMarks

(* It reclaims its own.                                                    *)
LEMMA ReclaimsOnce ==
    ASSUME TasksInv, HeldBusy, ListOnce, NEW w \in Tasks, Else(w), Left(w), UNCHANGED hasQueue,
           task[w].pc \in WithContext,
           NEW r \in {task[w].request, task[w].context}, SourceReclaims(w, r)
    PROVE  ListOnce'
<1>t. TasksTyped
  BY DEF TasksInv, CrawlerInv
<1>1. UNCHANGED status \/ status' = [status EXCEPT ![r] = "pending"]
  BY DEF SourceReclaims, queueVars
<1>2. \A x \in Requests : status'[x] = "absent" => status[x] = "absent"
  BY <1>t, <1>1 DEF TasksTyped
<1>3. \A x \in Requests : Sole(x)' => Sole(x)
  BY <1>2 DEF Sole
<1>o. \A x, p : Owns(w, p, x)' => Owns(w, p, x)
  BY OwnsLess
<1>4. CASE UNCHANGED listVars
  BY <1>3, <1>o, <1>4, OnceStill DEF listVars
<1>5. CASE ReclaimInList(r)
  <2>1. Sole(r)' => Sole(r)
    BY <1>3 DEF Sole
  <2>2. Sole(r)' => Owns(w, "task", r)
    BY <2>1, OwnsWhatItMarks
  <2>3. ~Owns(w, "task", r)' /\ "task" \in Hands
    BY DEF Left, Owns, Working, Calls, Hands
  <2>4. /\ UNCHANGED <<requests, nextIndex, listInProgress>>
        /\ \A x \in reclaimed' : x \in reclaimed \/ x = r
    BY <1>5 DEF ReclaimInList
  <2> QED
    BY <1>3, <1>o, <2>2, <2>3, <2>4, OnceLess
<1> QED
  BY <1>4, <1>5 DEF SourceReclaims

(* A step of a task keeps the owners apart.                                *)
LEMMA TaskOnce ==
    ASSUME TasksInv, HeldBusy, ListOnce, NEW w \in Tasks, TaskSteps(w)
    PROVE  ListOnce'
<1>t. ListInv /\ TasksTyped /\ CountsTyped /\ Kept /\ Places
  BY DEF TasksInv, CrawlerInv
<1>n. handledRequestsCount \in Nat
  BY <1>t DEF CountsTyped
<1>m. ASSUME Else(w), UNCHANGED listVars, UNCHANGED hasQueue,
             \A x \in Requests : status'[x] = "absent" => status[x] = "absent",
             \/ Left(w) \/ Died(w)
             \/ Stays(w) /\ UNCHANGED chain
             \/ Erred(w) /\ task[w].pc \in WithContext
             \/ (\E pc : Turns(w, pc)) /\ task[w].pc \in WithContext /\ UNCHANGED chain
             \/ Handles(w) /\ task[w].pc = "fetched"
      PROVE  ListOnce'
  <2>1. \A x \in Requests : Sole(x)' => Sole(x)
    BY <1>m DEF Sole
  <2>2. \A x, p : Owns(w, p, x)' => Owns(w, p, x)
    BY <1>m, OwnsLess
  <2>3. UNCHANGED <<requests, memoryVars>>
    BY <1>m DEF listVars
  <2> QED
    BY <1>m, <2>1, <2>2, <2>3, OnceStill
<1>1. CASE StartTask(w)
  <2>1. Began(w) /\ Else(w) /\ UNCHANGED <<hasQueue, status>>
    BY <1>t, <1>1, StartPlain DEF StartTask, queueVars, setupVars
  <2>2. PICK item \in Requests \cup {None} :
            Reads(item) /\ chain'[w]["main"] = Fetching(item, TRUE)
    BY <2>1 DEF Began
  <2>3. task'[w].pc = "fetching" /\ chain'[w]["late"] = chain[w]["late"]
    BY <2>1 DEF Began
  <2>4. \A x \in Requests : Owns(w, "late", x)' => \E p \in Calls : Owns(w, p, x)
    BY <2>3 DEF Owns, Calls
  <2> QED
    BY <1>t, <2>1, <2>2, <2>3, <2>4, OnceReads
<1>2. CASE FetchTimesOut(w)
  <2>1. Again(w, chain[w]["main"]) /\ Else(w) /\ UNCHANGED <<hasQueue, status>>
    BY <1>t, <1>2, TimesOutPlain DEF FetchTimesOut, queueVars, setupVars
  <2>2. task[w].pc = "fetching"
    BY <1>t, <1>2 DEF FetchTimesOut, Places, CallsPlaced
  <2> QED
    BY <1>t, <2>1, <2>2, AgainOnce
<1>3. CASE StartJob(w)
  <2>1. UNCHANGED listVars /\ UNCHANGED <<hasQueue, status>> /\ task[w].pc = "fetched"
    BY <1>3 DEF StartJob, queueVars, setupVars
  <2> QED
    BY <1>t, <1>m, <1>3, <2>1, StartJobPlain
<1>4. CASE SessionFails(w) \/ FailureReported(w)
  <2>1. UNCHANGED listVars /\ UNCHANGED <<hasQueue, status>>
    BY <1>4 DEF SessionFails, FailureReported, queueVars, setupVars
  <2> QED
    BY <1>t, <1>4, <1>m, <2>1, SessionPlain, LeavesPlain DEF FailureReported
<1>5. CASE \E r \in Linked : HandlerAdds(w, r)
  <2>1. PICK r \in Linked : HandlerAdds(w, r)
    BY <1>5
  <2>2. /\ UNCHANGED <<task, chain>> /\ UNCHANGED listVars /\ hasQueue'
        /\ status' = [status EXCEPT ![r] = "pending"]
    BY <2>1 DEF HandlerAdds
  <2>3. \A x \in Requests : status'[x] = "absent" => status[x] = "absent"
    BY <1>t, <2>2 DEF TasksTyped
  <2>4. \A x \in Requests : Sole(x)' => Sole(x)
    BY <2>2, <2>3 DEF Sole
  <2>5. Else(w) /\ \A x, p : Owns(w, p, x)' => Owns(w, p, x)
    BY <2>2 DEF Else, Owns
  <2> QED
    BY <2>2, <2>4, <2>5, OnceStill DEF listVars
<1>6. CASE HandlerReturns(w)
  <2>1. /\ UNCHANGED listVars /\ UNCHANGED <<hasQueue, status>>
        /\ task[w].pc \in WithContext
    BY <1>6 DEF HandlerReturns, queueVars, setupVars, WithContext, Working
  <2> QED
    BY <1>t, <1>6, <1>m, <2>1, ReturnPlain
<1>7. CASE \E b \in BOOLEAN : HandlerThrows(w, b)
  <2>1. /\ UNCHANGED listVars /\ UNCHANGED <<hasQueue, status>>
        /\ task[w].pc \in WithContext
    BY <1>7 DEF HandlerThrows, queueVars, setupVars, WithContext, Working
  <2> QED
    BY <1>t, <1>n, <1>m, <1>7, <2>1, ThrowPlain
<1>8. CASE MarkReturns(w)
  <2>1. /\ Ends(w) /\ task[w].pc \in WithContext /\ UNCHANGED hasQueue
        /\ SourceMarks(w, task[w].request)
    BY <1>8 DEF MarkReturns, setupVars, WithContext, Working
  <2>2. Else(w) /\ \A x, p : Owns(w, p, x)' => Owns(w, p, x)
    BY <1>t, <2>1, LeavesPlain, OwnsLess
  <2> QED
    BY <2>1, <2>2, MarksOnce
<1>9. CASE ReclaimReturns(w)
  <2>1. /\ Ends(w) /\ task[w].pc \in WithContext /\ UNCHANGED hasQueue
        /\ SourceReclaims(w, task[w].context)
    BY <1>9 DEF ReclaimReturns, setupVars, WithContext, Working
  <2>2. Else(w) /\ Left(w)
    BY <1>t, <2>1, LeavesPlain
  <2> QED
    BY <2>1, <2>2, ReclaimsOnce
<1>10. CASE GiveUpReturns(w)
  <2>1. /\ task[w].pc \in WithContext /\ UNCHANGED <<hasQueue, chain>>
        /\ task' = [task EXCEPT ![w].pc = "reporting"]
        /\ SourceMarks(w, task[w].context)
    BY <1>10 DEF GiveUpReturns, setupVars, WithContext, Working
  <2>2. Else(w) /\ Turns(w, "reporting")
    BY <1>t, <2>1, PcPlain
  <2>3. \A x, p : Owns(w, p, x)' => Owns(w, p, x)
    BY <2>1, <2>2, OwnsLess
  <2> QED
    BY <2>1, <2>2, <2>3, MarksOnce
<1>11. CASE MarkThrows(w) \/ SourceFailsError(w)
  <2>1. /\ UNCHANGED listVars /\ UNCHANGED hasQueue
        /\ task[w].pc \in WithContext
    BY <1>11 DEF MarkThrows, SourceFailsError, setupVars, WithContext, Working
  <2>2. UNCHANGED status \/ \E r, new : new # "absent" /\ status' = [status EXCEPT ![r] = new]
    BY <1>11 DEF MarkThrows, SourceFailsError, SourceThrows, queueVars
  <2>3. \A x \in Requests : status'[x] = "absent" => status[x] = "absent"
    BY <1>t, <2>2 DEF TasksTyped
  <2> QED
    BY <1>t, <1>n, <1>m, <1>11, <2>1, <2>3, MarkThrowPlain, ErrorAgain DEF SourceFailsError
<1>12. CASE ReportFails(w)
  <2>1. /\ UNCHANGED listVars /\ UNCHANGED <<hasQueue, status>>
        /\ task[w].pc \in WithContext
    BY <1>12 DEF ReportFails, queueVars, setupVars, WithContext, Working
  <2> QED
    BY <1>t, <1>n, <1>m, <1>12, <2>1, ErrorAgain DEF ReportFails
<1> QED
  BY <1>1, <1>2, <1>3, <1>4, <1>5, <1>6, <1>7, <1>8, <1>9, <1>10, <1>11, <1>12 DEF TaskSteps

(* A new process owns nothing.                                             *)
LEMMA FreshOwned == Fresh => \A w \in Tasks : \A p, r : ~Owns(w, p, r)
BY NoTasks DEF Owns, Working, Calls

(* Every step keeps the owners apart.                                      *)
LEMMA StepOnce ==
    ASSUME TasksInv, HeldBusy, ListOnce, [Next]_vars
    PROVE  ListOnce'
<1>1. CASE PoolSteps \/ (\E p \in Savers : Persists(p)) \/ UNCHANGED vars
  <2>1. UNCHANGED <<task, chain, hasQueue, status, requests, memoryVars>>
    BY <1>1 DEF PoolSteps, AskReady, NotReady, FinishAnswered, QueryFails, PauseOnMigration,
                Persists, PersistState, StatePersisted, PersistFails, vars, listVars, queueVars,
                setupVars
  <2>2. UNCHANGED <<Unread, listInProgress, From(nextIndex)>>
    BY <2>1 DEF memoryVars, Unread, From
  <2>3. \A w \in Tasks : \A p, r : Owns(w, p, r)' <=> Owns(w, p, r)
    BY <2>1 DEF Owns
  <2>4. \A r : Sole(r)' <=> Sole(r)
    BY <2>1 DEF Sole
  <2> QED
    BY <2>2, <2>3, <2>4 DEF ListOnce, OwnedOnce
<1>2. CASE Restart
  <2>1. Fresh'
    BY <1>2 DEF Restart, Fresh
  <2>2. (\A w \in Tasks : \A p, r : ~Owns(w, p, r))'
    BY <2>1, FreshOwned, PTL
  <2>3. (listInProgress \cap From(nextIndex))' = {}
    BY <1>2 DEF Restart, RestoreState, Restored, From
  <2> QED
    BY <2>2, <2>3 DEF ListOnce, OwnedOnce
<1> QED
  BY <1>1, <1>2, FetchOnce, TaskOnce DEF Next

(* At first there are none.                                                *)
LEMMA InitOnce == CrawlerInit => ListOnce
<1> SUFFICES ASSUME CrawlerInit
             PROVE  ListOnce
  OBVIOUS
<1>1. \A w \in Tasks : \A p, r : ~Owns(w, p, r)
  BY InitFresh, FreshOwned
<1>2. listInProgress = {}
  BY DEF CrawlerInit, ListInit
<1> QED
  BY <1>1, <1>2 DEF ListOnce, OwnedOnce

(* In every state a request of the list has one owner at most.             *)
LEMMA ListOnceHolds == CrawlerSpec => []ListOnce
<1>1. TasksInv /\ HeldBusy /\ ListOnce /\ [Next]_vars => ListOnce'
  BY StepOnce
<1> QED
  BY <1>1, InitOnce, TasksInvHolds, HeldBusyHolds, PTL DEF CrawlerSpec

-----------------------------------------------------------------------------
(* What is over stays over.                                                *)

(* What a process does to its list.                                        *)
LEMMA ListMoves ==
    ASSUME [Next]_vars, ~Restart
    PROVE  \/ UNCHANGED <<requests, memoryVars>>
           \/ \E item \in Requests \cup {None} : Reads(item)
           \/ \E r : MarkInList(r) \/ ReclaimInList(r)
<1>u. UNCHANGED listVars => UNCHANGED <<requests, memoryVars>>
  BY DEF listVars
<1>a. \A w, old : FetchesAgain(w, old) =>
          UNCHANGED listVars \/ \E item \in Requests \cup {None} : Reads(item)
  BY DEF FetchesAgain
<1>1. CASE PoolSteps \/ UNCHANGED vars
  BY <1>1, <1>u DEF PoolSteps, AskReady, NotReady, FinishAnswered, QueryFails, PauseOnMigration,
                    vars
<1>2. ASSUME NEW w \in Tasks, NEW c \in Calls, FetchSteps(w, c)
      PROVE  \/ UNCHANGED <<requests, memoryVars>>
             \/ \E item \in Requests \cup {None} : Reads(item)
             \/ \E r : MarkInList(r) \/ ReclaimInList(r)
  BY <1>2, <1>a, <1>u
     DEF FetchSteps, ListAnswered, AddReaches, AddReturns, AddFails, TakeNothing, Take, FetchFails
<1>3. ASSUME NEW w \in Tasks, TaskSteps(w)
      PROVE  \/ UNCHANGED <<requests, memoryVars>>
             \/ \E item \in Requests \cup {None} : Reads(item)
             \/ \E r : MarkInList(r) \/ ReclaimInList(r)
  <2>1. \A r : SourceMarks(w, r) \/ SourceReclaims(w, r) =>
            UNCHANGED listVars \/ MarkInList(r) \/ ReclaimInList(r)
    BY DEF SourceMarks, SourceReclaims
  <2>2. CASE StartTask(w) \/ FetchTimesOut(w)
    BY <2>2, <1>a, <1>u DEF StartTask, FetchTimesOut
  <2>3. CASE StartJob(w) \/ SessionFails(w) \/ (\E r \in Linked : HandlerAdds(w, r))
    BY <2>3, <1>u DEF StartJob, SessionFails, HandlerAdds
  <2>4. CASE HandlerReturns(w) \/ \E noRetry \in BOOLEAN : HandlerThrows(w, noRetry)
    BY <2>4, <1>u DEF HandlerReturns, HandlerThrows
  <2>5. CASE MarkReturns(w) \/ ReclaimReturns(w) \/ GiveUpReturns(w)
    BY <2>1, <2>5, <1>u DEF MarkReturns, ReclaimReturns, GiveUpReturns
  <2>6. CASE MarkThrows(w) \/ SourceFailsError(w) \/ FailureReported(w) \/ ReportFails(w)
    BY <2>6, <1>u DEF MarkThrows, SourceFailsError, FailureReported, ReportFails
  <2> QED
    BY <1>3, <2>2, <2>3, <2>4, <2>5, <2>6 DEF TaskSteps
<1>4. CASE \E p \in Savers : Persists(p)
  BY <1>4 DEF Persists, PersistState, StatePersisted, PersistFails
<1> QED
  BY <1>1, <1>2, <1>3, <1>4 DEF Next

(* A list that is finished does not change any more in this process.       *)
LEMMA ListStays ==
    ASSUME ListInv, IsListFinished, [Next]_vars, ~Restart
    PROVE  UNCHANGED <<requests, nextIndex, listInProgress, reclaimed>> /\ IsListFinished'
<1>n. nextIndex \in Nat /\ Len(requests) \in Nat /\ listInProgress = {} /\ reclaimed = {}
      /\ nextIndex >= Len(requests)
  BY ListedRequests DEF ListInv, ListTypeOK, IsListFinished
<1>1. \A r : ~MarkInList(r) /\ ~ReclaimInList(r) /\ ~FetchFromList(r)
  BY <1>n DEF MarkInList, ReclaimInList, IsProcessed, FetchFromList, FetchReclaimed, FetchNext
<1>2. UNCHANGED <<requests, memoryVars>>
  BY <1>1, ListMoves DEF Reads, listVars
<1> QED
  BY <1>2 DEF IsListFinished, memoryVars

(* What the list has left only becomes less in a process.                  *)
LEMMA ListShrinks ==
    ASSUME ListInv, [Next]_vars, ~Restart
    PROVE  \A x \in listInProgress' \cup From(nextIndex)' : x \in listInProgress \cup From(nextIndex)
<1>1. CASE UNCHANGED <<requests, memoryVars>>
  BY <1>1 DEF memoryVars, From
<1>2. CASE \E r : MarkInList(r) \/ ReclaimInList(r)
  BY <1>2 DEF MarkInList, ReclaimInList, From
<1>3. CASE \E item \in Requests \cup {None} : Reads(item)
  <2>1. CASE UNCHANGED listVars
    BY <1>1, <2>1 DEF listVars
  <2>2. CASE \E r : FetchReclaimed(r)
    BY <2>2 DEF FetchReclaimed, From
  <2>3. CASE \E r : FetchNext(r)
    <3>1. PICK r : FetchNext(r)
      BY <2>3
    <3>2. /\ nextIndex \in Nat /\ Len(requests) \in Nat
          /\ DOMAIN requests = 1 .. Len(requests)
      BY ListedRequests DEF ListInv, ListTypeOK
    <3>3. /\ nextIndex' = nextIndex + 1 /\ UNCHANGED requests
          /\ listInProgress' = listInProgress \cup {r} /\ r = requests[nextIndex + 1]
          /\ nextIndex < Len(requests)
      BY <3>1 DEF FetchNext
    <3>4. r \in From(nextIndex)
      BY <3>2, <3>3 DEF From
    <3>5. \A x \in From(nextIndex)' : x \in From(nextIndex)
      BY <3>2, <3>3 DEF From
    <3> QED
      BY <3>3, <3>4, <3>5
  <2> QED
    BY <1>3, <2>1, <2>2, <2>3 DEF Reads, FetchFromList
<1> QED
  BY <1>1, <1>2, <1>3, ListMoves

(* The count of what was handled does not shrink within a process: once    *)
(* beyond the limit, always beyond the limit.                              *)
LEMMA LimitStays ==
    ASSUME TasksInv, [Next]_vars, ~Restart, MaxPagesExceeded
    PROVE  MaxPagesExceeded'
<1>t. TasksTyped /\ handledRequestsCount \in Nat /\ maxRequestsPerCrawl \in Nat
  BY DEF TasksInv, CrawlerInv, CountsTyped
<1>1. ASSUME NEW w \in Tasks, TaskSteps(w)
      PROVE  /\ UNCHANGED maxRequestsPerCrawl
             /\ UNCHANGED handledRequestsCount \/ handledRequestsCount' = handledRequestsCount + 1
  <2>1. Erred(w) => UNCHANGED handledRequestsCount \/ handledRequestsCount' = handledRequestsCount + 1
    BY DEF Erred
  <2>2. CASE StartTask(w) \/ FetchTimesOut(w) \/ StartJob(w) \/ SessionFails(w)
    BY <2>2 DEF StartTask, FetchTimesOut, StartJob, SessionFails, setupVars, optionVars
  <2>3. CASE (\E r \in Linked : HandlerAdds(w, r)) \/ HandlerReturns(w)
    BY <2>3 DEF HandlerAdds, HandlerReturns, setupVars, optionVars
  <2>4. CASE \E noRetry \in BOOLEAN : HandlerThrows(w, noRetry)
    <3>1. UNCHANGED maxRequestsPerCrawl
      BY <2>4 DEF HandlerThrows, setupVars, optionVars
    <3> QED
      BY <1>t, <2>1, <2>4, <3>1, ThrowPlain
  <2>5. CASE MarkReturns(w) \/ ReclaimReturns(w) \/ GiveUpReturns(w) \/ FailureReported(w)
    BY <2>5 DEF MarkReturns, ReclaimReturns, GiveUpReturns, FailureReported, setupVars, optionVars
  <2>6. CASE MarkThrows(w)
    <3>1. UNCHANGED maxRequestsPerCrawl
      BY <2>6 DEF MarkThrows, setupVars, optionVars
    <3> QED
      BY <1>t, <2>1, <2>6, <3>1, MarkThrowPlain
  <2>7. CASE SourceFailsError(w) \/ ReportFails(w)
    <3>1. UNCHANGED maxRequestsPerCrawl /\ ErrorHandlerThrows(w)
      BY <2>7 DEF SourceFailsError, ReportFails, setupVars, optionVars
    <3> QED
      BY <1>t, <2>1, <3>1, ErrorAgain
  <2> QED
    BY <1>1, <2>2, <2>3, <2>4, <2>5, <2>6, <2>7 DEF TaskSteps
<1>2. ASSUME NEW w \in Tasks, NEW c \in Calls, FetchSteps(w, c)
      PROVE  UNCHANGED <<handledRequestsCount, maxRequestsPerCrawl>>
  BY <1>2
     DEF FetchSteps, ListAnswered, AddReaches, AddReturns, AddFails, TakeNothing, Take, FetchFails,
         setupVars, optionVars
<1>3. ASSUME PoolSteps \/ (\E p \in Savers : Persists(p)) \/ UNCHANGED vars
      PROVE  UNCHANGED <<handledRequestsCount, maxRequestsPerCrawl>>
  BY <1>3 DEF PoolSteps, AskReady, NotReady, FinishAnswered, QueryFails, PauseOnMigration,
              Persists, setupVars, optionVars, vars
<1>4. /\ UNCHANGED maxRequestsPerCrawl
      /\ UNCHANGED handledRequestsCount \/ handledRequestsCount' = handledRequestsCount + 1
  BY <1>1, <1>2, <1>3 DEF Next
<1> QED
  BY <1>t, <1>4 DEF MaxPagesExceeded

(* Every task that runs began with the queue.                              *)
QueueTask(w) == task[w].pc \in {"idle", "failed"} \/ task[w].source = "queue"

(* What the crawler relies on while it asks the queue whether that is      *)
(* finished, and after it was told so.                                     *)
WithQueue == IsListFinished /\ hasQueue /\ \A w \in Tasks : QueueTask(w)

(* The list is done, and nobody is at work.                                *)
WithoutQueue == IsListFinished /\ ~hasQueue /\ Running = {}

(* Once the pool may finish, or has, there is nothing left to do.          *)
Closing ==
    /\ finishAsk = "queue" => WithQueue
    /\ finishAsk = "yes" /\ ~MaxPagesExceeded => WithoutQueue
    /\ pool = "finished" /\ ~MaxPagesExceeded => WithoutQueue \/ (WithQueue /\ QueueFinished)

(* A task of the queue stays one.                                          *)
LEMMA QueueTaskMoves ==
    ASSUME NEW w \in Tasks, QueueTask(w),
           \/ Left(w) \/ Died(w)
           \/ Stays(w)
           \/ Erred(w) /\ task[w].pc \in WithContext
           \/ (\E pc : Turns(w, pc)) /\ task[w].pc \in WithContext
           \/ Handles(w) /\ task[w].pc = "fetched"
           \/ (\E old : Again(w, old)) /\ task[w].pc = "fetching"
           \/ Began(w) /\ hasQueue
           \/ task'[w] = task[w]
    PROVE  QueueTask(w)'
BY DEF Left, Died, Stays, Erred, Turns, SameJob, Handles, Again, Began, QueueTask, WithContext,
       Working

(* Once done, the list stays done while tasks have the queue.              *)
LEMMA WithQueueStays ==
    ASSUME TasksInv, WithQueue, [Next]_vars, ~Restart
    PROVE  WithQueue'
<1>t. ListInv /\ TasksTyped /\ CountsTyped /\ Kept /\ Places
  BY DEF TasksInv, CrawlerInv
<1>n. handledRequestsCount \in Nat
  BY <1>t DEF CountsTyped
<1>q. hasQueue /\ \A v \in Tasks : QueueTask(v)
  BY DEF WithQueue
<1>f. IsListFinished'
  BY <1>t, ListStays DEF WithQueue
<1>e. ASSUME NEW w \in Tasks, Else(w), QueueTask(w)'
      PROVE  \A v \in Tasks : QueueTask(v)'
  BY <1>q, <1>e DEF Else, QueueTask
<1>m. ASSUME NEW w \in Tasks, Else(w),
             \/ Left(w) \/ Died(w)
             \/ Stays(w)
             \/ Erred(w) /\ task[w].pc \in WithContext
             \/ (\E pc : Turns(w, pc)) /\ task[w].pc \in WithContext
             \/ Handles(w) /\ task[w].pc = "fetched"
             \/ (\E old : Again(w, old)) /\ task[w].pc = "fetching"
             \/ Began(w) /\ hasQueue
             \/ task'[w] = task[w]
      PROVE  \A v \in Tasks : QueueTask(v)'
  BY <1>q, <1>e, <1>m, QueueTaskMoves
<1>1. CASE PoolSteps \/ (\E p \in Savers : Persists(p)) \/ UNCHANGED vars
  <2>1. UNCHANGED <<hasQueue, task>>
    BY <1>1 DEF PoolSteps, AskReady, NotReady, FinishAnswered, QueryFails, PauseOnMigration,
                Persists, setupVars, vars
  <2> QED
    BY <1>q, <1>f, <2>1 DEF WithQueue, QueueTask
<1>2. ASSUME NEW w \in Tasks, NEW c \in Calls, FetchSteps(w, c)
      PROVE  hasQueue' /\ \A v \in Tasks : QueueTask(v)'
  <2>1. hasQueue'
    BY <1>q, <1>2 DEF FetchSteps, ListAnswered, AddReaches, AddReturns, AddFails, TakeNothing,
                      Take, FetchFails, setupVars
  <2>2. chain[w][c] \in ChainStates
    BY <1>t DEF TasksTyped
  <2>3. ASSUME NEW r \in Requests \cup {None}, Returns(w, c, r), chain[w][c].pc # "none"
        PROVE  \A v \in Tasks : QueueTask(v)'
    <3>1. Else(w) /\ Gave(w, c, r)
      BY <1>t, <2>3, ReturnsPlain
    <3>2. CASE c = "main"
      <4>1. task[w].pc = "fetching"
        BY <1>t, <2>3, <3>2 DEF Places, CallsPlaced
      <4>2. QueueTask(w)'
        BY <1>q, <3>1, <3>2, <4>1 DEF Gave, QueueTask
      <4> QED
        BY <1>e, <3>1, <4>2
    <3>3. CASE c = "late"
      <4>1. QueueTask(w)'
        BY <1>q, <3>1, <3>3 DEF Gave, QueueTask
      <4> QED
        BY <1>e, <3>1, <4>1
    <3> QED
      BY <3>2, <3>3 DEF Calls
  <2>4. ASSUME NEW place, Goes(w, c, place)
        PROVE  \A v \in Tasks : QueueTask(v)'
    BY <1>t, <1>m, <2>4, GoesPlain DEF Went
  <2>5. CASE FetchFails(w, c)
    <3>1. c = "main" => task[w].pc = "fetching"
      BY <1>t, <2>5 DEF FetchFails, Places, CallsPlaced
    <3> QED
      BY <1>t, <1>m, <2>1, <2>5, <3>1, FailsPlain
  <2>6. chain[w][c].item \in Requests \cup {None}
    BY <2>2 DEF ChainStates
  <2> QED
    BY <1>2, <2>1, <2>3, <2>4, <2>5, <2>6 DEF FetchSteps, ListAnswered, AddReaches, AddReturns,
                                         AddFails, TakeNothing, Take
<1>3. ASSUME NEW w \in Tasks, TaskSteps(w)
      PROVE  hasQueue' /\ \A v \in Tasks : QueueTask(v)'
  <2>1. hasQueue'
    <3>1. CASE StartTask(w) \/ FetchTimesOut(w) \/ StartJob(w) \/ SessionFails(w)
      BY <1>q, <3>1 DEF StartTask, FetchTimesOut, StartJob, SessionFails, setupVars
    <3>2. CASE \/ \E r \in Linked : HandlerAdds(w, r)
               \/ HandlerReturns(w)
               \/ \E b \in BOOLEAN : HandlerThrows(w, b)
      BY <1>q, <3>2 DEF HandlerAdds, HandlerReturns, HandlerThrows, setupVars
    <3>3. CASE MarkReturns(w) \/ MarkThrows(w) \/ ReclaimReturns(w) \/ GiveUpReturns(w)
      BY <1>q, <3>3 DEF MarkReturns, MarkThrows, ReclaimReturns, GiveUpReturns, setupVars
    <3>4. CASE SourceFailsError(w) \/ FailureReported(w) \/ ReportFails(w)
      BY <1>q, <3>4 DEF SourceFailsError, FailureReported, ReportFails, setupVars
    <3> QED
      BY <1>3, <3>1, <3>2, <3>3, <3>4 DEF TaskSteps
  <2>2. CASE StartTask(w)
    BY <1>t, <1>q, <1>m, <2>1, <2>2, StartPlain
  <2>3. CASE FetchTimesOut(w)
    <3>1. task[w].pc = "fetching"
      BY <1>t, <2>3 DEF FetchTimesOut, Places, CallsPlaced
    <3> QED
      BY <1>t, <1>m, <2>1, <2>3, <3>1, TimesOutPlain
  <2>4. CASE StartJob(w)
    BY <1>t, <1>m, <2>1, <2>4, StartJobPlain DEF StartJob
  <2>5. CASE SessionFails(w)
    BY <1>t, <1>m, <2>1, <2>5, SessionPlain
  <2>6. CASE \E r \in Linked : HandlerAdds(w, r)
    BY <1>m, <2>1, <2>6 DEF HandlerAdds, Else
  <2>7. CASE HandlerReturns(w)
    BY <1>t, <1>m, <2>1, <2>7, ReturnPlain DEF HandlerReturns, WithContext, Working
  <2>8. CASE \E b \in BOOLEAN : HandlerThrows(w, b)
    BY <1>t, <1>n, <1>m, <2>1, <2>8, ThrowPlain DEF HandlerThrows, WithContext, Working
  <2>9. CASE MarkReturns(w) \/ ReclaimReturns(w) \/ FailureReported(w)
    BY <1>t, <1>m, <2>1, <2>9, LeavesPlain DEF MarkReturns, ReclaimReturns, FailureReported
  <2>10. CASE MarkThrows(w)
    BY <1>t, <1>n, <1>m, <2>1, <2>10, MarkThrowPlain DEF MarkThrows, WithContext, Working
  <2>11. CASE GiveUpReturns(w)
    BY <1>t, <1>m, <2>1, <2>11, PcPlain DEF GiveUpReturns, WithContext, Working
  <2>12. CASE SourceFailsError(w) \/ ReportFails(w)
    BY <1>t, <1>n, <1>m, <2>1, <2>12, ErrorAgain
       DEF SourceFailsError, ReportFails, WithContext, Working
  <2> QED
    BY <1>3, <2>2, <2>3, <2>4, <2>5, <2>6, <2>7, <2>8, <2>9, <2>10, <2>11, <2>12 DEF TaskSteps
<1> QED
  BY <1>f, <1>1, <1>2, <1>3 DEF Next, WithQueue

(* Without a queue and without a task, none starts.                        *)
LEMMA WithoutQueueStays ==
    ASSUME TasksInv, WithoutQueue, [Next]_vars, ~Restart
    PROVE  /\ WithoutQueue'
           /\ PoolSteps \/ (\E p \in Savers : Persists(p)) \/ UNCHANGED vars
<1>t. ListInv /\ TasksTyped /\ Kept /\ Places
  BY DEF TasksInv, CrawlerInv
<1>q. ~hasQueue /\ (\A w \in Tasks : task[w].pc = "idle") /\ IsListFinished
  BY DEF WithoutQueue, Running
<1>r. ~IsTaskReady
  BY <1>t, <1>q DEF IsTaskReady, IsListEmpty, IsListFinished, ListInv, ListTypeOK
<1>c. \A w \in Tasks : \A c \in Calls : chain[w][c].pc = "none"
  <2>1. \A w \in Tasks : \A c \in Calls : chain[w][c] \in ChainStates
    BY <1>t DEF TasksTyped
  <2> QED
    BY <1>t, <1>q, <2>1 DEF Places, CallsPlaced, Kept, FetchesKept, Calls, ChainStates
<1>1. \A w \in Tasks : ~TaskSteps(w)
  BY <1>q, <1>r, <1>c
     DEF TaskSteps, StartTask, FetchTimesOut, StartJob, SessionFails, HandlerAdds,
         HandlerReturns, HandlerThrows, MarkReturns, MarkThrows, ReclaimReturns, GiveUpReturns,
         SourceFailsError, FailureReported, ReportFails, Calls
<1>2. \A w \in Tasks : \A c \in Calls : ~FetchSteps(w, c)
  BY <1>c DEF FetchSteps, ListAnswered, AddReaches, AddReturns, AddFails, TakeNothing, Take,
              FetchFails
<1>3. PoolSteps \/ (\E p \in Savers : Persists(p)) \/ UNCHANGED vars
  BY <1>1, <1>2 DEF Next
<1>4. UNCHANGED <<hasQueue, task>>
  BY <1>3 DEF PoolSteps, AskReady, NotReady, FinishAnswered, QueryFails, PauseOnMigration,
              Persists, setupVars, vars
<1>5. IsListFinished'
  BY <1>t, <1>q, ListStays
<1> QED
  BY <1>3, <1>4, <1>5 DEF WithoutQueue, Running

(* A queue that is finished gets nothing more: no task has anything that   *)
(* it could add or reclaim, and no late fetch has anything of the list.    *)
LEMMA FinishedStays ==
    ASSUME TasksInv, HeldBusy, ListOnce, WithQueue, QueueFinished, [Next]_vars, ~Restart
    PROVE  QueueFinished'
<1>t. ListInv /\ TasksTyped /\ CountsTyped /\ Kept /\ Places
  BY DEF TasksInv, CrawlerInv
<1>q. /\ busy = {} /\ listInProgress = {} /\ hasQueue
      /\ \A r \in Requests : status[r] # "pending"
      /\ \A v \in Tasks : QueueTask(v)
  BY DEF WithQueue, QueueFinished, IsListFinished
<1>e. UNCHANGED status /\ busy' = {} => QueueFinished'
  BY <1>q DEF QueueFinished
<1>1. CASE PoolSteps \/ (\E p \in Savers : Persists(p)) \/ UNCHANGED vars
  <2>1. UNCHANGED status /\ (UNCHANGED busy \/ busy' = {})
    BY <1>1 DEF PoolSteps, AskReady, NotReady, ResetsQueue, FinishAnswered, QueryFails,
                PauseOnMigration, Persists, queueVars, vars
  <2> QED
    BY <1>e, <1>q, <2>1
<1>2. ASSUME NEW w \in Tasks, NEW c \in Calls, FetchSteps(w, c)
      PROVE  UNCHANGED status /\ busy' = {}
  <2>1. CASE \/ ListAnswered(w, c) \/ AddReturns(w, c) \/ AddFails(w, c) \/ TakeNothing(w, c)
             \/ FetchFails(w, c)
    BY <1>q, <2>1
       DEF ListAnswered, AddReturns, AddFails, TakeNothing, FetchFails, queueVars
  <2>2. CASE \E r \in Requests : Take(w, c, r)
    BY <1>q, <2>2 DEF Take, Available
  <2>3. CASE AddReaches(w, c)
    <3>1. PICK r : r = chain[w][c].item
      OBVIOUS
    <3>2. /\ chain[w][c].pc = "adding" /\ UNCHANGED busy
          /\ UNCHANGED status \/ (status[r] = "absent" /\ status' = [status EXCEPT ![r] = "pending"])
      BY <2>3, <3>1 DEF AddReaches, AddTo
    <3>3. r \in Requests => status[r] # "absent"
      <4>1. r \in Requests /\ status[r] = "absent" => Sole(r)
        BY DEF Sole
      <4>2. Owns(w, c, r) /\ c \in Hands
        BY <3>1, <3>2 DEF Owns, Hands
      <4> QED
        BY <1>q, <4>1, <4>2 DEF ListOnce, OwnedOnce
    <3>4. UNCHANGED status
      BY <1>t, <3>2, <3>3 DEF TasksTyped
    <3> QED
      BY <1>q, <3>2, <3>4
  <2> QED
    BY <1>2, <2>1, <2>2, <2>3 DEF FetchSteps
<1>3. ASSUME NEW w \in Tasks, TaskSteps(w)
      PROVE  UNCHANGED status /\ busy' = {}
  <2>1. CASE \/ StartTask(w) \/ FetchTimesOut(w) \/ StartJob(w) \/ SessionFails(w)
             \/ HandlerReturns(w) \/ FailureReported(w) \/ ReportFails(w)
    BY <1>q, <2>1 DEF StartTask, FetchTimesOut, StartJob, SessionFails, HandlerReturns,
                      FailureReported, ReportFails, queueVars
  <2>2. CASE \E b \in BOOLEAN : HandlerThrows(w, b)
    BY <1>q, <2>2 DEF HandlerThrows, queueVars
  <2>3. CASE \E r \in Linked : HandlerAdds(w, r)
    <3>1. task[w].pc = "handling" /\ task[w].source = "queue"
      BY <1>q, <2>3 DEF HandlerAdds, QueueTask
    <3>2. ~task[w].fromList /\ task[w].context # None
      BY <1>t, <3>1 DEF Places, TaskPlaced, Working, WithContext
    <3>3. task[w].context \in Requests
      BY <1>t, <3>2 DEF TasksTyped, TaskStates
    <3>4. task[w].context \in Held(w)
      BY <3>1, <3>2, <3>3 DEF Held, Working
    <3> QED
      BY <1>q, <3>1, <3>4 DEF HeldBusy, HeldKept
  <2>4. ASSUME NEW r, SourceMarks(w, r) \/ SourceReclaims(w, r)
        PROVE  UNCHANGED status /\ busy' = {}
    BY <1>q, <2>4 DEF SourceMarks, SourceReclaims, queueVars
  <2>5. ASSUME NEW r, NEW new, SourceThrows(w, r, new)
        PROVE  UNCHANGED status /\ busy' = {}
    BY <1>q, <2>5 DEF SourceThrows, queueVars
  <2>6. CASE MarkReturns(w) \/ ReclaimReturns(w) \/ GiveUpReturns(w)
    BY <2>4, <2>6 DEF MarkReturns, ReclaimReturns, GiveUpReturns
  <2>7. CASE MarkThrows(w) \/ SourceFailsError(w)
    BY <2>5, <2>7 DEF MarkThrows, SourceFailsError
  <2> QED
    BY <1>3, <2>1, <2>2, <2>3, <2>6, <2>7 DEF TaskSteps
<1> QED
  BY <1>e, <1>1, <1>2, <1>3 DEF Next

(* Every step keeps that.                                                  *)
LEMMA StepClosing ==
    ASSUME TasksInv, HeldBusy, ListOnce, Closing, [Next]_vars
    PROVE  Closing'
<1>1. CASE Restart
  BY <1>1 DEF Restart, Closing
<1>2. CASE ~Restart
  <2>q. WithQueue => WithQueue'
    BY <1>2, WithQueueStays
  <2>w. WithoutQueue => WithoutQueue'
    BY <1>2, WithoutQueueStays
  <2>f. WithQueue /\ QueueFinished => QueueFinished'
    BY <1>2, FinishedStays
  <2>l. ~MaxPagesExceeded' => ~MaxPagesExceeded
    BY <1>2, LimitStays
  <2>1. ASSUME finishAsk' \in {"none", finishAsk}, pool' = "finished" => pool = "finished"
        PROVE  Closing'
    BY <2>1, <2>q, <2>w, <2>f, <2>l DEF Closing
  <2>2. ASSUME NEW w \in Tasks, TaskSteps(w) \/ \E c \in Calls : FetchSteps(w, c)
        PROVE  UNCHANGED finishAsk /\ (pool' = "finished" => pool = "finished")
    <3>1. \A old : FetchesAgain(w, old) => (pool' = "finished" => pool = "finished")
      BY DEF FetchesAgain
    <3>2. Dies(w) \/ ErrorHandlerThrows(w) => (pool' = "finished" => pool = "finished")
      BY DEF Dies, ErrorHandlerThrows
    <3>3. ASSUME NEW c \in Calls, FetchSteps(w, c)
          PROVE  UNCHANGED finishAsk /\ (pool' = "finished" => pool = "finished")
      BY <3>1, <3>3 DEF FetchSteps, ListAnswered, AddReaches, AddReturns, AddFails, TakeNothing,
                        Take, FetchFails, poolVars
    <3>4. ASSUME \/ StartTask(w) \/ FetchTimesOut(w) \/ StartJob(w) \/ SessionFails(w)
                 \/ (\E r \in Linked : HandlerAdds(w, r)) \/ HandlerReturns(w)
          PROVE  UNCHANGED finishAsk /\ (pool' = "finished" => pool = "finished")
      BY <3>1, <3>2, <3>4 DEF StartTask, FetchTimesOut, StartJob, SessionFails, HandlerAdds,
                              HandlerReturns, poolVars
    <3>5. ASSUME \E b \in BOOLEAN : HandlerThrows(w, b)
          PROVE  UNCHANGED finishAsk /\ (pool' = "finished" => pool = "finished")
      BY <3>2, <3>5 DEF HandlerThrows
    <3>6. ASSUME \/ MarkReturns(w) \/ ReclaimReturns(w) \/ GiveUpReturns(w) \/ FailureReported(w)
                 \/ MarkThrows(w)
          PROVE  UNCHANGED finishAsk /\ (pool' = "finished" => pool = "finished")
      BY <3>2, <3>6 DEF MarkReturns, ReclaimReturns, GiveUpReturns, FailureReported, MarkThrows,
                        poolVars
    <3>7. ASSUME SourceFailsError(w) \/ ReportFails(w)
          PROVE  UNCHANGED finishAsk /\ (pool' = "finished" => pool = "finished")
      BY <3>2, <3>7 DEF SourceFailsError, ReportFails
    <3> QED
      BY <2>2, <3>3, <3>4, <3>5, <3>6, <3>7 DEF TaskSteps
  <2>3. CASE AskReady \/ QueryFails \/ PauseOnMigration \/ (\E p \in Savers : Persists(p))
             \/ UNCHANGED vars
    <3>1. finishAsk' \in {"none", finishAsk} /\ (pool' = "finished" => pool = "finished")
      BY <2>3 DEF AskReady, QueryFails, PauseOnMigration, Persists, poolVars, vars
    <3> QED
      BY <2>1, <3>1
  <2>4. CASE \E reset \in BOOLEAN : NotReady(reset)
    <3>1. UNCHANGED <<pool, task, hasQueue>> /\ (finishAsk' = finishAsk
              \/ (Running = {} /\ finishAsk' = FinishQuery))
      BY <2>4 DEF NotReady, setupVars
    <3>2. CASE finishAsk' = finishAsk
      BY <2>1, <3>1, <3>2
    <3>3. CASE Running = {} /\ finishAsk' = FinishQuery
      <4>1. \A w \in Tasks : QueueTask(w)
        BY <3>3 DEF Running, QueueTask
      <4>2. finishAsk' = "queue" => WithQueue
        BY <3>3, <4>1 DEF FinishQuery, WithQueue
      <4>3. finishAsk' = "yes" /\ ~MaxPagesExceeded => WithoutQueue
        BY <3>3 DEF FinishQuery, WithoutQueue
      <4> QED
        BY <2>q, <2>w, <2>f, <2>l, <3>1, <4>2, <4>3 DEF Closing
    <3> QED
      BY <3>1, <3>2, <3>3
  <2>5. CASE FinishAnswered
    <3>1. /\ finishAsk' = "none"
          /\ \/ finishAsk = "yes" \/ (finishAsk = "queue" /\ QueueFinished)
             \/ UNCHANGED pool
      BY <2>5 DEF FinishAnswered
    <3> QED
      BY <2>q, <2>w, <2>f, <2>l, <3>1 DEF Closing
  <2>6. Next => PoolSteps \/ (\E w \in Tasks : TaskSteps(w) \/ \E c \in Calls : FetchSteps(w, c))
                \/ (\E p \in Savers : Persists(p))
    BY <1>2 DEF Next
  <2> QED
    BY <2>1, <2>2, <2>3, <2>4, <2>5, <2>6 DEF PoolSteps
<1> QED
  BY <1>1, <1>2

(* That is what the property says of a finished pool.                      *)
LEMMA ClosingFinished == Closing => FinishedMeansDone
BY DEF Closing, FinishedMeansDone, WithQueue, WithoutQueue, QueueFinished

(* Whatever fails, is answered late or restarted: when the pool finishes   *)
(* below the limit the list is at its end with nothing in progress, and    *)
(* the queue, opened before or after, has nothing pending.                 *)
THEOREM FinishedMeansDoneHolds == CrawlerSpec => []FinishedMeansDone
<1>1. CrawlerInit => Closing
  BY DEF CrawlerInit, Closing
<1>2. TasksInv /\ HeldBusy /\ ListOnce /\ Closing /\ [Next]_vars => Closing'
  BY StepClosing
<1> QED
  BY <1>1, <1>2, ClosingFinished, TasksInvHolds, HeldBusyHolds, ListOnceHolds, PTL DEF CrawlerSpec

-----------------------------------------------------------------------------
(* The statistics: what was closed is not open again, and the jobs that    *)
(* are counted as running are those of the tasks.                          *)
Own(w) == Job(task[w], task[w].context)

(* What was marked is handled, or off the list.                            *)
ClosedKept ==
    \A r \in Requests :
        /\ <<"queue", r>> \in closed => status[r] = "handled" /\ r \notin busy
        /\ <<"list", r>> \in closed => r \notin listInProgress \cup From(nextIndex)

(* The job of a task runs until it is marked.                              *)
JobKept(w) ==
    task[w].pc \in WithContext =>
        /\ task[w].pc \in {"handling", "marking"} => Own(w) \in jobs
        /\ task[w].source = "queue" => (Own(w) \in jobs <=> task[w].context \in busy)
        /\ task[w].source = "list" => Own(w) \in jobs \/ <<"list", task[w].context>> \in closed

(* Every mark was counted once.                                            *)
StatsKept ==
    /\ requestsFinished + requestsFailed = Cardinality(closed)
    /\ ClosedKept
    /\ \A w \in Tasks : JobKept(w)

(* No two tasks have the same job.                                         *)
LEMMA JobsApart ==
    ASSUME TasksInv, HeldBusy, ListOnce, NEW v \in Tasks, NEW w \in Tasks, v # w,
           task[v].pc \in Working, task[w].pc \in Working,
           NEW r \in Requests, r = task[v].request \/ r = task[v].context,
           r = task[w].request \/ r = task[w].context
    PROVE  Job(task[v], r) # Job(task[w], r)
<1>t. TasksTyped /\ Places
  BY DEF TasksInv, CrawlerInv
<1>1. task[v].fromList \in BOOLEAN /\ task[w].fromList \in BOOLEAN
  BY <1>t DEF TasksTyped, TaskStates
<1>2. CASE ~task[v].fromList /\ ~task[w].fromList
  <2>1. r \in Held(v) /\ r \in Held(w)
    BY <1>2 DEF Held
  <2> QED
    BY <2>1 DEF HeldBusy
<1>3. CASE task[v].fromList /\ task[w].fromList
  <2>1. \A u \in {v, w} : task[u].request = r
    <3>1. ASSUME NEW u \in {v, w}, task[u].request # r
          PROVE  FALSE
      <4>1. task[u].context = r /\ u \in Tasks /\ task[u].fromList /\ task[u].pc \in Working
        BY <1>3, <3>1
      <4>2. task[u].context # None
        BY <4>1, CrawlerAssumption
      <4> QED
        BY <1>t, <3>1, <4>1, <4>2 DEF Places, TaskPlaced
    <3> QED
      BY <3>1
  <2>2. Owns(v, "task", r) /\ Owns(w, "task", r)
    BY <1>3, <2>1 DEF Owns
  <2> QED
    BY <2>2 DEF ListOnce
<1>4. CASE task[v].fromList # task[w].fromList
  BY <1>1, <1>4 DEF Job
<1> QED
  BY <1>1, <1>2, <1>3, <1>4

(* The context of a task is a request.                                     *)
LEMMA ContextIsRequest ==
    ASSUME TasksInv, NEW w \in Tasks, task[w].pc \in WithContext
    PROVE  /\ task[w].context \in Requests
           /\ Own(w) = <<"queue", task[w].context>> \/ Own(w) = <<"list", task[w].context>>
           /\ task[w].source = "queue" => Own(w) = <<"queue", task[w].context>>
           /\ task[w].source \in {"queue", "list"}
           /\ task[w].pc \in Working
<1>1. task[w].context # None /\ task[w].context \in Requests \cup {None} /\ task[w].source \in Sources
  BY DEF TasksInv, CrawlerInv, TasksTyped, TaskStates, Places, TaskPlaced
<1>2. task[w].source = "queue" => ~task[w].fromList
  BY DEF TasksInv, Places, TaskPlaced, WithContext
<1> QED
  BY <1>1, <1>2 DEF Own, Job, Sources, WithContext

(* Two tasks have two jobs.                                                *)
LEMMA OwnsApart ==
    ASSUME TasksInv, HeldBusy, ListOnce, NEW v \in Tasks, NEW w \in Tasks, v # w,
           task[v].pc \in WithContext, task[w].pc \in WithContext
    PROVE  Own(v) # Own(w)
<1>1. CASE task[v].context = task[w].context
  BY <1>1, ContextIsRequest, JobsApart DEF Own
<1>2. CASE task[v].context # task[w].context
  BY <1>2, ContextIsRequest DEF Own, Job
<1> QED
  BY <1>1, <1>2

(* Nothing that was closed and handled is given out.                       *)
StaysClosed ==
    \A r \in Requests : status[r] = "handled" /\ r \notin busy =>
        status'[r] = "handled" /\ r \notin busy'

(* No task is given, or deprived of, what its context has.                 *)
SameBusy(v) ==
    task[v].pc \in WithContext /\ task[v].source = "queue" =>
        (task[v].context \in busy' <=> task[v].context \in busy)

(* What was marked stays so.                                               *)
LEMMA ClosedStays ==
    ASSUME TasksInv, ClosedKept, [Next]_vars, ~Restart, StaysClosed, UNCHANGED closed
    PROVE  ClosedKept'
<1>1. \A x \in listInProgress' \cup From(nextIndex)' : x \in listInProgress \cup From(nextIndex)
  BY ListShrinks DEF TasksInv, CrawlerInv
<1> QED
  BY <1>1 DEF ClosedKept, StaysClosed

(* The jobs of the others run on.                                          *)
LEMMA JobElse ==
    ASSUME NEW v \in Tasks, JobKept(v), task'[v] = task[v], SameBusy(v),
           closed \subseteq closed',
           task[v].pc \in WithContext => (Own(v) \in jobs' <=> Own(v) \in jobs)
    PROVE  JobKept(v)'
<1>1. Own(v)' = Own(v)
  BY DEF Own, Job
<1> QED
  BY <1>1 DEF JobKept, SameBusy

(* The job of a task that moves runs on.                                   *)
LEMMA JobMoves ==
    ASSUME NEW w \in Tasks, JobKept(w), SameBusy(w), UNCHANGED <<closed, jobs>>,
           \/ Left(w) \/ Died(w)
           \/ Stays(w)
           \/ Erred(w) /\ task[w].pc \in WithContext
           \/ Turns(w, "marking") /\ task[w].pc = "handling"
    PROVE  JobKept(w)'
<1>1. CASE Left(w) \/ Died(w)
  BY <1>1 DEF Left, Died, JobKept, WithContext, Working
<1>2. CASE /\ SameJob(w)
           /\ task'[w].pc \in WithContext => task[w].pc \in WithContext
           /\ task'[w].pc \in {"handling", "marking"} => task[w].pc \in {"handling", "marking"}
  <2>1. Own(w)' = Own(w)
    BY <1>2 DEF SameJob, Own, Job
  <2> QED
    BY <1>2, <2>1 DEF SameJob, JobKept, SameBusy
<1>3. CASE Turns(w, "marking") /\ task[w].pc = "handling"
  BY <1>2, <1>3 DEF Turns, WithContext, Working
<1>4. CASE Stays(w) \/ (Erred(w) /\ task[w].pc \in WithContext)
  BY <1>2, <1>4 DEF Stays, Erred
<1> QED
  BY <1>1, <1>3, <1>4

(* A step that closes nothing and starts nothing.                          *)
LEMMA StatsQuiet ==
    ASSUME TasksInv, StatsKept, [Next]_vars, ~Restart, NEW w \in Tasks, Else(w),
           UNCHANGED <<closed, jobs, requestsFinished, requestsFailed>>,
           StaysClosed, \A v \in Tasks : SameBusy(v), JobKept(w)'
    PROVE  StatsKept'
<1>1. ClosedKept'
  BY ClosedStays DEF StatsKept
<1>2. ASSUME NEW v \in Tasks
      PROVE  JobKept(v)'
  BY JobElse DEF Else, StatsKept
<1> QED
  BY <1>1, <1>2 DEF StatsKept

(* A step of a call keeps the statistics.                                  *)
LEMMA FetchStats ==
    ASSUME TasksInv, HeldBusy, StatsKept, [Next]_vars, ~Restart,
           NEW w \in Tasks, NEW c \in Calls, FetchSteps(w, c)
    PROVE  StatsKept'
<1>t. TasksTyped /\ CountsTyped /\ Kept /\ Places
  BY DEF TasksInv, CrawlerInv
<1>u. UNCHANGED <<closed, jobs, requestsFinished, requestsFailed>>
  BY DEF FetchSteps, ListAnswered, AddReaches, AddReturns, AddFails, TakeNothing, Take, FetchFails,
         statsVars, historyVars
<1>c. chain[w][c] \in ChainStates /\ chain[w][c].item \in Requests \cup {None}
  BY <1>t DEF TasksTyped, ChainStates
<1>1. StaysClosed /\ \A v \in Tasks : SameBusy(v)
  <2>1. CASE \/ ListAnswered(w, c) \/ AddReturns(w, c) \/ AddFails(w, c) \/ TakeNothing(w, c)
             \/ FetchFails(w, c)
    BY <2>1 DEF ListAnswered, AddReturns, AddFails, TakeNothing, FetchFails, queueVars,
                StaysClosed, SameBusy
  <2>2. CASE AddReaches(w, c)
    <3>1. UNCHANGED busy /\ \E r : UNCHANGED status \/ (status[r] = "absent"
              /\ status' = [status EXCEPT ![r] = "pending"])
      BY <2>2 DEF AddReaches, AddTo
    <3>2. \A x \in Requests : status[x] = "handled" => status'[x] = "handled"
      BY <1>t, <3>1 DEF TasksTyped
    <3> QED
      BY <3>1, <3>2 DEF StaysClosed, SameBusy
  <2>3. CASE \E r \in Requests : Take(w, c, r)
    <3>1. PICK r \in Requests : /\ status[r] = "pending" /\ r \notin busy
                                /\ busy' = busy \cup {r} /\ UNCHANGED status
      BY <2>3 DEF Take, Available
    <3>2. StaysClosed
      BY <3>1 DEF StaysClosed
    <3>3. ASSUME NEW v \in Tasks, task[v].pc \in WithContext, task[v].source = "queue"
          PROVE  task[v].context # r
      <4>1. r \notin Held(v)
        BY <3>1 DEF HeldBusy, HeldKept
      <4>2. ~task[v].fromList /\ task[v].pc \in Working
        BY <1>t, <3>3 DEF Places, TaskPlaced, WithContext
      <4> QED
        BY <4>1, <4>2 DEF Held
    <3> QED
      BY <3>1, <3>2, <3>3 DEF SameBusy
  <2> QED
    BY <2>1, <2>2, <2>3 DEF FetchSteps
<1>2. ASSUME Else(w), task'[w] = task[w]
      PROVE  StatsKept'
  <2>1. JobKept(w)'
    BY <1>1, <1>u, <1>2, JobElse DEF StatsKept
  <2> QED
    BY <1>1, <1>u, <1>2, <2>1, StatsQuiet
<1>3. ASSUME NEW r \in Requests \cup {None}, Returns(w, c, r), chain[w][c].pc # "none"
      PROVE  StatsKept'
  <2>1. Else(w) /\ Gave(w, c, r)
    BY <1>t, <1>3, ReturnsPlain
  <2>2. JobKept(w)'
    <3>1. CASE c = "main"
      BY <2>1, <3>1 DEF Gave, JobKept, WithContext
    <3>2. CASE c = "late"
      <4>1. /\ task'[w].pc = task[w].pc /\ task'[w].source = task[w].source
            /\ task'[w].context = task[w].context /\ task'[w].fromList = task[w].fromList
        BY <2>1, <3>2 DEF Gave
      <4>2. Own(w)' = Own(w)
        BY <4>1 DEF Own, Job
      <4> QED
        BY <1>1, <1>u, <4>1, <4>2 DEF StatsKept, JobKept, SameBusy
    <3> QED
      BY <3>1, <3>2 DEF Calls
  <2> QED
    BY <1>1, <1>u, <2>1, <2>2, StatsQuiet
<1>4. ASSUME NEW place, Goes(w, c, place)
      PROVE  StatsKept'
  BY <1>t, <1>2, <1>4, GoesPlain DEF Went
<1>5. CASE FetchFails(w, c)
  <2>1. Else(w)
    BY <1>t, <1>5, FailsPlain
  <2>2. CASE c = "main" /\ Again(w, chain[w]["late"])
    <3>1. task[w].pc = "fetching"
      BY <1>5, <1>t, <2>2 DEF FetchFails, Places, CallsPlaced
    <3>2. JobKept(w)'
      BY <2>2, <3>1 DEF Again, Stays, JobKept, WithContext, Working
    <3> QED
      BY <1>1, <1>u, <2>1, <3>2, StatsQuiet
  <2>3. CASE UNCHANGED task
    BY <1>2, <2>1, <2>3
  <2> QED
    BY <1>t, <1>5, <2>2, <2>3, FailsPlain
<1> QED
  BY <1>c, <1>2, <1>3, <1>4, <1>5 DEF FetchSteps, ListAnswered, AddReaches, AddReturns, AddFails,
                            TakeNothing, Take

(* What a task marks was not closed, and is its job if it was still one.   *)
LEMMA MarksClosed ==
    ASSUME TasksInv, HeldBusy, ListOnce, StatsKept, [Next]_vars, ~Restart,
           NEW w \in Tasks, NEW r \in Requests, r \in {task[w].request, task[w].context},
           task[w].pc \in {"marking", "givingUp"}, Else(w), SourceMarks(w, r),
           task[w].source = "queue" => (r \in busy <=> Own(w) \in jobs),
           task[w].source = "list" => Own(w) \in jobs,
           jobs' = jobs \ {Own(w)},
           requestsFinished' + requestsFailed'
               = requestsFinished + requestsFailed + (IF Own(w) \in jobs THEN 1 ELSE 0)
    PROVE  /\ requestsFinished' + requestsFailed' = Cardinality(closed')
           /\ ClosedKept'
           /\ \A v \in Tasks : v # w => JobKept(v)'
<1>t. ListInv /\ TasksTyped /\ CountsTyped /\ Places
  BY DEF TasksInv, CrawlerInv
<1>f. IsFiniteSet(closed) /\ Cardinality(closed) \in Nat
  <2>1. IsFiniteSet(Sources) /\ IsFiniteSet(Requests)
    <3>1. IsFiniteSet({} \cup {"list"})
      BY FS_EmptySet, FS_AddElement
    <3>2. IsFiniteSet(({} \cup {"list"}) \cup {"queue"})
      BY <3>1, FS_AddElement
    <3>3. Sources = ({} \cup {"list"}) \cup {"queue"}
      BY DEF Sources
    <3> QED
      BY <3>2, <3>3, ListAssumption
  <2>2. IsFiniteSet(Sources \X Requests) /\ closed \in SUBSET (Sources \X Requests)
    BY <1>t, <2>1, FS_Product DEF CountsTyped
  <2> QED
    BY <2>2, FS_Subset, FS_CardinalityType
<1>k. ClosedKept /\ requestsFinished + requestsFailed = Cardinality(closed)
  BY DEF StatsKept
<1>w. task[w].pc \in WithContext /\ task[w].pc \in Working
  BY DEF WithContext, Working
<1>p. ASSUME NEW x, x \notin closed, closed' = closed \cup {x}, Own(w) \in jobs
      PROVE  requestsFinished' + requestsFailed' = Cardinality(closed')
  <2>1. Cardinality(closed \cup {x}) = Cardinality(closed) + 1
    BY <1>f, <1>p, FS_AddElement
  <2>2. requestsFinished' + requestsFailed' = requestsFinished + requestsFailed + 1
    BY <1>p
  <2> QED
    BY <1>k, <1>p, <2>1, <2>2
<1>1. CASE /\ task[w].source = "queue"
           /\ status' = IF r \in busy THEN [status EXCEPT ![r] = "handled"] ELSE status
           /\ closed' = IF r \in busy THEN closed \cup {<<"queue", r>>} ELSE closed
           /\ busy' = busy \ {r}
           /\ UNCHANGED listVars
  <2>1. ASSUME r \in busy
        PROVE  requestsFinished' + requestsFailed' = Cardinality(closed')
    <3>1. <<"queue", r>> \notin closed
      BY <1>k, <2>1 DEF ClosedKept
    <3> QED
      BY <1>1, <1>p, <2>1, <3>1
  <2>2. ASSUME r \notin busy
        PROVE  requestsFinished' + requestsFailed' = Cardinality(closed')
    <3>0. Own(w) \notin jobs
      BY <1>1, <2>2
    <3>1. requestsFinished' + requestsFailed' = requestsFinished + requestsFailed + 0
      BY <3>0
    <3>2. requestsFinished \in Nat /\ requestsFailed \in Nat /\ closed' = closed
      BY <1>1, <1>t, <2>2 DEF CountsTyped
    <3> QED
      BY <1>k, <3>1, <3>2
  <2>3. /\ \A x \in Requests : x # r => status'[x] = status[x] /\ (x \in busy' <=> x \in busy)
        /\ r \in busy => status'[r] = "handled"
        /\ r \notin busy => status'[r] = status[r]
        /\ r \notin busy'
    BY <1>1, <1>t DEF TasksTyped
  <2>4. ClosedKept'
    <3>1. \A x \in Requests : /\ <<"queue", x>> \in closed' => <<"queue", x>> \in closed
                                                                   \/ (x = r /\ r \in busy)
                              /\ <<"list", x>> \in closed' => <<"list", x>> \in closed
      <4>1. UNCHANGED closed \/ (r \in busy /\ closed' = closed \cup {<<"queue", r>>})
        BY <1>1
      <4>2. \A x \in Requests : /\ <<"queue", x>> = <<"queue", r>> => x = r
                                /\ <<"list", x>> # <<"queue", r>>
        OBVIOUS
      <4> QED
        BY <4>1, <4>2
    <3>2. UNCHANGED <<listInProgress, nextIndex, requests>>
      BY <1>1 DEF listVars, memoryVars
    <3>3. From(nextIndex)' = From(nextIndex)
      BY <3>2 DEF From
    <3> QED
      BY <1>k, <2>3, <3>1, <3>2, <3>3 DEF ClosedKept
  <2>5. ASSUME NEW v \in Tasks, v # w
        PROVE  JobKept(v)'
    <3>1. SameBusy(v)
      <4>1. ASSUME task[v].pc \in WithContext, task[v].source = "queue"
            PROVE  task[v].context # r
        <5>1. task[v].context \in Held(v)
          BY <1>t, <4>1, ContextIsRequest DEF Places, TaskPlaced, Held
        <5>2. r \in Held(w)
          BY <1>t, <1>1, <1>w DEF Places, TaskPlaced, Held
        <5> QED
          BY <2>5, <5>1, <5>2 DEF HeldBusy
      <4> QED
        BY <2>3, <4>1, ContextIsRequest DEF SameBusy
    <3>2. task[v].pc \in WithContext => (Own(v) \in jobs' <=> Own(v) \in jobs)
      BY <1>w, <2>5, OwnsApart
    <3> QED
      BY <1>1, <2>5, <3>1, <3>2, JobElse DEF Else, StatsKept
  <2> QED
    BY <2>1, <2>2, <2>4, <2>5
<1>2. CASE /\ task[w].source = "list"
           /\ MarkInList(r)
           /\ closed' = closed \cup {<<"list", r>>}
           /\ UNCHANGED queueVars
  <2>1. r \in listInProgress /\ r \notin From(nextIndex)
    BY <1>2 DEF MarkInList, IsProcessed, ListOnce
  <2>2. <<"list", r>> \notin closed
    BY <1>k, <2>1 DEF ClosedKept
  <2>3. requestsFinished' + requestsFailed' = Cardinality(closed')
    BY <1>2, <1>p, <2>2
  <2>4. ClosedKept'
    BY <1>2, <1>k, <2>1 DEF ClosedKept, MarkInList, queueVars, From
  <2>5. ASSUME NEW v \in Tasks, v # w
        PROVE  JobKept(v)'
    <3>1. SameBusy(v)
      BY <1>2 DEF SameBusy, queueVars
    <3>2. task[v].pc \in WithContext => (Own(v) \in jobs' <=> Own(v) \in jobs)
      BY <1>w, <2>5, OwnsApart
    <3> QED
      BY <1>2, <2>5, <3>1, <3>2, JobElse DEF Else, StatsKept
  <2> QED
    BY <2>3, <2>4, <2>5
<1> QED
  BY <1>1, <1>2 DEF SourceMarks

(* A task that closes nothing counts nothing, and keeps its job.           *)
LEMMA MovesStats ==
    ASSUME TasksInv, StatsKept, [Next]_vars, ~Restart, NEW w \in Tasks, Else(w),
           UNCHANGED <<closed, jobs, requestsFinished, requestsFailed>>,
           StaysClosed, \A v \in Tasks : SameBusy(v),
           \/ Left(w) \/ Died(w)
           \/ Stays(w)
           \/ Erred(w) /\ task[w].pc \in WithContext
           \/ Turns(w, "marking") /\ task[w].pc = "handling"
    PROVE  StatsKept'
<1>1. JobKept(w)'
  BY JobMoves DEF StatsKept
<1> QED
  BY <1>1, StatsQuiet

(* The queue itself does not change.                                       *)
LEMMA QueueStill ==
    ASSUME UNCHANGED <<status, busy>>
    PROVE  StaysClosed /\ \A v \in Tasks : SameBusy(v)
BY DEF StaysClosed, SameBusy

(* A call that throws marks nothing anew.                                  *)
LEMMA ThrowsStill ==
    ASSUME TasksTyped, NEW w \in Tasks, NEW r, NEW new, SourceThrows(w, r, new)
    PROVE  StaysClosed /\ \A v \in Tasks : SameBusy(v)
<1>1. UNCHANGED busy /\ (UNCHANGED status \/ (r \in busy /\ status' = [status EXCEPT ![r] = new]))
  BY DEF SourceThrows, queueVars
<1> QED
  BY <1>1 DEF TasksTyped, StaysClosed, SameBusy

(* A task is given back only what is its own.                              *)
LEMMA ReclaimsStats ==
    ASSUME TasksInv, HeldBusy, ListOnce, StatsKept, [Next]_vars, NEW w \in Tasks, ReclaimReturns(w),
           ~Restart
    PROVE  StatsKept'
<1>t. TasksTyped /\ CountsTyped /\ Places
  BY DEF TasksInv, CrawlerInv
<1>1. /\ Ends(w) /\ task[w].pc = "reclaiming" /\ SourceReclaims(w, task[w].context)
      /\ UNCHANGED <<closed, jobs, requestsFinished, requestsFailed>>
  BY DEF ReclaimReturns, statsVars, historyVars
<1>2. Else(w) /\ Left(w)
  BY <1>t, <1>1, LeavesPlain
<1>3. JobKept(w)'
  BY <1>2 DEF Left, JobKept, WithContext, Working
<1>4. PICK r \in Requests : r = task[w].context
  BY <1>1, ContextIsRequest DEF WithContext, Working
<1>5. StaysClosed /\ \A v \in Tasks : v # w => SameBusy(v)
  <2>1. CASE UNCHANGED queueVars
    BY <2>1, QueueStill DEF queueVars
  <2>2. CASE /\ task[w].source = "queue" /\ busy' = busy \ {r}
             /\ status' = IF r \in busy THEN [status EXCEPT ![r] = "pending"] ELSE status
    <3>1. StaysClosed
      BY <1>t, <2>2 DEF TasksTyped, StaysClosed
    <3>2. ASSUME NEW v \in Tasks, v # w, task[v].pc \in WithContext, task[v].source = "queue"
          PROVE  task[v].context # r
      <4>1. task[v].context \in Held(v)
        BY <1>t, <3>2, ContextIsRequest DEF Places, TaskPlaced, Held
      <4>2. r \in Held(w)
        BY <1>t, <1>1, <1>4, <2>2 DEF Places, TaskPlaced, Held, Working
      <4> QED
        BY <3>2, <4>1, <4>2 DEF HeldBusy
    <3> QED
      BY <2>2, <3>1, <3>2 DEF SameBusy
  <2> QED
    BY <1>1, <1>4, <2>1, <2>2 DEF SourceReclaims
<1>6. ASSUME NEW v \in Tasks
      PROVE  JobKept(v)'
  BY <1>1, <1>2, <1>3, <1>5, JobElse DEF Else, StatsKept
<1>7. ClosedKept'
  BY <1>1, <1>5, ClosedStays DEF StatsKept
<1> QED
  BY <1>1, <1>6, <1>7 DEF StatsKept

(* A job that starts is nobody's yet.                                      *)
LEMMA StartsStats ==
    ASSUME TasksInv, HeldBusy, ListOnce, StatsKept, [Next]_vars, ~Restart, NEW w \in Tasks,
           StartJob(w), Handles(w)
    PROVE  StatsKept'
<1>t. TasksTyped /\ CountsTyped /\ Places
  BY DEF TasksInv, CrawlerInv
<1>1. /\ task[w].pc = "fetched" /\ Else(w)
      /\ UNCHANGED <<status, busy, closed, requestsFinished, requestsFailed>>
  BY <1>t, StartJobPlain DEF StartJob, queueVars
<1>2. PICK r \in Requests : r = task[w].request
  BY DEF Handles
<1>3. Own(w)' = Job(task[w], r) /\ jobs' = jobs \cup {Own(w)'}
  BY <1>2 DEF Handles, Own, Job
<1>4. JobKept(w)'
  <2>1. task[w].source = "queue" => r \in busy
    <3>1. task[w].source = "queue" => r \in Held(w)
      BY <1>t, <1>1, <1>2 DEF Places, TaskPlaced, Held, Working
    <3> QED
      BY <1>1, <3>1 DEF HeldBusy, HeldKept
  <2>2. /\ Own(w)' \in jobs' /\ task'[w].source = task[w].source /\ task'[w].context = r
        /\ busy' = busy
    BY <1>1, <1>2, <1>3 DEF Handles
  <2> QED
    BY <2>1, <2>2 DEF JobKept
<1>5. ASSUME NEW v \in Tasks, v # w
      PROVE  JobKept(v)'
  <2>1. ASSUME task[v].pc \in WithContext
        PROVE  Own(v) # Job(task[w], r)
    <3>1. CASE task[v].context = r
      BY <1>1, <1>2, <1>5, <2>1, <3>1, JobsApart DEF Own, WithContext, Working
    <3>2. CASE task[v].context # r
      BY <3>2 DEF Own, Job
    <3> QED
      BY <3>1, <3>2
  <2>2. task[v].pc \in WithContext => (Own(v) \in jobs' <=> Own(v) \in jobs)
    BY <1>3, <2>1
  <2> QED
    BY <1>1, <1>5, <2>2, JobElse, QueueStill DEF Else, StatsKept
<1>6. ClosedKept'
  BY <1>1, ClosedStays, QueueStill DEF StatsKept
<1> QED
  BY <1>1, <1>4, <1>5, <1>6 DEF StatsKept

(* A step of a task keeps the statistics.                                  *)
LEMMA TaskStats ==
    ASSUME TasksInv, HeldBusy, ListOnce, StatsKept, [Next]_vars, ~Restart,
           NEW w \in Tasks, TaskSteps(w)
    PROVE  StatsKept'
<1>t. TasksTyped /\ CountsTyped /\ Places
  BY DEF TasksInv, CrawlerInv
<1>n. /\ handledRequestsCount \in Nat /\ requestsFinished \in Nat /\ requestsFailed \in Nat
  BY <1>t DEF CountsTyped
<1>1. CASE StartTask(w) \/ FetchTimesOut(w)
  <2>1. UNCHANGED <<status, busy, closed, jobs, requestsFinished, requestsFailed>>
    BY <1>1 DEF StartTask, FetchTimesOut, queueVars, statsVars, historyVars
  <2>2. Else(w) /\ task'[w].pc \in {"fetching", "failed"}
    <3>1. CASE StartTask(w)
      BY <1>t, <3>1, StartPlain DEF Began
    <3>2. CASE FetchTimesOut(w)
      <4>1. task[w].pc = "fetching"
        BY <1>t, <3>2 DEF FetchTimesOut, Places, CallsPlaced
      <4> QED
        BY <1>t, <3>2, <4>1, TimesOutPlain DEF Again, Stays
    <3> QED
      BY <1>1, <3>1, <3>2
  <2>3. JobKept(w)'
    BY <2>2 DEF JobKept, WithContext, Working
  <2> QED
    BY <2>1, <2>2, <2>3, QueueStill, StatsQuiet
<1>3. CASE StartJob(w)
  <2>1. CASE Handles(w)
    BY <1>3, <2>1, StartsStats
  <2>2. CASE Left(w) /\ UNCHANGED jobs
    <3>1. Else(w) /\ UNCHANGED <<status, busy, closed, jobs, requestsFinished, requestsFailed>>
      BY <1>t, <1>3, <2>2, StartJobPlain DEF StartJob, queueVars
    <3> QED
      BY <2>2, <3>1, QueueStill, MovesStats
  <2> QED
    BY <1>t, <1>3, <2>1, <2>2, StartJobPlain
<1>4. CASE SessionFails(w) \/ FailureReported(w)
  <2>1. UNCHANGED <<status, busy, closed, jobs, requestsFinished, requestsFailed>>
    BY <1>4 DEF SessionFails, FailureReported, queueVars, statsVars, historyVars
  <2> QED
    BY <1>t, <1>4, <2>1, SessionPlain, LeavesPlain, QueueStill, MovesStats DEF FailureReported
<1>5. CASE \E r \in Linked : HandlerAdds(w, r)
  <2>1. PICK r \in Linked : HandlerAdds(w, r)
    BY <1>5
  <2>2. /\ UNCHANGED <<task, chain, busy, closed, jobs, requestsFinished, requestsFailed>>
        /\ status[r] = "absent" /\ status' = [status EXCEPT ![r] = "pending"]
    BY <2>1 DEF HandlerAdds, statsVars, historyVars
  <2>3. StaysClosed /\ \A v \in Tasks : SameBusy(v)
    <3>1. \A x \in Requests : status[x] # "absent" => status'[x] = status[x]
      BY <1>t, <2>2 DEF TasksTyped
    <3> QED
      BY <2>2, <3>1 DEF StaysClosed, SameBusy
  <2> QED
    BY <2>2, <2>3, MovesStats DEF Stays, SameJob, Else
<1>6. CASE HandlerReturns(w)
  <2>1. /\ UNCHANGED <<status, busy, closed, jobs, requestsFinished, requestsFailed>>
        /\ task[w].pc = "handling"
    BY <1>6 DEF HandlerReturns, queueVars, statsVars
  <2> QED
    BY <1>t, <1>6, <2>1, ReturnPlain, QueueStill, MovesStats
<1>7. CASE \E b \in BOOLEAN : HandlerThrows(w, b)
  <2>1. /\ UNCHANGED <<status, busy, closed, jobs, requestsFinished, requestsFailed>>
        /\ task[w].pc \in WithContext
    BY <1>7 DEF HandlerThrows, queueVars, statsVars, WithContext, Working
  <2> QED
    BY <1>t, <1>n, <1>7, <2>1, ThrowPlain, QueueStill, MovesStats
<1>8. CASE MarkReturns(w)
  <2>1. /\ Ends(w) /\ task[w].pc = "marking" /\ task[w].request # None
        /\ SourceMarks(w, task[w].request)
        /\ jobs' = jobs \ {Own(w)} /\ UNCHANGED requestsFailed
        /\ requestsFinished' = requestsFinished + (IF Own(w) \in jobs THEN 1 ELSE 0)
    BY <1>8 DEF MarkReturns, EndsJob, Own
  <2>2. Else(w) /\ Left(w)
    BY <1>t, <2>1, LeavesPlain
  <2>3. PICK r \in Requests : r = task[w].request
    BY <1>t, <2>1 DEF TasksTyped, TaskStates
  <2>4. Own(w) \in jobs
    BY <2>1 DEF StatsKept, JobKept, WithContext, Working
  <2>5. task[w].source = "queue" => r \in busy
    <3>1. task[w].source = "queue" => r \in Held(w)
      BY <1>t, <2>1, <2>3 DEF Places, TaskPlaced, Held, Working
    <3> QED
      BY <2>1, <3>1 DEF HeldBusy, HeldKept
  <2>6. requestsFinished' + requestsFailed'
            = requestsFinished + requestsFailed + (IF Own(w) \in jobs THEN 1 ELSE 0)
    BY <1>n, <2>1
  <2>7. /\ requestsFinished' + requestsFailed' = Cardinality(closed')
        /\ ClosedKept'
        /\ \A v \in Tasks : v # w => JobKept(v)'
    BY <2>1, <2>2, <2>3, <2>4, <2>5, <2>6, MarksClosed
  <2>8. JobKept(w)'
    BY <2>2 DEF Left, JobKept, WithContext, Working
  <2> QED
    BY <2>7, <2>8 DEF StatsKept
<1>9. CASE MarkThrows(w)
  <2>1. /\ UNCHANGED <<closed, jobs, requestsFinished, requestsFailed>>
        /\ task[w].pc \in WithContext
        /\ SourceThrows(w, task[w].request, "handled")
    BY <1>9 DEF MarkThrows, statsVars, WithContext, Working
  <2>2. StaysClosed /\ \A v \in Tasks : SameBusy(v)
    BY <1>t, <2>1, ThrowsStill
  <2> QED
    BY <1>t, <1>n, <1>9, <2>1, <2>2, MarkThrowPlain, MovesStats
<1>10. CASE ReclaimReturns(w)
  BY <1>10, ReclaimsStats
<1>11. CASE GiveUpReturns(w)
  <2>1. /\ task[w].pc = "givingUp" /\ SourceMarks(w, task[w].context)
        /\ task' = [task EXCEPT ![w].pc = "reporting"] /\ UNCHANGED chain
        /\ jobs' = jobs \ {Own(w)} /\ UNCHANGED requestsFinished
        /\ requestsFailed' = requestsFailed + (IF Own(w) \in jobs THEN 1 ELSE 0)
    BY <1>11 DEF GiveUpReturns, EndsJob, Own
  <2>2. Else(w) /\ Turns(w, "reporting")
    BY <1>t, <2>1, PcPlain
  <2>c. task[w].pc \in WithContext
    BY <2>1 DEF WithContext, Working
  <2>3. PICK r \in Requests : r = task[w].context
    BY <2>c, ContextIsRequest
  <2>k. JobKept(w) /\ ClosedKept
    BY DEF StatsKept
  <2>4. task[w].source = "queue" => (r \in busy <=> Own(w) \in jobs)
    BY <2>c, <2>3, <2>k DEF JobKept
  <2>5. task[w].source = "list" => Own(w) \in jobs
    <3>1. ASSUME task[w].source = "list"
          PROVE  <<"list", r>> \notin closed
      <4>1. r \in listInProgress
        BY <2>1, <2>3, <3>1 DEF SourceMarks, MarkInList, IsProcessed
      <4> QED
        BY <2>k, <4>1 DEF ClosedKept
    <3> QED
      BY <2>c, <2>3, <2>k, <3>1 DEF JobKept
  <2>6. requestsFinished' + requestsFailed'
            = requestsFinished + requestsFailed + (IF Own(w) \in jobs THEN 1 ELSE 0)
    BY <1>n, <2>1
  <2>7. /\ requestsFinished' + requestsFailed' = Cardinality(closed')
        /\ ClosedKept'
        /\ \A v \in Tasks : v # w => JobKept(v)'
    BY <2>1, <2>2, <2>3, <2>4, <2>5, <2>6, MarksClosed
  <2>8. JobKept(w)'
    <3>1. /\ Own(w)' = Own(w) /\ task'[w].context = r /\ task'[w].source = task[w].source
          /\ task'[w].pc = "reporting"
      BY <2>2, <2>3 DEF Turns, SameJob, Own, Job
    <3>2. Own(w)' \notin jobs'
      BY <2>1, <3>1
    <3>3. task[w].source = "queue" => r \notin busy'
      BY <2>1, <2>3 DEF SourceMarks
    <3>4. task[w].source = "list" => <<"list", r>> \in closed'
      BY <2>1, <2>3 DEF SourceMarks
    <3> QED
      BY <3>1, <3>2, <3>3, <3>4 DEF JobKept
  <2> QED
    BY <2>7, <2>8 DEF StatsKept
<1>12. CASE SourceFailsError(w)
  <2>1. /\ UNCHANGED <<closed, jobs, requestsFinished, requestsFailed>>
        /\ task[w].pc \in WithContext
        /\ ErrorHandlerThrows(w)
        /\ \E r, new : SourceThrows(w, r, new)
    BY <1>12 DEF SourceFailsError, statsVars, WithContext, Working
  <2>2. StaysClosed /\ \A v \in Tasks : SameBusy(v)
    BY <1>t, <2>1, ThrowsStill
  <2> QED
    BY <1>t, <1>n, <2>1, <2>2, ErrorAgain, MovesStats
<1>13. CASE ReportFails(w)
  <2>1. /\ UNCHANGED <<status, busy, closed, jobs, requestsFinished, requestsFailed>>
        /\ task[w].pc \in WithContext
        /\ ErrorHandlerThrows(w)
    BY <1>13 DEF ReportFails, queueVars, statsVars, WithContext, Working
  <2> QED
    BY <1>t, <1>n, <2>1, QueueStill, ErrorAgain, MovesStats
<1> QED
  BY <1>1, <1>3, <1>4, <1>5, <1>6, <1>7, <1>8, <1>9, <1>10, <1>11, <1>12, <1>13 DEF TaskSteps

(* A new process has no job.                                               *)
LEMMA FreshStats ==
    ASSUME Fresh, closed = {}, requestsFinished = 0, requestsFailed = 0
    PROVE  StatsKept
<1>1. \A w \in Tasks : JobKept(w)
  BY NoTasks DEF JobKept, WithContext, Working
<1> QED
  BY <1>1, FS_EmptySet DEF StatsKept, ClosedKept

(* Without jobs and marks the statistics are right.                        *)
LEMMA BeginsStats == Fresh /\ closed = {} /\ requestsFinished = 0 /\ requestsFailed = 0 => StatsKept
BY FreshStats

(* Every step keeps the statistics.                                        *)
LEMMA StepStats ==
    ASSUME TasksInv, HeldBusy, ListOnce, StatsKept, [Next]_vars
    PROVE  StatsKept'
<1>1. CASE Restart
  <2>1. (Fresh /\ closed = {} /\ requestsFinished = 0 /\ requestsFailed = 0)'
    BY <1>1 DEF Restart, Fresh
  <2> QED
    BY <2>1, BeginsStats, PTL
<1>2. CASE ~Restart /\ (PoolSteps \/ (\E p \in Savers : Persists(p)) \/ UNCHANGED vars)
  <2>1. UNCHANGED <<task, status, closed, jobs, requestsFinished, requestsFailed>>
    BY <1>2 DEF PoolSteps, AskReady, NotReady, FinishAnswered, QueryFails, PauseOnMigration,
                Persists, vars, queueVars, statsVars, historyVars
  <2>2. UNCHANGED busy \/ (busy' = {} /\ Running = {})
    BY <1>2 DEF PoolSteps, AskReady, NotReady, ResetsQueue, FinishAnswered, QueryFails,
                PauseOnMigration, Persists, vars, queueVars
  <2>3. StaysClosed /\ \A v \in Tasks : SameBusy(v)
    BY <2>1, <2>2 DEF StaysClosed, SameBusy, Running, WithContext, Working
  <2>4. ClosedKept'
    BY <1>2, <2>1, <2>3, ClosedStays DEF StatsKept
  <2>5. ASSUME NEW v \in Tasks
        PROVE  JobKept(v)'
    BY <2>1, <2>3, JobElse DEF StatsKept
  <2> QED
    BY <2>1, <2>4, <2>5 DEF StatsKept
<1>3. CASE ~Restart /\ \E w \in Tasks : TaskSteps(w) \/ \E c \in Calls : FetchSteps(w, c)
  BY <1>3, TaskStats, FetchStats
<1> QED
  BY <1>1, <1>2, <1>3 DEF Next

(* The statistics count every request that a task closed once: a request   *)
(* that two tasks were given, or that a task marks again after a failure,  *)
(* is not counted twice, whatever its mark's answer was.                   *)
THEOREM StatsMatchHolds == CrawlerSpec => []StatsMatch
<1>1. CrawlerInit => StatsKept
  BY InitFresh, BeginsStats DEF CrawlerInit
<1>2. TasksInv /\ HeldBusy /\ ListOnce /\ StatsKept /\ [Next]_vars => StatsKept'
  BY StepStats
<1>3. StatsKept => StatsMatch
  BY DEF StatsKept, StatsMatch
<1> QED
  BY <1>1, <1>2, <1>3, TasksInvHolds, HeldBusyHolds, ListOnceHolds, PTL DEF CrawlerSpec

-----------------------------------------------------------------------------
(* The limit of requests: the tasks that are open may each finish or fail  *)
(* one request more, and so may the one that the pool is asking for.       *)
OpenTask(w) ==
    \/ task[w].pc \in {"fetching", "fetched"}
    \/ task[w].pc \in WithContext /\ Own(w) \in jobs

(* The tasks that may still finish a request.                              *)
OpenTasks == {w \in Tasks : OpenTask(w)}

(* Its request was counted as handled already, and not yet as failed.      *)
GivesUp(w) == task[w].pc = "givingUp" /\ Own(w) \in jobs

(* The tasks that are about to count a failure.                            *)
GivingUp == {w \in Tasks : GivesUp(w)}

(* One task more may start when the pool is told so.                       *)
Asking == IF ask = "asking" THEN 1 ELSE 0

(* What is counted, and what may still be, against the limit.              *)
LimitInv ==
    /\ requestsFinished + requestsFailed + Cardinality(GivingUp) <= handledRequestsCount
    /\ maxRequestsPerCrawl > 0 =>
          requestsFinished + requestsFailed + Cardinality(OpenTasks) + Asking
              < maxRequestsPerCrawl + Cardinality(Tasks)

(* The numbers of tasks are numbers.                                       *)
LEMMA TasksSize ==
    ASSUME NEW S, S \subseteq Tasks
    PROVE  /\ IsFiniteSet(S) /\ Cardinality(S) \in Nat /\ Cardinality(Tasks) \in Nat
           /\ Cardinality(S) <= Cardinality(Tasks)
           /\ S # Tasks => Cardinality(S) + 1 <= Cardinality(Tasks)
           /\ \A w \in Tasks : /\ w \notin S => Cardinality(S \cup {w}) = Cardinality(S) + 1
                               /\ w \in S => Cardinality(S \ {w}) + 1 = Cardinality(S)
           /\ \A T : T \subseteq S => Cardinality(T) <= Cardinality(S) /\ Cardinality(T) \in Nat
<1>1. IsFiniteSet(Tasks)
  BY CrawlerAssumption
<1>2. IsFiniteSet(S) /\ Cardinality(S) \in Nat /\ Cardinality(Tasks) \in Nat
      /\ Cardinality(S) <= Cardinality(Tasks)
  BY <1>1, FS_Subset, FS_CardinalityType
<1>3. S # Tasks => Cardinality(S) + 1 <= Cardinality(Tasks)
  <2>1. Cardinality(S) = Cardinality(Tasks) => S = Tasks
    BY <1>1, FS_Subset
  <2> QED
    BY <1>2, <2>1
<1>4. ASSUME NEW w \in Tasks
      PROVE  /\ w \notin S => Cardinality(S \cup {w}) = Cardinality(S) + 1
             /\ w \in S => Cardinality(S \ {w}) + 1 = Cardinality(S)
  <2>1. w \notin S => Cardinality(S \cup {w}) = Cardinality(S) + 1
    BY <1>2, FS_AddElement
  <2>2. w \in S => Cardinality(S \ {w}) = Cardinality(S) - 1
    BY <1>2, FS_RemoveElement
  <2> QED
    BY <1>2, <2>1, <2>2
<1>5. \A T : T \subseteq S => Cardinality(T) <= Cardinality(S) /\ Cardinality(T) \in Nat
  BY <1>2, FS_Subset, FS_CardinalityType
<1> QED
  BY <1>2, <1>3, <1>4, <1>5

(* The numbers of the limit, with which the rest is arithmetic.            *)
LEMMA LimitTyped ==
    ASSUME CountsTyped
    PROVE  /\ requestsFinished \in Nat /\ requestsFailed \in Nat
           /\ handledRequestsCount \in Nat /\ maxRequestsPerCrawl \in Nat
           /\ Cardinality(OpenTasks) \in Nat /\ Cardinality(GivingUp) \in Nat
           /\ Cardinality(Tasks) \in Nat
           /\ Asking \in {0, 1}
<1>1. OpenTasks \subseteq Tasks /\ GivingUp \subseteq Tasks
  BY DEF OpenTasks, GivingUp
<1> QED
  BY <1>1, TasksSize DEF CountsTyped, Asking

(* Nobody opens; at most one gives up that is counted as handled.          *)
LEMMA LimitLess ==
    ASSUME CountsTyped, LimitInv,
           UNCHANGED <<maxRequestsPerCrawl, requestsFinished, requestsFailed>>,
           ask' \in {"none", ask}, OpenTasks' \subseteq OpenTasks,
           \/ GivingUp' \subseteq GivingUp /\ UNCHANGED handledRequestsCount
           \/ /\ \E w \in Tasks : GivingUp' \subseteq GivingUp \cup {w}
              /\ handledRequestsCount' = handledRequestsCount + 1
    PROVE  LimitInv'
<1>1. /\ Cardinality(OpenTasks') <= Cardinality(OpenTasks)
      /\ Cardinality(OpenTasks') \in Nat
  <2>1. OpenTasks \subseteq Tasks
    BY DEF OpenTasks
  <2> QED
    BY <2>1, TasksSize
<1>2. /\ Cardinality(GivingUp') \in Nat
      /\ \/ /\ UNCHANGED handledRequestsCount
            /\ Cardinality(GivingUp') <= Cardinality(GivingUp)
         \/ /\ handledRequestsCount' = handledRequestsCount + 1
            /\ Cardinality(GivingUp') <= Cardinality(GivingUp) + 1
  <2>1. GivingUp \subseteq Tasks
    BY DEF GivingUp
  <2>2. CASE GivingUp' \subseteq GivingUp /\ UNCHANGED handledRequestsCount
    BY <2>1, <2>2, TasksSize
  <2>3. ASSUME NEW w \in Tasks, GivingUp' \subseteq GivingUp \cup {w},
               handledRequestsCount' = handledRequestsCount + 1
        PROVE  Cardinality(GivingUp') \in Nat
               /\ Cardinality(GivingUp') <= Cardinality(GivingUp) + 1
    <3>1. /\ Cardinality(GivingUp \cup {w}) <= Cardinality(GivingUp) + 1
          /\ Cardinality(GivingUp \cup {w}) \in Nat /\ Cardinality(GivingUp) \in Nat
      <4>1. GivingUp \cup {w} \subseteq Tasks
        BY <2>1
      <4>2. Cardinality(GivingUp \cup {w}) \in Nat /\ Cardinality(GivingUp) \in Nat
        BY <2>1, <4>1, TasksSize
      <4>3. CASE w \in GivingUp
        <5>1. Cardinality(GivingUp \cup {w}) = Cardinality(GivingUp)
          <6>1. GivingUp \cup {w} = GivingUp
            BY <4>3
          <6> QED
            BY <6>1
        <5> QED
          BY <4>2, <5>1
      <4>4. CASE w \notin GivingUp
        <5>1. Cardinality(GivingUp \cup {w}) = Cardinality(GivingUp) + 1
          BY <2>1, <4>4, TasksSize
        <5> QED
          BY <4>2, <5>1
      <4> QED
        BY <4>3, <4>4
    <3>2. /\ Cardinality(GivingUp') <= Cardinality(GivingUp \cup {w})
          /\ Cardinality(GivingUp') \in Nat
      <4>1. GivingUp \cup {w} \subseteq Tasks
        BY <2>1
      <4> QED
        BY <2>3, <4>1, TasksSize
    <3> QED
      BY <3>1, <3>2
  <2> QED
    BY <2>2, <2>3
<1>3. Asking' <= Asking /\ Asking' \in {0, 1}
  BY DEF Asking
<1>4. /\ Cardinality(GivingUp)' = Cardinality(GivingUp')
      /\ Cardinality(OpenTasks)' = Cardinality(OpenTasks')
  OBVIOUS
<1>5. /\ requestsFinished' + requestsFailed' + Cardinality(GivingUp') <= handledRequestsCount'
      /\ maxRequestsPerCrawl' > 0 =>
            requestsFinished' + requestsFailed' + Cardinality(OpenTasks') + Asking'
                < maxRequestsPerCrawl' + Cardinality(Tasks)
  <2> HIDE DEF OpenTasks, GivingUp, Asking
  <2> QED
    BY <1>1, <1>2, <1>3, LimitTyped DEF LimitInv
<1> QED
  BY <1>5 DEF LimitInv

(* The other tasks are as open as before while the jobs stay.              *)
LEMMA OpenElse ==
    ASSUME NEW w \in Tasks, Else(w), NEW v \in Tasks, v # w,
           task[v].pc \in WithContext => (Own(v) \in jobs' <=> Own(v) \in jobs)
    PROVE  (OpenTask(v)' <=> OpenTask(v)) /\ (GivesUp(v)' <=> GivesUp(v))
<1>1. task'[v] = task[v]
  BY DEF Else
<1>2. Own(v)' = Own(v)
  BY <1>1 DEF Own, Job
<1> QED
  BY <1>1, <1>2 DEF OpenTask, GivesUp, WithContext, Working

(* Steps that count nothing and open nothing keep it.                      *)
LEMMA LimitQuiet ==
    ASSUME CountsTyped, LimitInv, NEW w \in Tasks, Else(w),
           UNCHANGED <<maxRequestsPerCrawl, requestsFinished, requestsFailed, jobs>>,
           ask' \in {"none", ask}, OpenTask(w)' => OpenTask(w),
           \/ (GivesUp(w)' => GivesUp(w)) /\ UNCHANGED handledRequestsCount
           \/ handledRequestsCount' = handledRequestsCount + 1
    PROVE  LimitInv'
<1>1. \A v \in Tasks : v # w => (OpenTask(v)' <=> OpenTask(v)) /\ (GivesUp(v)' <=> GivesUp(v))
  BY OpenElse
<1>2. OpenTasks' \subseteq OpenTasks
  BY <1>1 DEF OpenTasks
<1>3. /\ GivingUp' \subseteq GivingUp \cup {w}
      /\ (GivesUp(w)' => GivesUp(w)) => GivingUp' \subseteq GivingUp
  BY <1>1 DEF GivingUp
<1> QED
  BY <1>2, <1>3, LimitLess

(* So do steps that open no task.                                          *)
LEMMA LimitMoves ==
    ASSUME CountsTyped, LimitInv, NEW w \in Tasks, Else(w),
           UNCHANGED <<maxRequestsPerCrawl, requestsFinished, requestsFailed, jobs>>,
           ask' \in {"none", ask},
           \/ /\ UNCHANGED handledRequestsCount
              /\ \/ Left(w) \/ Died(w)
                 \/ Stays(w)
                 \/ Turns(w, "marking") /\ task[w].pc = "handling"
           \/ Erred(w) /\ task[w].pc \in WithContext
    PROVE  LimitInv'
<1>1. SameJob(w) => Own(w)' = Own(w)
  BY DEF SameJob, Own, Job
<1>2. CASE UNCHANGED handledRequestsCount /\ (Left(w) \/ Died(w))
  <2>1. task'[w].pc \in {"idle", "failed"}
    BY <1>2 DEF Left, Died
  <2>2. ~OpenTask(w)' /\ ~GivesUp(w)'
    BY <2>1 DEF OpenTask, GivesUp, WithContext, Working
  <2> QED
    BY <1>2, <2>2, LimitQuiet
<1>3. CASE UNCHANGED handledRequestsCount /\ Stays(w)
  <2>1. task'[w].pc = task[w].pc /\ Own(w)' = Own(w)
    BY <1>1, <1>3 DEF Stays
  <2>2. (OpenTask(w)' => OpenTask(w)) /\ (GivesUp(w)' => GivesUp(w))
    BY <2>1 DEF OpenTask, GivesUp
  <2> QED
    BY <1>3, <2>2, LimitQuiet
<1>4. CASE UNCHANGED handledRequestsCount /\ Turns(w, "marking") /\ task[w].pc = "handling"
  <2>1. task'[w].pc = "marking" /\ Own(w)' = Own(w)
    BY <1>1, <1>4 DEF Turns
  <2>2. (OpenTask(w)' => OpenTask(w)) /\ ~GivesUp(w)'
    BY <1>4, <2>1 DEF OpenTask, GivesUp, WithContext, Working
  <2> QED
    BY <1>4, <2>2, LimitQuiet
<1>5. CASE Erred(w) /\ task[w].pc \in WithContext
  <2>1. /\ Own(w)' = Own(w)
        /\ \/ task'[w].pc = "reclaiming" /\ UNCHANGED handledRequestsCount
           \/ task'[w].pc = "givingUp" /\ handledRequestsCount' = handledRequestsCount + 1
    BY <1>1, <1>5 DEF Erred
  <2>2. OpenTask(w)' => OpenTask(w)
    BY <1>5, <2>1 DEF OpenTask, WithContext, Working
  <2>3. \/ (GivesUp(w)' => GivesUp(w)) /\ UNCHANGED handledRequestsCount
        \/ handledRequestsCount' = handledRequestsCount + 1
    BY <2>1 DEF GivesUp
  <2> QED
    BY <2>2, <2>3, LimitQuiet
<1> QED
  BY <1>2, <1>3, <1>4, <1>5

(* A job that is done leaves the open ones, and is counted.                *)
LEMMA LimitDone ==
    ASSUME TasksInv, HeldBusy, ListOnce, CountsTyped', LimitInv, NEW w \in Tasks, Else(w),
           jobs' = jobs \ {Own(w)}, UNCHANGED <<maxRequestsPerCrawl, ask>>,
           task'[w].pc \in {"idle", "reporting"}, Own(w)' \in jobs' => task'[w].pc = "idle",
           \/ task[w].pc = "marking" /\ handledRequestsCount' = handledRequestsCount + 1
           \/ task[w].pc = "givingUp" /\ UNCHANGED handledRequestsCount,
           IF Own(w) \in jobs
           THEN requestsFinished' + requestsFailed' = requestsFinished + requestsFailed + 1
           ELSE UNCHANGED <<requestsFinished, requestsFailed>>
    PROVE  LimitInv'
<1>t. CountsTyped
  BY DEF TasksInv
<1>w. task[w].pc \in WithContext
  BY DEF WithContext, Working
<1>1. ~OpenTask(w)' /\ ~GivesUp(w)'
  BY DEF OpenTask, GivesUp, WithContext, Working
<1>2. ASSUME NEW v \in Tasks, v # w
      PROVE  (OpenTask(v)' <=> OpenTask(v)) /\ (GivesUp(v)' <=> GivesUp(v))
  <2>1. task[v].pc \in WithContext => (Own(v) \in jobs' <=> Own(v) \in jobs)
    BY <1>w, <1>2, OwnsApart
  <2> QED
    BY <1>2, <2>1, OpenElse
<1>3. OpenTasks' = OpenTasks \ {w} /\ GivingUp' = GivingUp \ {w}
  BY <1>1, <1>2 DEF OpenTasks, GivingUp
<1>4. CASE Own(w) \notin jobs
  BY <1>t, <1>3, <1>4, LimitLess
<1>5. CASE Own(w) \in jobs
  <2>1. w \in OpenTasks /\ (w \in GivingUp <=> task[w].pc = "givingUp")
    BY <1>w, <1>5 DEF OpenTasks, OpenTask, GivingUp, GivesUp
  <2>2. Cardinality(OpenTasks') + 1 = Cardinality(OpenTasks) /\ Cardinality(OpenTasks') \in Nat
    <3>1. OpenTasks \subseteq Tasks
      BY DEF OpenTasks
    <3>2. Cardinality(OpenTasks \ {w}) + 1 = Cardinality(OpenTasks)
      BY <2>1, <3>1, TasksSize
    <3>3. Cardinality(OpenTasks \ {w}) \in Nat
      BY <3>1, TasksSize
    <3> QED
      BY <1>3, <3>2, <3>3
  <2>3. /\ Cardinality(GivingUp') \in Nat
        /\ task[w].pc = "marking" => Cardinality(GivingUp') = Cardinality(GivingUp)
        /\ task[w].pc = "givingUp" => Cardinality(GivingUp') + 1 = Cardinality(GivingUp)
    <3>1. GivingUp \subseteq Tasks
      BY DEF GivingUp
    <3>2. w \in GivingUp => Cardinality(GivingUp \ {w}) + 1 = Cardinality(GivingUp)
      BY <3>1, TasksSize
    <3>3. Cardinality(GivingUp \ {w}) \in Nat
      BY <3>1, TasksSize
    <3>4. w \notin GivingUp => Cardinality(GivingUp \ {w}) = Cardinality(GivingUp)
      <4>1. w \notin GivingUp => GivingUp \ {w} = GivingUp
        OBVIOUS
      <4> QED
        BY <4>1
    <3> QED
      BY <1>3, <2>1, <3>2, <3>3, <3>4
  <2>4. requestsFinished' + requestsFailed' = requestsFinished + requestsFailed + 1
    BY <1>5
  <2>5. Asking' = Asking
    BY DEF Asking
  <2>6. requestsFinished' \in Nat /\ requestsFailed' \in Nat /\ handledRequestsCount' \in Nat
    BY DEF CountsTyped
  <2>7. /\ requestsFinished' + requestsFailed' + Cardinality(GivingUp') <= handledRequestsCount'
        /\ maxRequestsPerCrawl' > 0 =>
              requestsFinished' + requestsFailed' + Cardinality(OpenTasks') + Asking'
                  < maxRequestsPerCrawl' + Cardinality(Tasks)
    <3> HIDE DEF OpenTasks, GivingUp, Asking
    <3>n. /\ requestsFinished \in Nat /\ requestsFailed \in Nat
          /\ handledRequestsCount \in Nat /\ maxRequestsPerCrawl \in Nat
          /\ Cardinality(OpenTasks) \in Nat /\ Cardinality(GivingUp) \in Nat
          /\ Cardinality(Tasks) \in Nat /\ Asking \in {0, 1}
      BY <1>t, LimitTyped
    <3>1. /\ requestsFinished + requestsFailed + Cardinality(GivingUp) <= handledRequestsCount
          /\ maxRequestsPerCrawl > 0 =>
                requestsFinished + requestsFailed + Cardinality(OpenTasks) + Asking
                    < maxRequestsPerCrawl + Cardinality(Tasks)
      BY DEF LimitInv
    <3>2. \/ /\ handledRequestsCount' = handledRequestsCount + 1
             /\ Cardinality(GivingUp') = Cardinality(GivingUp)
          \/ /\ handledRequestsCount' = handledRequestsCount
             /\ Cardinality(GivingUp') + 1 = Cardinality(GivingUp)
      BY <2>3
    <3>3. /\ requestsFinished' + requestsFailed' + Cardinality(GivingUp') <= handledRequestsCount'
          /\ maxRequestsPerCrawl > 0 =>
                requestsFinished' + requestsFailed' + Cardinality(OpenTasks') + Asking
                    < maxRequestsPerCrawl + Cardinality(Tasks)
      <4>1. Cardinality(GivingUp') \in Nat /\ Cardinality(OpenTasks') \in Nat
        BY <2>2, <2>3
      <4>2. PICK f2 \in Nat, e2 \in Nat, h2 \in Nat, g2 \in Nat, o2 \in Nat :
                /\ f2 = requestsFinished' /\ e2 = requestsFailed' /\ h2 = handledRequestsCount'
                /\ g2 = Cardinality(GivingUp') /\ o2 = Cardinality(OpenTasks')
        BY <2>6, <4>1
      <4>3. PICK f \in Nat, e \in Nat, h \in Nat, g \in Nat, o \in Nat :
                /\ f = requestsFinished /\ e = requestsFailed /\ h = handledRequestsCount
                /\ g = Cardinality(GivingUp) /\ o = Cardinality(OpenTasks)
        BY <3>n
      <4>4. PICK m \in Nat, n \in Nat, a \in {0, 1} :
                m = maxRequestsPerCrawl /\ n = Cardinality(Tasks) /\ a = Asking
        BY <3>n
      <4>5. /\ f + e + g <= h
            /\ m > 0 => f + e + o + a < m + n
            /\ f2 + e2 = f + e + 1
            /\ o2 + 1 = o
            /\ (h2 = h + 1 /\ g2 = g) \/ (h2 = h /\ g2 + 1 = g)
        BY <2>2, <2>4, <3>1, <3>2, <4>2, <4>3, <4>4
      <4>6. f2 + e2 + g2 <= h2 /\ (m > 0 => f2 + e2 + o2 + a < m + n)
        BY <4>5
      <4> QED
        BY <4>2, <4>3, <4>4, <4>6
    <3> QED
      BY <2>5, <3>3
  <2> QED
    BY <2>7 DEF LimitInv
<1> QED
  BY <1>4, <1>5

(* The pool asks below the limit, and while there is a task to start.      *)
LEMMA LimitAsks ==
    ASSUME TasksInv, LimitInv, AskReady
    PROVE  LimitInv'
<1>t. CountsTyped
  BY DEF TasksInv
<1>1. /\ Running # Tasks /\ ask' = IF MaxPagesExceeded THEN "limit" ELSE "asking"
      /\ UNCHANGED <<maxRequestsPerCrawl, handledRequestsCount, requestsFinished,
                     requestsFailed, task, jobs>>
  BY DEF AskReady, setupVars, optionVars, statsVars
<1>2. OpenTasks' = OpenTasks /\ GivingUp' = GivingUp
  BY <1>1 DEF OpenTasks, OpenTask, GivingUp, GivesUp, Own, Job
<1>3. Cardinality(OpenTasks) + 1 <= Cardinality(Tasks)
  <2>1. OpenTasks \subseteq Tasks /\ OpenTasks # Tasks
    BY <1>1 DEF OpenTasks, OpenTask, Running, WithContext, Working
  <2> QED
    BY <2>1, TasksSize
<1>n. /\ requestsFinished \in Nat /\ requestsFailed \in Nat
      /\ handledRequestsCount \in Nat /\ maxRequestsPerCrawl \in Nat
      /\ Cardinality(OpenTasks) \in Nat /\ Cardinality(GivingUp) \in Nat
      /\ Cardinality(Tasks) \in Nat
  BY <1>t, LimitTyped
<1>a. /\ Asking' \in {0, 1} /\ Asking \in {0, 1}
      /\ MaxPagesExceeded => Asking' = 0
      /\ ~MaxPagesExceeded /\ maxRequestsPerCrawl > 0 => handledRequestsCount < maxRequestsPerCrawl
  <2>1. ~MaxPagesExceeded /\ maxRequestsPerCrawl > 0 => handledRequestsCount < maxRequestsPerCrawl
    BY <1>n DEF MaxPagesExceeded
  <2> QED
    BY <1>1, <2>1 DEF Asking
<1>4. /\ requestsFinished + requestsFailed + Cardinality(GivingUp) <= handledRequestsCount
      /\ maxRequestsPerCrawl > 0 =>
            requestsFinished + requestsFailed + Cardinality(OpenTasks) + Asking'
                < maxRequestsPerCrawl + Cardinality(Tasks)
  <2> HIDE DEF OpenTasks, GivingUp, Asking
  <2>1. requestsFinished + requestsFailed <= handledRequestsCount
    BY <1>n DEF LimitInv
  <2>2. CASE MaxPagesExceeded
    BY <1>n, <1>a, <2>2 DEF LimitInv
  <2>3. CASE ~MaxPagesExceeded
    BY <1>n, <1>a, <1>3, <2>1, <2>3 DEF LimitInv
  <2> QED
    BY <2>2, <2>3
<1> QED
  BY <1>1, <1>2, <1>4 DEF LimitInv

(* The task that starts is the one that the pool asked for.                *)
LEMMA LimitStarts ==
    ASSUME TasksInv, LimitInv, NEW w \in Tasks, StartTask(w)
    PROVE  LimitInv'
<1>t. CountsTyped /\ TasksTyped
  BY DEF TasksInv, CrawlerInv
<1>1. /\ ask = "asking" /\ ask' = "none" /\ Else(w) /\ Began(w)
      /\ UNCHANGED <<maxRequestsPerCrawl, handledRequestsCount, requestsFinished,
                     requestsFailed, jobs>>
  BY <1>t, StartPlain DEF StartTask, setupVars, optionVars, statsVars
<1>2. \A v \in Tasks : v # w => (OpenTask(v)' <=> OpenTask(v)) /\ (GivesUp(v)' <=> GivesUp(v))
  BY <1>1, OpenElse
<1>3. ~OpenTask(w) /\ OpenTask(w)' /\ ~GivesUp(w) /\ ~GivesUp(w)'
  BY <1>1 DEF Began, OpenTask, GivesUp, WithContext, Working
<1>4. OpenTasks' = OpenTasks \cup {w} /\ w \notin OpenTasks /\ GivingUp' = GivingUp
  BY <1>2, <1>3 DEF OpenTasks, GivingUp
<1>5. Cardinality(OpenTasks') = Cardinality(OpenTasks) + 1
  <2>1. OpenTasks \subseteq Tasks
    BY DEF OpenTasks
  <2>2. Cardinality(OpenTasks \cup {w}) = Cardinality(OpenTasks) + 1
    BY <1>4, <2>1, TasksSize
  <2> QED
    BY <1>4, <2>2
<1>6. Asking = 1 /\ Asking' = 0
  BY <1>1 DEF Asking
<1>n. /\ requestsFinished \in Nat /\ requestsFailed \in Nat
      /\ handledRequestsCount \in Nat /\ maxRequestsPerCrawl \in Nat
      /\ Cardinality(OpenTasks) \in Nat /\ Cardinality(GivingUp) \in Nat
      /\ Cardinality(Tasks) \in Nat
  BY <1>t, LimitTyped
<1>7. maxRequestsPerCrawl > 0 =>
          requestsFinished + requestsFailed + Cardinality(OpenTasks') + Asking'
              < maxRequestsPerCrawl + Cardinality(Tasks)
  <2> HIDE DEF OpenTasks, GivingUp, Asking
  <2> QED
    BY <1>5, <1>6, <1>n DEF LimitInv
<1> QED
  BY <1>1, <1>4, <1>7 DEF LimitInv

(* A step of a call keeps it.                                              *)
LEMMA FetchLimit ==
    ASSUME TasksInv, LimitInv, NEW w \in Tasks, NEW c \in Calls, FetchSteps(w, c)
    PROVE  LimitInv'
<1>t. TasksTyped /\ CountsTyped /\ Kept /\ Places
  BY DEF TasksInv, CrawlerInv
<1>u. UNCHANGED <<maxRequestsPerCrawl, requestsFinished, requestsFailed, jobs, ask,
                  handledRequestsCount>>
  BY DEF FetchSteps, ListAnswered, AddReaches, AddReturns, AddFails, TakeNothing, Take, FetchFails,
         setupVars, optionVars, statsVars, poolVars
<1>c. chain[w][c] \in ChainStates /\ chain[w][c].item \in Requests \cup {None}
  BY <1>t DEF TasksTyped, ChainStates
<1>1. ASSUME Else(w), OpenTask(w)' => OpenTask(w), GivesUp(w)' => GivesUp(w)
      PROVE  LimitInv'
  BY <1>t, <1>u, <1>1, LimitQuiet
<1>2. ASSUME Else(w), task'[w] = task[w]
      PROVE  LimitInv'
  <2>1. Own(w)' = Own(w)
    BY <1>2 DEF Own, Job
  <2> QED
    BY <1>1, <1>2, <1>u, <2>1 DEF OpenTask, GivesUp
<1>3. ASSUME NEW r \in Requests \cup {None}, Returns(w, c, r), chain[w][c].pc # "none"
      PROVE  LimitInv'
  <2>1. Else(w) /\ Gave(w, c, r)
    BY <1>t, <1>3, ReturnsPlain
  <2>2. CASE c = "main"
    <3>1. task[w].pc = "fetching" /\ task'[w].pc = "fetched"
      BY <1>t, <1>3, <2>1, <2>2 DEF Places, CallsPlaced, Gave
    <3> QED
      BY <1>1, <2>1, <3>1 DEF OpenTask, GivesUp
  <2>3. CASE c = "late"
    <3>1. /\ task'[w].pc = task[w].pc /\ task'[w].context = task[w].context
          /\ task'[w].fromList = task[w].fromList
      BY <2>1, <2>3 DEF Gave
    <3>2. Own(w)' = Own(w)
      BY <3>1 DEF Own, Job
    <3> QED
      BY <1>1, <1>u, <2>1, <3>1, <3>2 DEF OpenTask, GivesUp
  <2> QED
    BY <2>2, <2>3 DEF Calls
<1>4. ASSUME NEW place, Goes(w, c, place)
      PROVE  LimitInv'
  BY <1>t, <1>2, <1>4, GoesPlain DEF Went
<1>5. CASE FetchFails(w, c)
  <2>1. Else(w)
    BY <1>t, <1>5, FailsPlain
  <2>2. CASE c = "main" /\ Again(w, chain[w]["late"])
    <3>1. task[w].pc = "fetching"
      BY <1>5, <1>t, <2>2 DEF FetchFails, Places, CallsPlaced
    <3>2. task'[w].pc \in {"fetching", "failed"}
      BY <2>2, <3>1 DEF Again, Stays
    <3> QED
      BY <1>1, <2>1, <3>1, <3>2 DEF OpenTask, GivesUp, WithContext, Working
  <2>3. CASE UNCHANGED task
    BY <1>2, <2>1, <2>3
  <2> QED
    BY <1>t, <1>5, <2>2, <2>3, FailsPlain
<1> QED
  BY <1>c, <1>2, <1>3, <1>4, <1>5 DEF FetchSteps, ListAnswered, AddReaches, AddReturns, AddFails,
                            TakeNothing, Take

(* A step of a task keeps it.                                              *)
LEMMA TaskLimit ==
    ASSUME TasksInv, TasksInv', HeldBusy, ListOnce, StatsKept, LimitInv, NEW w \in Tasks,
           TaskSteps(w)
    PROVE  LimitInv'
<1>t. TasksTyped /\ CountsTyped /\ CountsTyped' /\ Places
  BY DEF TasksInv, CrawlerInv
<1>n. /\ handledRequestsCount \in Nat /\ requestsFinished \in Nat /\ requestsFailed \in Nat
  BY <1>t DEF CountsTyped
<1>1. CASE StartTask(w)
  BY <1>1, LimitStarts
<1>2. CASE FetchTimesOut(w)
  <2>1. UNCHANGED <<maxRequestsPerCrawl, requestsFinished, requestsFailed, jobs, ask,
                    handledRequestsCount>>
    BY <1>2 DEF FetchTimesOut, setupVars, optionVars, statsVars
  <2>2. task[w].pc = "fetching" /\ Else(w) /\ Again(w, chain[w]["main"])
    BY <1>t, <1>2, TimesOutPlain DEF FetchTimesOut, Places, CallsPlaced
  <2>3. task'[w].pc \in {"fetching", "failed"}
    BY <2>2 DEF Again, Stays
  <2>4. (OpenTask(w)' => OpenTask(w)) /\ (GivesUp(w)' => GivesUp(w))
    BY <2>2, <2>3 DEF OpenTask, GivesUp, WithContext, Working
  <2> QED
    BY <1>t, <2>1, <2>2, <2>4, LimitQuiet
<1>3. CASE StartJob(w)
  <2>1. /\ UNCHANGED <<maxRequestsPerCrawl, requestsFinished, requestsFailed, ask,
                       handledRequestsCount>>
        /\ task[w].pc = "fetched" /\ Else(w)
    BY <1>t, <1>3, StartJobPlain DEF StartJob, setupVars, optionVars, poolVars
  <2>2. CASE Handles(w)
    <3>1. PICK r \in Requests : r = task[w].request
      BY <2>2 DEF Handles
    <3>2. jobs' = jobs \cup {Job(task[w], r)} /\ task'[w].pc = "handling"
      BY <2>2, <3>1 DEF Handles
    <3>3. ASSUME NEW v \in Tasks, v # w
          PROVE  (OpenTask(v)' <=> OpenTask(v)) /\ (GivesUp(v)' <=> GivesUp(v))
      <4>1. ASSUME task[v].pc \in WithContext
            PROVE  Own(v) # Job(task[w], r)
        <5>1. CASE task[v].context = r
          BY <2>1, <3>1, <3>3, <4>1, <5>1, JobsApart DEF Own, WithContext, Working
        <5>2. CASE task[v].context # r
          BY <5>2 DEF Own, Job
        <5> QED
          BY <5>1, <5>2
      <4>2. task[v].pc \in WithContext => (Own(v) \in jobs' <=> Own(v) \in jobs)
        BY <3>2, <4>1
      <4> QED
        BY <2>1, <3>3, <4>2, OpenElse
    <3>4. OpenTask(w) /\ ~GivesUp(w)'
      BY <2>1, <3>2 DEF OpenTask, GivesUp
    <3>5. OpenTasks' \subseteq OpenTasks /\ GivingUp' \subseteq GivingUp
      BY <3>3, <3>4 DEF OpenTasks, GivingUp
    <3> QED
      BY <1>t, <2>1, <3>5, LimitLess
  <2>3. CASE Left(w) /\ UNCHANGED jobs
    BY <1>t, <2>1, <2>3, LimitMoves
  <2> QED
    BY <1>t, <1>3, <2>2, <2>3, StartJobPlain
<1>4. CASE SessionFails(w) \/ FailureReported(w)
  <2>1. UNCHANGED <<maxRequestsPerCrawl, requestsFinished, requestsFailed, jobs, ask,
                    handledRequestsCount>>
    BY <1>4 DEF SessionFails, FailureReported, setupVars, optionVars, statsVars, poolVars
  <2> QED
    BY <1>t, <1>4, <2>1, SessionPlain, LeavesPlain, LimitMoves DEF FailureReported
<1>5. CASE \E r \in Linked : HandlerAdds(w, r)
  <2>1. UNCHANGED <<maxRequestsPerCrawl, requestsFinished, requestsFailed, jobs, ask,
                    handledRequestsCount, task, chain>>
    BY <1>5 DEF HandlerAdds, optionVars, statsVars, poolVars
  <2> QED
    BY <1>t, <2>1, LimitMoves DEF Stays, SameJob, Else
<1>6. CASE HandlerReturns(w)
  <2>1. /\ UNCHANGED <<maxRequestsPerCrawl, requestsFinished, requestsFailed, jobs, ask,
                       handledRequestsCount>>
        /\ task[w].pc = "handling"
    BY <1>6 DEF HandlerReturns, setupVars, optionVars, statsVars
  <2> QED
    BY <1>t, <1>6, <2>1, ReturnPlain, LimitMoves
<1>7. CASE \E b \in BOOLEAN : HandlerThrows(w, b)
  <2>1. /\ UNCHANGED <<maxRequestsPerCrawl, requestsFinished, requestsFailed, jobs, ask>>
        /\ task[w].pc \in WithContext
    BY <1>7 DEF HandlerThrows, setupVars, optionVars, statsVars, WithContext, Working
  <2> QED
    BY <1>t, <1>n, <1>7, <2>1, ThrowPlain, LimitMoves
<1>8. CASE MarkReturns(w)
  <2>1. /\ Ends(w) /\ task[w].pc = "marking" /\ jobs' = jobs \ {Own(w)}
        /\ UNCHANGED <<maxRequestsPerCrawl, requestsFailed, ask>>
        /\ requestsFinished' = requestsFinished + (IF Own(w) \in jobs THEN 1 ELSE 0)
        /\ handledRequestsCount' = handledRequestsCount + 1
    BY <1>8 DEF MarkReturns, EndsJob, Own, setupVars, optionVars, poolVars
  <2>2. Else(w) /\ task'[w].pc = "idle"
    <3>1. Else(w) /\ task'[w] = IdleTask
      BY <1>t, <2>1, LeavesPlain
    <3> QED
      BY <3>1 DEF IdleTask
  <2>3. IF Own(w) \in jobs
        THEN requestsFinished' + requestsFailed' = requestsFinished + requestsFailed + 1
        ELSE UNCHANGED <<requestsFinished, requestsFailed>>
    BY <1>n, <2>1
  <2> QED
    BY <1>t, <2>1, <2>2, <2>3, LimitDone
<1>9. CASE MarkThrows(w)
  <2>1. /\ UNCHANGED <<maxRequestsPerCrawl, requestsFinished, requestsFailed, jobs, ask>>
        /\ task[w].pc \in WithContext
    BY <1>9 DEF MarkThrows, setupVars, optionVars, statsVars, WithContext, Working
  <2> QED
    BY <1>t, <1>n, <1>9, <2>1, MarkThrowPlain, LimitMoves
<1>10. CASE ReclaimReturns(w)
  <2>1. /\ UNCHANGED <<maxRequestsPerCrawl, requestsFinished, requestsFailed, jobs, ask,
                       handledRequestsCount>>
        /\ Ends(w)
    BY <1>10 DEF ReclaimReturns, setupVars, optionVars, statsVars, poolVars
  <2> QED
    BY <1>t, <2>1, LeavesPlain, LimitMoves
<1>11. CASE GiveUpReturns(w)
  <2>1. /\ task[w].pc = "givingUp" /\ jobs' = jobs \ {Own(w)}
        /\ task' = [task EXCEPT ![w].pc = "reporting"] /\ UNCHANGED chain
        /\ UNCHANGED <<maxRequestsPerCrawl, requestsFinished, handledRequestsCount, ask>>
        /\ requestsFailed' = requestsFailed + (IF Own(w) \in jobs THEN 1 ELSE 0)
    BY <1>11 DEF GiveUpReturns, EndsJob, Own, setupVars, optionVars, poolVars
  <2>2. Else(w) /\ Turns(w, "reporting")
    BY <1>t, <2>1, PcPlain
  <2>3. task'[w].pc = "reporting" /\ Own(w)' = Own(w)
    BY <2>2 DEF Turns, SameJob, Own, Job
  <2>4. Own(w)' \notin jobs'
    BY <2>1, <2>3
  <2>5. IF Own(w) \in jobs
        THEN requestsFinished' + requestsFailed' = requestsFinished + requestsFailed + 1
        ELSE UNCHANGED <<requestsFinished, requestsFailed>>
    BY <1>n, <2>1
  <2> QED
    BY <1>t, <2>1, <2>2, <2>3, <2>4, <2>5, LimitDone
<1>12. CASE SourceFailsError(w) \/ ReportFails(w)
  <2>1. /\ UNCHANGED <<maxRequestsPerCrawl, requestsFinished, requestsFailed, jobs, ask>>
        /\ task[w].pc \in WithContext
        /\ ErrorHandlerThrows(w)
    BY <1>12 DEF SourceFailsError, ReportFails, setupVars, optionVars, statsVars,
                 WithContext, Working
  <2> QED
    BY <1>t, <1>n, <2>1, ErrorAgain, LimitMoves
<1> QED
  BY <1>1, <1>2, <1>3, <1>4, <1>5, <1>6, <1>7, <1>8, <1>9, <1>10, <1>11, <1>12 DEF TaskSteps

(* A new process has no open task.                                         *)
LEMMA FreshLimit ==
    ASSUME Fresh, handledRequestsCount \in Nat, maxRequestsPerCrawl \in Nat, ask = "none",
           requestsFinished = 0, requestsFailed = 0
    PROVE  LimitInv
<1>1. OpenTasks = {} /\ GivingUp = {}
  BY NoTasks DEF OpenTasks, OpenTask, GivingUp, GivesUp, WithContext, Working
<1>2. Cardinality(OpenTasks) = 0 /\ Cardinality(GivingUp) = 0 /\ Asking = 0
  BY <1>1, FS_EmptySet DEF Asking
<1>3. Cardinality(Tasks) \in Nat
  BY TasksSize
<1> QED
  BY <1>2, <1>3 DEF LimitInv

(* With nothing counted it is below every limit.                           *)
LEMMA BeginsLimit ==
    /\ Fresh /\ CountsTyped /\ ask = "none" /\ requestsFinished = 0 /\ requestsFailed = 0
    => LimitInv
BY FreshLimit DEF CountsTyped

(* Every step keeps it.                                                    *)
LEMMA StepLimit ==
    ASSUME TasksInv, TasksInv', HeldBusy, ListOnce, StatsKept, LimitInv, [Next]_vars
    PROVE  LimitInv'
<1>1. CASE Restart
  <2>1. (Fresh /\ ask = "none" /\ requestsFinished = 0 /\ requestsFailed = 0)'
    BY <1>1 DEF Restart, Fresh
  <2>2. CountsTyped'
    BY DEF TasksInv
  <2> QED
    BY <2>1, <2>2, BeginsLimit, PTL
<1>2. CASE AskReady
  BY <1>2, LimitAsks
<1>3. CASE \/ (\E reset \in BOOLEAN : NotReady(reset)) \/ FinishAnswered \/ QueryFails
           \/ PauseOnMigration \/ (\E p \in Savers : Persists(p)) \/ UNCHANGED vars
  <2>1. /\ UNCHANGED <<task, jobs, maxRequestsPerCrawl, requestsFinished, requestsFailed,
                       handledRequestsCount>>
        /\ ask' \in {"none", ask}
    BY <1>3 DEF NotReady, FinishAnswered, QueryFails, PauseOnMigration, Persists, vars,
                setupVars, optionVars, statsVars, poolVars
  <2>2. OpenTasks' = OpenTasks /\ GivingUp' = GivingUp
    BY <2>1 DEF OpenTasks, OpenTask, GivingUp, GivesUp, Own, Job
  <2>3. CountsTyped
    BY DEF TasksInv
  <2> QED
    BY <2>1, <2>2, <2>3, LimitLess
<1>4. ASSUME NEW w \in Tasks, TaskSteps(w) \/ \E c \in Calls : FetchSteps(w, c)
      PROVE  LimitInv'
  BY <1>4, TaskLimit, FetchLimit
<1> QED
  BY <1>1, <1>2, <1>3, <1>4 DEF Next, PoolSteps

(* The open tasks of the property are the ones counted here: one that has  *)
(* failed has no job.                                                      *)
LEMMA OpenCounted ==
    ASSUME TasksInv
    PROVE  Open = OpenTasks
<1>1. ASSUME NEW w \in Tasks
      PROVE  w \in Open <=> OpenTask(w)
  <2>1. task[w].pc \in {"idle", "fetching", "fetched", "failed"} \cup WithContext
    BY DEF TasksInv, CrawlerInv, TasksTyped, TaskStates, WithContext, Working
  <2>2. task[w].pc = "failed" => Job(task[w], task[w].context) \notin jobs
    <3>1. task[w].pc = "failed" => task[w].context = None
      BY DEF TasksInv, Places, TaskPlaced, WithContext, Working
    <3>2. jobs \subseteq Sources \X Requests
      BY DEF TasksInv, CountsTyped
    <3> QED
      BY <3>1, <3>2, CrawlerAssumption DEF Job
  <2> QED
    BY <2>1, <2>2 DEF Open, OpenTask, Own, Running, WithContext, Working
<1> QED
  BY <1>1 DEF Open, OpenTasks, Running

(* maxRequestsPerCrawl is exceeded by less than the number of tasks, even  *)
(* though the limit is looked at before a task is started, the count goes  *)
(* up when a job ends, and a task that gives up a request may throw and    *)
(* be repeated.                                                            *)
THEOREM LimitKeptHolds == CrawlerSpec => []LimitKept
<1>1. CrawlerInit => StatsKept /\ LimitInv
  BY InitFresh, InitCounts, BeginsStats, BeginsLimit DEF CrawlerInit
<1>2. TasksInv /\ HeldBusy /\ ListOnce /\ StatsKept /\ [Next]_vars => StatsKept'
  BY StepStats
<1>3. /\ TasksInv /\ TasksInv' /\ HeldBusy /\ ListOnce /\ StatsKept /\ LimitInv /\ [Next]_vars
      => LimitInv'
  BY StepLimit
<1>4. TasksInv /\ LimitInv => LimitKept
  <2> SUFFICES ASSUME TasksInv, LimitInv, maxRequestsPerCrawl > 0
               PROVE  requestsFinished + requestsFailed + Cardinality(Open)
                          < maxRequestsPerCrawl + Cardinality(Tasks)
    BY DEF LimitKept
  <2>1. CountsTyped
    BY DEF TasksInv
  <2>2. requestsFinished + requestsFailed + Cardinality(OpenTasks) + Asking
            < maxRequestsPerCrawl + Cardinality(Tasks)
    BY DEF LimitInv
  <2>3. requestsFinished + requestsFailed + Cardinality(OpenTasks)
            < maxRequestsPerCrawl + Cardinality(Tasks)
    <3> HIDE DEF OpenTasks, Asking
    <3> QED
      BY <2>1, <2>2, LimitTyped
  <2> QED
    BY <2>3, OpenCounted
<1> QED
  BY <1>1, <1>2, <1>3, <1>4, TasksInvHolds, HeldBusyHolds, ListOnceHolds, PTL DEF CrawlerSpec

-----------------------------------------------------------------------------
(***************************************************************************)
(* How often a request may be given to the handler.  The argument is an    *)
(* account: of every request the attempts it was given, the retries that   *)
(* were counted for it, in the queue, in the list or by the task that has  *)
(* it, and the credit of what restarts and late fetches cut off before it  *)
(* was counted.                                                            *)
(***************************************************************************)

-----------------------------------------------------------------------------
(* Nothing counts more retries than there may be.                          *)
RetriesBounded ==
    /\ \A r \in Requests :
          storedRetries[r] <= MaxRequestRetries /\ listRetries[r] <= MaxRequestRetries
    /\ \A w \in Tasks : task[w].pc \in WithContext => task[w].retryCount <= MaxRequestRetries

(* The attempts of a request from the queue.                               *)
Spent(r) == attempts[<<"queue", r>>]

(* The attempts of a request from the list.                                *)
ListSpent(r) == attempts[<<"list", r>>]

(* What restarts and late fetches may have cut off: a late fetch counts    *)
(* when its task has lost it, with its answer or without.                  *)
OwnLate == {w \in Tasks : chain[w]["late"].mine}

(* How many attempts may not have been counted as retries.                 *)
Credit == restarts + lates - Cardinality(OwnLate)

(* What is compared below are numbers.                                     *)
NumbersTyped ==
    /\ Credit \in Int
    /\ MaxRequestRetries \in Nat
    /\ \A r \in Requests : /\ Spent(r) \in Nat /\ ListSpent(r) \in Nat
                           /\ storedRetries[r] \in Nat /\ listRetries[r] \in Nat
    /\ \A w \in Tasks : task[w].retryCount \in Nat

(* They are numbers where types and places hold.                           *)
LEMMA NumbersAreTyped ==
    ASSUME TasksInv
    PROVE  NumbersTyped /\ Cardinality(OwnLate) \in Nat /\ IsFiniteSet(OwnLate)
<1>1. TasksTyped /\ CountsTyped
  BY DEF TasksInv, CrawlerInv
<1>2. OwnLate \subseteq Tasks /\ IsFiniteSet(Tasks)
  BY CrawlerAssumption DEF OwnLate
<1>3. IsFiniteSet(OwnLate)
  BY <1>2, FS_Subset
<1>4. Cardinality(OwnLate) \in Nat
  BY <1>3, FS_CardinalityType
<1>5. lates \in Nat /\ restarts \in Nat
  BY <1>1 DEF CountsTyped
<1>6. Credit \in Int
  BY <1>4, <1>5 DEF Credit
<1>7. \A r \in Requests : Spent(r) \in Nat /\ ListSpent(r) \in Nat
  BY <1>1 DEF CountsTyped, Spent, ListSpent, Kinds, Sources
<1>8. \A w \in Tasks : task[w].retryCount \in Nat
  BY <1>1 DEF TasksTyped, TaskStates
<1> QED
  BY <1>1, <1>3, <1>4, <1>6, <1>7, <1>8, CrawlerAssumption DEF NumbersTyped, TasksTyped

(* The same, to be used of the next state too.                             *)
LEMMA NumbersNow == TasksInv => NumbersTyped /\ Cardinality(OwnLate) \in Nat /\ IsFiniteSet(OwnLate)
BY NumbersAreTyped

(* A task that loses its late fetch is credited with it.                   *)
Credited(w) ==
    /\ Credit' >= Credit
    /\ chain[w]["late"].mine /\ ~chain'[w]["late"].mine /\ lates' = lates =>
          Credit' >= Credit + 1

(* Without a new late fetch the credit does not fall.                      *)
LEMMA CreditLess ==
    ASSUME TasksInv, NEW w \in Tasks, Else(w), UNCHANGED <<restarts, lates>>,
           chain'[w]["late"].mine => chain[w]["late"].mine
    PROVE  Credited(w)
<1>1. \A v \in Tasks : v # w => (v \in OwnLate' <=> v \in OwnLate)
  BY DEF Else, OwnLate
<1>2. IsFiniteSet(OwnLate) /\ Cardinality(OwnLate) \in Nat /\ lates \in Nat /\ restarts \in Nat
  BY NumbersAreTyped DEF TasksInv, CountsTyped
<1>3. CASE chain[w]["late"].mine /\ ~chain'[w]["late"].mine
  <2>1. OwnLate' = OwnLate \ {w} /\ w \in OwnLate
    BY <1>1, <1>3 DEF OwnLate
  <2>2. Cardinality(OwnLate \ {w}) = Cardinality(OwnLate) - 1
    BY <1>2, <2>1, FS_RemoveElement
  <2>3. Cardinality(OwnLate') = Cardinality(OwnLate) - 1
    BY <2>1, <2>2
  <2>4. PICK n \in Nat, m \in Nat, k \in Nat :
            n = Cardinality(OwnLate) /\ m = lates /\ k = restarts
    BY <1>2
  <2>5. Credit = k + m - n /\ Credit' = k + m - (n - 1)
    BY <2>3, <2>4 DEF Credit
  <2> QED
    BY <2>5 DEF Credited
<1>4. CASE ~(chain[w]["late"].mine /\ ~chain'[w]["late"].mine)
  <2>1. OwnLate' = OwnLate
    BY <1>1, <1>4 DEF OwnLate
  <2>2. Cardinality(OwnLate') = Cardinality(OwnLate)
    BY <2>1
  <2>3. Credit' = Credit /\ Credit \in Int
    BY <1>2, <2>2 DEF Credit
  <2> QED
    BY <1>4, <2>3 DEF Credited
<1> QED
  BY <1>3, <1>4

(* A fetch that times out earns its credit when it is lost.                *)
LEMMA CreditMore ==
    ASSUME TasksInv, NEW w \in Tasks, Else(w), UNCHANGED restarts, lates' = lates + 1
    PROVE  Credited(w)
<1>1. IsFiniteSet(OwnLate) /\ Cardinality(OwnLate) \in Nat /\ lates \in Nat /\ restarts \in Nat
  BY NumbersAreTyped DEF TasksInv, CountsTyped
<1>2. OwnLate' \subseteq OwnLate \cup {w}
  BY DEF Else, OwnLate
<1>3. /\ IsFiniteSet(OwnLate \cup {w})
      /\ Cardinality(OwnLate \cup {w})
            = IF w \in OwnLate THEN Cardinality(OwnLate) ELSE Cardinality(OwnLate) + 1
  BY <1>1, FS_AddElement
<1>4. IsFiniteSet(OwnLate') /\ Cardinality(OwnLate') <= Cardinality(OwnLate \cup {w})
  BY <1>2, <1>3, FS_Subset
<1>5. Cardinality(OwnLate') \in Nat
  BY <1>4, FS_CardinalityType
<1>6. PICK n \in Nat, g \in Nat, m \in Nat, k \in Nat :
          n = Cardinality(OwnLate) /\ g = Cardinality(OwnLate') /\ m = lates /\ k = restarts
  BY <1>1, <1>5
<1>7. g <= n + 1
  BY <1>3, <1>4, <1>6
<1>8. Credit = k + m - n /\ Credit' = k + (m + 1) - g
  BY <1>6 DEF Credit
<1>9. lates' # lates
  BY <1>6
<1> QED
  BY <1>7, <1>8, <1>9 DEF Credited

(* A step of a task is credited.                                           *)
LEMMA TaskCredits ==
    ASSUME TasksInv, NEW w \in Tasks, TaskSteps(w)
    PROVE  Credited(w)
<1>t. TasksTyped /\ CountsTyped /\ Kept /\ Places
  BY DEF TasksInv, CrawlerInv
<1>n. handledRequestsCount \in Nat
  BY <1>t DEF CountsTyped
<1>1. CASE FetchTimesOut(w)
  BY <1>t, <1>1, TimesOutPlain, CreditMore DEF FetchTimesOut
<1>2. ASSUME Else(w), UNCHANGED <<restarts, lates>>,
             \/ UNCHANGED chain \/ Left(w) \/ Died(w) \/ Erred(w) \/ Began(w) \/ Handles(w)
      PROVE  Credited(w)
  <2>1. chain'[w]["late"].mine => chain[w]["late"].mine
    BY <1>2 DEF Left, Died, Erred, Began, Handles
  <2> QED
    BY <1>2, <2>1, CreditLess
<1>3. CASE StartTask(w) \/ StartJob(w) \/ SessionFails(w) \/ HandlerReturns(w)
           \/ FailureReported(w)
  <2>1. UNCHANGED <<restarts, lates>>
    BY <1>3 DEF StartTask, StartJob, SessionFails, HandlerReturns, FailureReported, boundVars,
                Fails
  <2> QED
    BY <1>t, <1>2, <1>3, <2>1, StartPlain, StartJobPlain, SessionPlain, ReturnPlain, LeavesPlain
       DEF FailureReported, Handles
<1>4. CASE (\E r \in Linked : HandlerAdds(w, r)) \/ GiveUpReturns(w)
  <2>1. UNCHANGED <<restarts, lates, chain>>
    BY <1>4 DEF HandlerAdds, GiveUpReturns, boundVars
  <2>2. Else(w)
    <3>1. CASE UNCHANGED task
      BY <2>1, <3>1 DEF Else
    <3>2. CASE task' = [task EXCEPT ![w].pc = "reporting"]
      BY <1>t, <2>1, <3>2, PcPlain
    <3> QED
      BY <1>4, <3>1, <3>2 DEF HandlerAdds, GiveUpReturns
  <2> QED
    BY <1>2, <2>1, <2>2
<1>5. CASE \E b \in BOOLEAN : HandlerThrows(w, b)
  <2>1. UNCHANGED <<restarts, lates>>
    BY <1>5 DEF HandlerThrows, boundVars
  <2> QED
    BY <1>t, <1>n, <1>2, <1>5, <2>1, ThrowPlain
<1>6. CASE MarkReturns(w) \/ ReclaimReturns(w)
  <2>1. UNCHANGED <<restarts, lates>> /\ Ends(w)
    BY <1>6 DEF MarkReturns, ReclaimReturns, boundVars
  <2> QED
    BY <1>t, <1>2, <2>1, LeavesPlain
<1>7. CASE MarkThrows(w)
  <2>1. UNCHANGED <<restarts, lates>>
    BY <1>7 DEF MarkThrows, SourceThrows, Fails, boundVars
  <2> QED
    BY <1>t, <1>n, <1>2, <1>7, <2>1, MarkThrowPlain
<1>8. CASE SourceFailsError(w) \/ ReportFails(w)
  <2>1. UNCHANGED <<restarts, lates>>
    BY <1>8 DEF SourceFailsError, ReportFails, SourceThrows, Fails, boundVars
  <2> QED
    BY <1>t, <1>n, <1>2, <1>8, <2>1, ErrorAgain DEF SourceFailsError, ReportFails
<1> QED
  BY <1>1, <1>3, <1>4, <1>5, <1>6, <1>7, <1>8 DEF TaskSteps

(* So is a step of a call, which is no new late fetch.                     *)
LEMMA FetchCredits ==
    ASSUME TasksInv, NEW w \in Tasks, NEW c \in Calls, FetchSteps(w, c)
    PROVE  Credited(w) /\ UNCHANGED lates
<1>t. TasksTyped /\ CountsTyped /\ Kept /\ Places
  BY DEF TasksInv, CrawlerInv
<1>c. chain[w][c].item \in Requests \cup {None}
  BY <1>t DEF TasksTyped, ChainStates
<1>1. UNCHANGED <<restarts, lates>>
  BY DEF FetchSteps, ListAnswered, AddReaches, AddReturns, AddFails, TakeNothing, Take, FetchFails,
         Fails, boundVars
<1>2. CASE FetchFails(w, c)
  <2>1. Else(w) /\ (Again(w, chain[w]["late"]) \/ Over(w, "late"))
    BY <1>t, <1>2, FailsPlain
  <2>2. Over(w, "late") => ~chain'[w]["late"].mine
    BY DEF Over, NoChain
  <2>3. chain'[w]["late"].mine => chain[w]["late"].mine
    BY <2>1, <2>2 DEF Again
  <2> QED
    BY <1>1, <2>1, <2>3, CreditLess
<1>3. CASE (\E place : Goes(w, c, place)) \/ \E r \in Requests \cup {None} : Returns(w, c, r)
  <2>1. CASE \E place : Goes(w, c, place)
    <3>1. Else(w) /\ (chain'[w]["late"].mine => chain[w]["late"].mine)
      BY <1>t, <2>1, GoesPlain DEF Went, Calls
    <3> QED
      BY <1>1, <3>1, CreditLess
  <2>2. CASE \E r \in Requests \cup {None} : Returns(w, c, r)
    <3>1. Else(w) /\ Over(w, c)
      BY <1>t, <2>2, ReturnsPlain DEF Gave
    <3>2. chain'[w]["late"].mine => chain[w]["late"].mine
      BY <3>1 DEF Over, NoChain, Calls
    <3> QED
      BY <1>1, <3>1, <3>2, CreditLess
  <2> QED
    BY <1>3, <2>1, <2>2
<1>4. FetchFails(w, c) \/ (\E place : Goes(w, c, place)) \/ \E r \in Requests \cup {None} : Returns(w, c, r)
  BY <1>c DEF FetchSteps, ListAnswered, AddReaches, AddReturns, AddFails, TakeNothing, Take
<1> QED
  BY <1>1, <1>2, <1>3, <1>4

-----------------------------------------------------------------------------
LEMMA RetriesElse ==
    ASSUME RetriesBounded, NEW w \in Tasks, Else(w),
           \A r \in Requests : storedRetries'[r] <= MaxRequestRetries,
           \A r \in Requests : listRetries'[r] <= MaxRequestRetries,
           task'[w].pc \in WithContext => task'[w].retryCount <= MaxRequestRetries
    PROVE  RetriesBounded'
<1>1. \A v \in Tasks : v # w => task'[v] = task[v]
  BY DEF Else
<1> QED
  BY <1>1 DEF RetriesBounded

(* A task that does not err has the retries that it had.                   *)
LEMMA RetriesMoves ==
    ASSUME RetriesBounded, NEW w \in Tasks, Else(w), UNCHANGED listRetries,
           \A r \in Requests : \/ storedRetries'[r] = storedRetries[r]
                               \/ storedRetries'[r] = listRetries[r]
                               \/ storedRetries'[r] = task[w].retryCount /\ task[w].pc \in WithContext,
           \/ task'[w].pc \notin WithContext
           \/ task[w].pc \in WithContext /\ task'[w].retryCount = task[w].retryCount
    PROVE  RetriesBounded'
<1>1. \A r \in Requests : storedRetries'[r] <= MaxRequestRetries
  BY DEF RetriesBounded
<1>2. task'[w].pc \in WithContext => task'[w].retryCount <= MaxRequestRetries
  BY DEF RetriesBounded
<1> QED
  BY <1>1, <1>2, RetriesElse DEF RetriesBounded

(* A task that errs has at most one retry more than it could.              *)
LEMMA RetriesErr ==
    ASSUME TasksInv, RetriesBounded, NEW w \in Tasks, Else(w), Erred(w),
           \A r \in Requests : \/ storedRetries'[r] = storedRetries[r]
                               \/ storedRetries'[r] = task[w].retryCount,
           task[w].pc \in WithContext
    PROVE  RetriesBounded'
<1>1. TasksTyped /\ task[w].retryCount \in Nat /\ MaxRequestRetries \in Nat
  BY NumbersAreTyped DEF TasksInv, CrawlerInv, NumbersTyped
<1>2. \A r \in Requests : storedRetries'[r] <= MaxRequestRetries
  BY DEF RetriesBounded
<1>3. CASE /\ task'[w].pc = "reclaiming" /\ task[w].retryCount < MaxRequestRetries
           /\ task'[w].retryCount = task[w].retryCount + 1
           /\ listRetries' = IF task[w].fromList
                             THEN [listRetries EXCEPT ![task[w].context] = task[w].retryCount + 1]
                             ELSE listRetries
  <2>1. task[w].retryCount + 1 <= MaxRequestRetries
    BY <1>1, <1>3
  <2>2. \A r \in Requests : listRetries'[r] = listRetries[r] \/ listRetries'[r] = task[w].retryCount + 1
    BY <1>1, <1>3 DEF TasksTyped
  <2>3. \A r \in Requests : listRetries'[r] <= MaxRequestRetries
    BY <2>1, <2>2 DEF RetriesBounded
  <2> QED
    BY <1>2, <1>3, <2>1, <2>3, RetriesElse
<1>4. CASE task'[w].retryCount = task[w].retryCount /\ UNCHANGED listRetries
  BY <1>2, <1>4, RetriesElse DEF RetriesBounded
<1> QED
  BY <1>3, <1>4 DEF Erred

(* A step of a task keeps the retries bounded.                             *)
LEMMA TaskRetries ==
    ASSUME TasksInv, RetriesBounded, NEW w \in Tasks, TaskSteps(w)
    PROVE  RetriesBounded'
<1>t. TasksTyped /\ CountsTyped /\ Kept /\ Places
  BY DEF TasksInv, CrawlerInv
<1>n. handledRequestsCount \in Nat
  BY <1>t DEF CountsTyped
<1>p. task[w].pc \in {"handling", "marking", "reclaiming", "givingUp", "reporting"}
          <=> task[w].pc \in WithContext
  BY DEF WithContext, Working
<1>1. CASE StartTask(w) \/ SessionFails(w) \/ FailureReported(w) \/ HandlerReturns(w)
  <2>1. UNCHANGED <<storedRetries, listRetries>>
    BY <1>1 DEF StartTask, SessionFails, FailureReported, HandlerReturns, queueVars
  <2>2. Else(w) /\ (Began(w) \/ Left(w) \/ Died(w) \/ Turns(w, "marking") \/ Stays(w))
    BY <1>t, <1>1, StartPlain, SessionPlain, ReturnPlain, LeavesPlain DEF FailureReported
  <2>3. \/ task'[w].pc \notin WithContext
        \/ task[w].pc \in WithContext /\ task'[w].retryCount = task[w].retryCount
    <3>1. HandlerReturns(w) => task[w].pc = "handling"
      BY DEF HandlerReturns
    <3>2. Turns(w, "marking") => HandlerReturns(w) \/ task'[w].pc \in {"idle", "failed", "fetching"}
                                  \/ task'[w].pc = task[w].pc
      <4>1. CASE ~HandlerReturns(w)
        BY <1>t, <1>1, <4>1, StartPlain, SessionPlain, LeavesPlain
           DEF FailureReported, Began, Died, Left, Stays
      <4> QED
        BY <4>1
    <3> QED
      BY <1>p, <2>2, <3>1, <3>2 DEF Began, Left, Died, Turns, Stays, WithContext, Working
  <2> QED
    BY <2>1, <2>2, <2>3, RetriesMoves
<1>2. CASE FetchTimesOut(w)
  <2>1. UNCHANGED <<storedRetries, listRetries>>
    BY <1>2 DEF FetchTimesOut, queueVars
  <2>2. Else(w) /\ Again(w, chain[w]["main"]) /\ task[w].pc = "fetching"
    BY <1>t, <1>2, TimesOutPlain DEF FetchTimesOut, Places, CallsPlaced
  <2>3. task'[w].pc \notin WithContext
    BY <2>2 DEF Again, Stays, WithContext, Working
  <2> QED
    BY <2>1, <2>2, <2>3, RetriesMoves
<1>3. CASE StartJob(w)
  <2>1. UNCHANGED <<storedRetries, listRetries>>
    BY <1>3 DEF StartJob, queueVars
  <2>2. Else(w) /\ (Handles(w) \/ Left(w))
    BY <1>t, <1>3, StartJobPlain
  <2>3. task'[w].pc \in WithContext => task'[w].retryCount <= MaxRequestRetries
    <3>1. CASE Handles(w)
      BY <3>1 DEF Handles, RetriesBounded
    <3>2. CASE Left(w)
      BY <3>2 DEF Left, WithContext, Working
    <3> QED
      BY <2>2, <3>1, <3>2
  <2> QED
    BY <2>1, <2>2, <2>3, RetriesElse DEF RetriesBounded
<1>4. CASE \E r \in Linked : HandlerAdds(w, r)
  BY <1>4 DEF HandlerAdds, RetriesBounded
<1>5. CASE \E b \in BOOLEAN : HandlerThrows(w, b)
  <2>1. UNCHANGED storedRetries /\ task[w].pc \in WithContext
    BY <1>5, <1>p DEF HandlerThrows, queueVars
  <2>2. Else(w) /\ (Erred(w) \/ (Died(w) /\ UNCHANGED listRetries))
    BY <1>t, <1>n, <1>5, ThrowPlain
  <2>3. Died(w) => task'[w].pc \notin WithContext
    BY DEF Died, WithContext, Working
  <2> QED
    BY <2>1, <2>2, <2>3, RetriesErr, RetriesMoves
<1>6. CASE MarkReturns(w) \/ GiveUpReturns(w)
  <2>1. UNCHANGED <<storedRetries, listRetries>>
    BY <1>6 DEF MarkReturns, GiveUpReturns, SourceMarks, queueVars
  <2>2. CASE MarkReturns(w)
    <3>1. Else(w) /\ task'[w].pc \notin WithContext
      BY <1>t, <2>2, LeavesPlain DEF MarkReturns, Left, WithContext, Working
    <3> QED
      BY <2>1, <3>1, RetriesMoves
  <2>3. CASE GiveUpReturns(w)
    <3>1. Else(w) /\ Turns(w, "reporting") /\ task[w].pc \in WithContext
      BY <1>t, <1>p, <2>3, PcPlain DEF GiveUpReturns
    <3> QED
      BY <2>1, <3>1, RetriesMoves DEF Turns
  <2> QED
    BY <1>6, <2>2, <2>3
<1>7. CASE ReclaimReturns(w)
  <2>1. UNCHANGED listRetries /\ task[w].pc \in WithContext
    BY <1>7, <1>p DEF ReclaimReturns
  <2>2. \A r \in Requests : \/ storedRetries'[r] = storedRetries[r]
                            \/ storedRetries'[r] = task[w].retryCount
    BY <1>t, <1>7 DEF ReclaimReturns, SourceReclaims, queueVars, TasksTyped
  <2>3. Else(w) /\ task'[w].pc \notin WithContext
    BY <1>t, <1>7, LeavesPlain DEF ReclaimReturns, Left, WithContext, Working
  <2> QED
    BY <2>1, <2>2, <2>3, RetriesMoves
<1>8. ASSUME NEW r, NEW new, SourceThrows(w, r, new)
      PROVE  \A x \in Requests : \/ storedRetries'[x] = storedRetries[x]
                                 \/ storedRetries'[x] = task[w].retryCount
  <2>1. \/ UNCHANGED storedRetries
        \/ storedRetries' = [storedRetries EXCEPT
               ![r] = IF r = task[w].context THEN task[w].retryCount ELSE @]
    BY <1>8 DEF SourceThrows, queueVars
  <2> QED
    BY <1>t, <2>1 DEF TasksTyped
<1>9. CASE MarkThrows(w)
  <2>1. task[w].pc \in WithContext /\ SourceThrows(w, task[w].request, "handled")
    BY <1>9, <1>p DEF MarkThrows
  <2>2. /\ Else(w)
        /\ \/ Erred(w)
           \/ (Died(w) \/ Stays(w)) /\ UNCHANGED listRetries
    BY <1>t, <1>n, <1>9, MarkThrowPlain
  <2>3. Died(w) => task'[w].pc \notin WithContext
    BY DEF Died, WithContext, Working
  <2>4. \A x \in Requests : \/ storedRetries'[x] = storedRetries[x]
                            \/ storedRetries'[x] = task[w].retryCount
    BY <1>8, <2>1
  <2> QED
    BY <2>1, <2>2, <2>3, <2>4, RetriesErr, RetriesMoves DEF Stays
<1>10. CASE SourceFailsError(w) \/ ReportFails(w)
  <2>1. task[w].pc \in WithContext /\ ErrorHandlerThrows(w)
    BY <1>10, <1>p DEF SourceFailsError, ReportFails
  <2>2. Else(w) /\ (Erred(w) \/ (Died(w) /\ UNCHANGED listRetries))
    BY <1>t, <1>n, <2>1, ErrorAgain
  <2>3. Died(w) => task'[w].pc \notin WithContext
    BY DEF Died, WithContext, Working
  <2>4. \A x \in Requests : \/ storedRetries'[x] = storedRetries[x]
                            \/ storedRetries'[x] = task[w].retryCount
    <3>1. CASE ReportFails(w)
      BY <3>1 DEF ReportFails, queueVars
    <3>2. CASE SourceFailsError(w)
      BY <1>8, <3>2 DEF SourceFailsError
    <3> QED
      BY <1>10, <3>1, <3>2
  <2> QED
    BY <2>1, <2>2, <2>3, <2>4, RetriesErr, RetriesMoves
<1> QED
  BY <1>1, <1>2, <1>3, <1>4, <1>5, <1>6, <1>7, <1>9, <1>10 DEF TaskSteps

(* So does a step of a call.                                               *)
LEMMA FetchRetries ==
    ASSUME TasksInv, RetriesBounded, NEW w \in Tasks, NEW c \in Calls, FetchSteps(w, c)
    PROVE  RetriesBounded'
<1>t. TasksTyped /\ Places
  BY DEF TasksInv, CrawlerInv
<1>c. chain[w][c].item \in Requests \cup {None}
  BY <1>t DEF TasksTyped, ChainStates
<1>l. UNCHANGED listRetries
  BY DEF FetchSteps, ListAnswered, AddReaches, AddReturns, AddFails, TakeNothing, Take, FetchFails
<1>1. \A r \in Requests : storedRetries'[r] = storedRetries[r] \/ storedRetries'[r] = listRetries[r]
  <2>1. \/ UNCHANGED storedRetries
        \/ \E r : storedRetries' = [storedRetries EXCEPT ![r] = listRetries[r]]
    BY DEF FetchSteps, ListAnswered, AddReaches, AddTo, AddReturns, AddFails, TakeNothing, Take,
           FetchFails, queueVars
  <2> QED
    BY <1>t, <2>1 DEF TasksTyped
<1>2. /\ Else(w)
      /\ \/ task'[w].pc \notin WithContext
         \/ task'[w].pc = task[w].pc /\ task'[w].retryCount = task[w].retryCount
  <2>1. CASE FetchFails(w, c)
    BY <1>t, <2>1, FailsPlain DEF Again, Stays, WithContext, Working
  <2>2. CASE \E place : Goes(w, c, place)
    BY <1>t, <2>2, GoesPlain DEF Went
  <2>3. CASE \E r \in Requests \cup {None} : Returns(w, c, r)
    BY <1>t, <2>3, ReturnsPlain DEF Gave, Calls, WithContext, Working
  <2> QED
    BY <1>c, <2>1, <2>2, <2>3
       DEF FetchSteps, ListAnswered, AddReaches, AddReturns, AddFails, TakeNothing, Take
<1> QED
  BY <1>l, <1>1, <1>2, RetriesMoves

(* Every step keeps them bounded.                                          *)
LEMMA StepRetries ==
    ASSUME TasksInv, RetriesBounded, [Next]_vars
    PROVE  RetriesBounded'
<1>1. CASE PoolSteps \/ (\E p \in Savers : Persists(p)) \/ UNCHANGED vars
  <2>1. UNCHANGED <<task, storedRetries, listRetries>>
    BY <1>1 DEF PoolSteps, AskReady, NotReady, FinishAnswered, QueryFails, PauseOnMigration,
                Persists, vars, queueVars
  <2> QED
    BY <2>1 DEF RetriesBounded
<1>2. CASE Restart
  <2>1. \A w \in Tasks : task'[w].pc \notin WithContext
    BY <1>2 DEF Restart, IdleTask, WithContext, Working
  <2>2. UNCHANGED storedRetries /\ \A r \in Requests : listRetries'[r] = 0
    BY <1>2 DEF Restart
  <2>3. 0 <= MaxRequestRetries
    BY CrawlerAssumption
  <2> QED
    BY <2>1, <2>2, <2>3 DEF RetriesBounded
<1> QED
  BY <1>1, <1>2, TaskRetries, FetchRetries DEF Next

(* In every state nothing counts more retries than there may be.           *)
LEMMA RetriesBoundedHolds == CrawlerSpec => []RetriesBounded
<1>1. CrawlerInit => RetriesBounded
  BY CrawlerAssumption DEF CrawlerInit, RetriesBounded, IdleTask, WithContext, Working
<1>2. TasksInv /\ RetriesBounded /\ [Next]_vars => RetriesBounded'
  BY StepRetries
<1> QED
  BY <1>1, <1>2, TasksInvHolds, PTL DEF CrawlerSpec

-----------------------------------------------------------------------------
(* The attempts that a request of the queue was given, against the retries *)
(* that the queue has of it.  A task that has begun with a request and has *)
(* still to write how that went owes one attempt more than was counted.    *)
Attempting(w, r) ==
    /\ task[w].pc \in WithContext
    /\ task[w].source = "queue"
    /\ task[w].context = r
    /\ task[w].request = r

(* Who fetches the request will not find one attempt too many.             *)
Paid(r) ==
    r \in busy => \A w \in Tasks : ~Attempting(w, r) /\ task[w].pc # "failed"

(* A request has had one attempt more than was counted, at most.           *)
RequestPaid(r) ==
    /\ status[r] = "absent" => Spent(r) = 0
    /\ Spent(r) <= storedRetries[r] + 1 + Credit
    /\ status[r] = "pending" /\ Paid(r) => Spent(r) <= storedRetries[r] + Credit

(* What a task has may be attempted, or was counted.                       *)
TaskPaid(w) ==
    task[w].source = "queue" =>
        /\ task[w].pc = "fetched" /\ task[w].request # None =>
              Spent(task[w].request) <= storedRetries[task[w].request] + Credit
        /\ task[w].pc \in WithContext =>
              storedRetries[task[w].context] <= task[w].retryCount
        /\ task[w].pc = "reclaiming" =>
              Spent(task[w].context) <= task[w].retryCount + Credit
        /\ task[w].pc = "reporting" => task[w].context \notin busy

(* The attempts of all requests of the queue are accounted for.            *)
QueuePaid ==
    /\ Credit \in Nat
    /\ \A r \in Requests : RequestPaid(r)
    /\ \A w \in Tasks : TaskPaid(w)

(* What the task has from the queue.                                       *)
LEMMA HasHeld ==
    ASSUME TasksInv, NEW w \in Tasks, task[w].source = "queue"
    PROVE  /\ task[w].pc = "fetched" /\ task[w].request # None => task[w].request \in Held(w)
           /\ task[w].pc \in WithContext => task[w].context \in Held(w)
           /\ task[w].pc \in Working => ~task[w].fromList
<1>1. /\ task[w].request \in Requests \cup {None} /\ task[w].context \in Requests \cup {None}
      /\ task[w].pc \in Working => ~task[w].fromList
      /\ task[w].pc \in WithContext => task[w].context # None
  BY DEF TasksInv, CrawlerInv, TasksTyped, TaskStates, Places, TaskPlaced
<1> QED
  BY <1>1 DEF Held, WithContext, Working

(* A task that keeps what it has owes what it owed.                        *)
LEMMA HeldPaid ==
    ASSUME TasksInv, TasksInv', QueuePaid, Credit' >= Credit,
           NEW v \in Tasks, task'[v] = task[v],
           \A r \in Requests : r \in Held(v) =>
               /\ storedRetries'[r] = storedRetries[r] /\ Spent(r)' = Spent(r)
               /\ r \in busy' => r \in busy
    PROVE  TaskPaid(v)'
<1>1. task'[v] = task[v] /\ TaskPaid(v)
  BY DEF QueuePaid
<1> SUFFICES ASSUME task[v].source = "queue"
             PROVE  TaskPaid(v)'
  BY <1>1 DEF TaskPaid, Spent
<1>2. ASSUME NEW r \in Held(v)
      PROVE  /\ storedRetries'[r] = storedRetries[r] /\ Spent(r)' = Spent(r)
             /\ r \in busy' => r \in busy
             /\ r \in Requests
  BY <1>2 DEF Held
<1>3. NumbersTyped /\ NumbersTyped'
  BY NumbersNow, PTL
<1>4. CASE task[v].pc = "fetched" /\ task[v].request # None
  <2>0. task[v].request \in Held(v)
    BY <1>4, HasHeld
  <2>00. task[v].request \in Requests
    BY <2>0 DEF Held
  <2>1. PICK r \in Requests : r = task[v].request /\ r \in Held(v)
    BY <2>0, <2>00
  <2>2. Spent(r) <= storedRetries[r] + Credit
    BY <1>1, <1>4, <2>1 DEF TaskPaid, Spent
  <2>3. Spent(r)' <= storedRetries'[r] + Credit'
    BY <1>2, <1>3, <2>1, <2>2 DEF NumbersTyped, Spent
  <2> QED
    BY <1>1, <1>4, <2>1, <2>3 DEF TaskPaid, Spent, WithContext, Working
<1>5. CASE task[v].pc \in WithContext
  <2>1. PICK r \in Requests : r = task[v].context /\ r \in Held(v)
    BY <1>2, <1>5, HasHeld DEF Spent
  <2>2. storedRetries'[r] <= task[v].retryCount
    BY <1>1, <1>2, <1>5, <2>1 DEF TaskPaid, Spent
  <2>3. ASSUME task[v].pc = "reclaiming"
        PROVE  Spent(r)' <= task[v].retryCount + Credit'
    <3>1. Spent(r)' <= task[v].retryCount + Credit
      BY <1>1, <1>2, <2>1, <2>3 DEF TaskPaid, Spent
    <3> QED
      BY <1>3, <3>1 DEF NumbersTyped
  <2>4. task[v].pc = "reporting" => r \notin busy'
    BY <1>1, <1>2, <2>1 DEF TaskPaid, Spent
  <2> QED
    BY <1>1, <1>5, <2>1, <2>2, <2>3, <2>4 DEF TaskPaid, Spent, WithContext, Working
<1>6. CASE task[v].pc \notin WithContext /\ ~(task[v].pc = "fetched" /\ task[v].request # None)
  BY <1>1, <1>6 DEF TaskPaid, Spent, WithContext, Working
<1> QED
  BY <1>4, <1>5, <1>6

(* So do the others, in a step of w that touches only its own.             *)
LEMMA PaidElse ==
    ASSUME TasksInv, TasksInv', HeldBusy, QueuePaid, NEW w \in Tasks, Else(w), Credit' >= Credit,
           \A r \in Requests :
               \/ /\ storedRetries'[r] = storedRetries[r] /\ Spent(r)' = Spent(r)
                  /\ r \in busy' => r \in busy
               \/ r \in Held(w)
               \/ \A v \in Tasks : r \notin Held(v),
           NEW v \in Tasks, v # w
    PROVE  TaskPaid(v)'
<1>1. task'[v] = task[v]
  BY DEF Else
<1>2. \A r \in Requests : r \in Held(v) =>
          /\ storedRetries'[r] = storedRetries[r] /\ Spent(r)' = Spent(r)
          /\ r \in busy' => r \in busy
  BY DEF HeldBusy
<1> QED
  BY <1>1, <1>2, HeldPaid

(* A request that the step leaves alone.                                   *)
LEMMA PaidStill ==
    ASSUME TasksInv, TasksInv', QueuePaid, NEW r \in Requests, Credit' >= Credit,
           status'[r] = status[r], storedRetries'[r] = storedRetries[r], Spent(r)' = Spent(r),
           status[r] = "pending" /\ Paid(r)' => Paid(r) \/ Credit' >= Credit + 1
    PROVE  RequestPaid(r)'
<1>1. NumbersTyped /\ NumbersTyped'
  BY NumbersNow, PTL
<1>2. RequestPaid(r)
  BY DEF QueuePaid
<1>3. PICK s \in Nat, n \in Nat, k \in Int, m \in Int :
          /\ s = Spent(r) /\ n = storedRetries[r] /\ k = Credit /\ m = Credit'
  BY <1>1 DEF NumbersTyped
<1>4. s <= n + 1 + m
  BY <1>2, <1>3 DEF RequestPaid
<1>5. status[r] = "pending" /\ Paid(r)' => s <= n + m
  <2>1. ASSUME Paid(r), status[r] = "pending"
        PROVE  s <= n + m
    <3>1. s <= n + k
      BY <1>2, <1>3, <2>1 DEF RequestPaid
    <3> QED
      BY <1>3, <3>1
  <2>2. ASSUME m >= k + 1
        PROVE  s <= n + m
    <3>1. s <= n + 1 + k
      BY <1>2, <1>3 DEF RequestPaid
    <3> QED
      BY <1>3, <2>2, <3>1
  <2> QED
    BY <1>3, <2>1, <2>2
<1> QED
  BY <1>2, <1>3, <1>4, <1>5 DEF RequestPaid

(* A request becomes paid only by its task.                                *)
LEMMA PaidBefore ==
    ASSUME NEW w \in Tasks, Else(w), NEW r, Paid(r)', r \in busy => r \in busy',
           task[w].pc = "failed" => task'[w].pc = "failed",
           Attempting(w, r) /\ r \in busy => Attempting(w, r)' \/ task'[w].pc = "failed"
    PROVE  Paid(r)
<1> SUFFICES ASSUME r \in busy, NEW v \in Tasks
             PROVE  ~Attempting(v, r) /\ task[v].pc # "failed"
  BY DEF Paid
<1>1. ~Attempting(v, r)' /\ task'[v].pc # "failed" /\ task'[w].pc # "failed" /\ ~Attempting(w, r)'
  BY DEF Paid
<1>2. CASE v = w
  BY <1>1, <1>2
<1>3. CASE v # w
  BY <1>1, <1>3 DEF Else, Attempting
<1> QED
  BY <1>2, <1>3

(* Steps that neither give out nor take back anything.                     *)
LEMMA PaidQuiet ==
    ASSUME TasksInv, TasksInv', HeldBusy, QueuePaid, NEW w \in Tasks, Else(w), Credit' >= Credit,
           UNCHANGED <<status, busy, storedRetries>>,
           \A r \in Requests : Spent(r)' = Spent(r),
           task[w].pc = "failed" => task'[w].pc = "failed",
           \A r \in busy : Attempting(w, r) =>
               Attempting(w, r)' \/ task'[w].pc = "failed" \/ Credit' >= Credit + 1,
           TaskPaid(w)'
    PROVE  QueuePaid'
<1>1. \A r \in Requests : RequestPaid(r)'
  <2> SUFFICES ASSUME NEW r \in Requests
               PROVE  RequestPaid(r)'
    OBVIOUS
  <2>1. Paid(r)' => Paid(r) \/ Credit' >= Credit + 1
    BY PaidBefore
  <2> QED
    BY <2>1, PaidStill
<1>2. \A v \in Tasks : v # w => TaskPaid(v)'
  BY PaidElse
<1>3. Credit' \in Nat
  <2>1. NumbersTyped'
    BY NumbersNow, PTL
  <2>2. Credit' \in Int /\ Credit \in Nat
    BY <2>1 DEF NumbersTyped, QueuePaid
  <2> QED
    BY <2>2
<1> QED
  BY <1>1, <1>2, <1>3 DEF QueuePaid

(* A task that has nothing owes nothing.                                   *)
LEMMA LeftPaid ==
    ASSUME NEW w \in Tasks, task'[w].pc \in {"idle", "failed", "fetching"}
    PROVE  TaskPaid(w)' /\ \A r : ~Attempting(w, r)'
BY DEF TaskPaid, Attempting, WithContext, Working

(* A task that stays where it was, or is done with the handler.            *)
LEMMA StaysPaid ==
    ASSUME TasksInv, TasksInv', QueuePaid, NEW w \in Tasks, Credit' >= Credit,
           UNCHANGED <<busy, storedRetries>>, \A r \in Requests : Spent(r)' = Spent(r),
           task'[w].pc \in WithContext \cup {"fetched"},
           \/ Stays(w)
           \/ Turns(w, "marking") /\ task[w].pc = "handling"
    PROVE  TaskPaid(w)'
<1> SUFFICES ASSUME task'[w].source = "queue"
             PROVE  TaskPaid(w)'
  BY DEF TaskPaid
<1>1. /\ task[w].source = "queue" /\ task'[w].request = task[w].request
      /\ task'[w].context = task[w].context /\ task'[w].retryCount = task[w].retryCount
      /\ task'[w].pc = task[w].pc \/ (task'[w].pc = "marking" /\ task[w].pc = "handling")
      /\ TaskPaid(w)
  BY DEF Stays, Turns, SameJob, QueuePaid
<1>2. NumbersTyped /\ NumbersTyped'
  BY NumbersNow, PTL
<1>3. CASE task'[w].pc = "fetched"
  <2>1. ASSUME task[w].request # None
        PROVE  attempts'[<<"queue", task[w].request>>]
                   <= storedRetries'[task[w].request] + Credit'
    <3>1. PICK r \in Requests : r = task[w].request
      BY <2>1 DEF TasksInv, CrawlerInv, TasksTyped, TaskStates
    <3>2. Spent(r) <= storedRetries[r] + Credit
      BY <1>1, <1>3, <2>1, <3>1 DEF TaskPaid
    <3>3. Spent(r)' <= storedRetries'[r] + Credit'
      BY <1>2, <3>2 DEF NumbersTyped, Spent
    <3> QED
      BY <3>1, <3>3 DEF Spent
  <2> QED
    BY <1>1, <1>3, <2>1 DEF TaskPaid, Spent, WithContext, Working
<1>4. CASE task'[w].pc \in WithContext
  <2>1. PICK r \in Requests : r = task[w].context
    BY <1>1, <1>4 DEF TasksInv, CrawlerInv, TasksTyped, TaskStates, Places, TaskPlaced,
                      WithContext, Working
  <2>2. task[w].pc \in WithContext
    BY <1>1, <1>4 DEF WithContext, Working
  <2>3. storedRetries'[r] <= task[w].retryCount
    BY <1>1, <2>1, <2>2 DEF TaskPaid
  <2>4. ASSUME task[w].pc = "reclaiming"
        PROVE  Spent(r)' <= task[w].retryCount + Credit'
    <3>1. Spent(r) <= task[w].retryCount + Credit
      BY <1>1, <2>1, <2>4 DEF TaskPaid
    <3> QED
      BY <1>2, <3>1 DEF NumbersTyped, Spent
  <2>5. task[w].pc = "reporting" => r \notin busy'
    BY <1>1, <2>1 DEF TaskPaid
  <2> QED
    BY <1>1, <1>4, <2>1, <2>3, <2>4, <2>5 DEF TaskPaid, Spent, WithContext, Working
<1> QED
  BY <1>3, <1>4

(* A task that errs: what it may still attempt is one less.                *)
LEMMA ErredPaid ==
    ASSUME TasksInv, TasksInv', QueuePaid, NEW w \in Tasks, Erred(w),
           task[w].pc \in WithContext, Credit' >= Credit,
           \A r \in Requests : Spent(r)' = Spent(r),
           \A r \in Requests : storedRetries'[r] = storedRetries[r]
                               \/ storedRetries'[r] = task[w].retryCount
    PROVE  TaskPaid(w)'
<1> SUFFICES ASSUME task'[w].source = "queue"
             PROVE  TaskPaid(w)'
  BY DEF TaskPaid
<1>1. /\ task[w].source = "queue" /\ task'[w].context = task[w].context
      /\ TaskPaid(w)
  BY DEF Erred, SameJob, QueuePaid
<1>2. NumbersTyped /\ NumbersTyped'
  BY NumbersNow, PTL
<1>3. PICK r \in Requests : r = task[w].context
  BY DEF TasksInv, CrawlerInv, TasksTyped, TaskStates, Places, TaskPlaced
<1>4. RequestPaid(r)
  BY DEF QueuePaid
<1>5. PICK s \in Nat, n \in Nat, i \in Nat, k \in Int, m \in Int :
          /\ s = Spent(r) /\ n = storedRetries[r] /\ i = task[w].retryCount
          /\ k = Credit /\ m = Credit'
  BY <1>2 DEF NumbersTyped
<1>6. n <= i /\ s <= n + 1 + k /\ m >= k
  BY <1>1, <1>3, <1>4, <1>5 DEF TaskPaid, RequestPaid
<1>7. storedRetries'[r] <= i /\ s <= i + 1 + m
  BY <1>5, <1>6
<1>8. CASE task'[w].pc = "reclaiming" /\ task'[w].retryCount = task[w].retryCount + 1
  <2>1. /\ storedRetries'[r] <= task'[w].retryCount
        /\ s <= task'[w].retryCount + m
    BY <1>2, <1>5, <1>7, <1>8 DEF NumbersTyped
  <2>2. Spent(r)' <= task'[w].retryCount + Credit'
    BY <1>5, <2>1 DEF Spent
  <2> QED
    BY <1>1, <1>3, <1>8, <2>1, <2>2 DEF TaskPaid, Spent, WithContext, Working
<1>9. CASE task'[w].pc = "givingUp" /\ task'[w].retryCount = task[w].retryCount
  BY <1>1, <1>3, <1>5, <1>7, <1>9 DEF TaskPaid, WithContext, Working
<1> QED
  BY <1>8, <1>9 DEF Erred

(* What a call gives its task is paid for.                                 *)
LEMMA GavePaid ==
    ASSUME TasksInv, TasksInv', HeldBusy, QueuePaid, NEW w \in Tasks, NEW c \in Calls,
           NEW r \in Requests \cup {None}, Gave(w, c, r), chain[w][c].pc # "none",
           Credit' >= Credit, UNCHANGED storedRetries,
           \A x \in Requests : Spent(x)' = Spent(x),
           \/ r = None
           \/ c = "main" /\ ~hasQueue
           \/ Spent(r) <= storedRetries[r] + Credit,
           \A x \in busy' : x \in busy \/ status[x] = "pending"
    PROVE  TaskPaid(w)'
<1> SUFFICES ASSUME task'[w].source = "queue"
             PROVE  TaskPaid(w)'
  BY DEF TaskPaid
<1>1. /\ task[w].source = "queue" /\ task'[w].context = task[w].context
      /\ task'[w].retryCount = task[w].retryCount /\ TaskPaid(w)
  BY DEF Gave, QueuePaid
<1>2. NumbersTyped /\ NumbersTyped'
  BY NumbersNow, PTL
<1>3. ASSUME NEW x \in Requests, Spent(x) <= storedRetries[x] + Credit
      PROVE  Spent(x)' <= storedRetries'[x] + Credit'
  BY <1>2, <1>3 DEF NumbersTyped, Spent
<1>4. CASE task'[w].pc = "fetched"
  <2>1. ASSUME task'[w].request # None
        PROVE  /\ task'[w].request \in Requests
               /\ Spent(task'[w].request) <= storedRetries[task'[w].request] + Credit
    <3>1. CASE task'[w].request = r
      <4>1. ~(c = "main" /\ ~hasQueue)
        BY <1>1 DEF TasksInv, Places, CallsPlaced, TaskPlaced
      <4> QED
        BY <2>1, <3>1, <4>1
    <3>2. CASE task'[w].request = task[w].request /\ task[w].pc = "fetched"
      BY <1>1, <2>1, <3>2 DEF TaskPaid, TasksInv, CrawlerInv, TasksTyped, TaskStates
    <3> QED
      BY <1>4, <3>1, <3>2 DEF Gave, Calls
  <2>2. ASSUME task'[w].request # None
        PROVE  attempts'[<<"queue", task'[w].request>>]
                   <= storedRetries'[task'[w].request] + Credit'
    <3>1. PICK x \in Requests : x = task'[w].request
      BY <2>1, <2>2
    <3>2. Spent(x)' <= storedRetries'[x] + Credit'
      BY <1>3, <2>1, <2>2, <3>1
    <3> QED
      BY <3>1, <3>2 DEF Spent
  <2> QED
    BY <1>4, <2>2 DEF TaskPaid, Spent, WithContext, Working
<1>5. CASE task'[w].pc # "fetched"
  <2>1. c = "late" /\ task'[w].pc = task[w].pc
    BY <1>5 DEF Gave, Calls
  <2>2. CASE task[w].pc \in WithContext
    <3>1. PICK x \in Requests : x = task[w].context /\ x \in Held(w)
      BY <1>1, <2>2, HasHeld DEF Held
    <3>2. storedRetries'[x] <= task[w].retryCount
      BY <1>1, <2>2, <3>1 DEF TaskPaid
    <3>3. ASSUME task[w].pc = "reclaiming"
          PROVE  Spent(x)' <= task[w].retryCount + Credit'
      <4>1. Spent(x) <= task[w].retryCount + Credit
        BY <1>1, <3>1, <3>3 DEF TaskPaid
      <4> QED
        BY <1>2, <4>1 DEF NumbersTyped, Spent
    <3>4. task[w].pc = "reporting" => x \notin busy'
      BY <1>1, <3>1 DEF TaskPaid, HeldBusy, HeldKept
    <3> QED
      BY <1>1, <1>5, <2>1, <2>2, <3>1, <3>2, <3>3, <3>4 DEF TaskPaid, Spent, WithContext, Working
  <2>3. CASE task[w].pc \notin WithContext
    BY <1>5, <2>1, <2>3 DEF TaskPaid, WithContext, Working
  <2> QED
    BY <2>2, <2>3
<1> QED
  BY <1>4, <1>5

(* The task itself stays as it is.                                         *)
LEMMA SamePaid ==
    ASSUME TasksInv, TasksInv', QueuePaid, NEW w \in Tasks, Credit' >= Credit,
           UNCHANGED <<busy, storedRetries>>, \A r \in Requests : Spent(r)' = Spent(r),
           Stays(w)
    PROVE  /\ TaskPaid(w)'
           /\ \A r : Attempting(w, r) => Attempting(w, r)'
           /\ task'[w].pc = task[w].pc
<1>1. task'[w].pc = task[w].pc /\ \A r : Attempting(w, r) => Attempting(w, r)'
  BY DEF Stays, SameJob, Attempting
<1>2. task[w].pc \in WithContext \cup {"idle", "failed", "fetching", "fetched"}
  BY DEF TasksInv, CrawlerInv, TasksTyped, TaskStates, WithContext, Working
<1> QED
  BY <1>1, <1>2, StaysPaid, LeftPaid

(* An answer that takes away its request from a task comes with credit.    *)
LEMMA GaveAttempts ==
    ASSUME TasksInv, NEW w \in Tasks, NEW c \in Calls, NEW r, Gave(w, c, r),
           chain[w][c].pc # "none", Credited(w), lates' = lates
    PROVE  /\ \A x : Attempting(w, x) => Attempting(w, x)' \/ Credit' >= Credit + 1
           /\ task[w].pc = "failed" => task'[w].pc = "failed"
<1>1. CASE c = "main"
  <2>1. task[w].pc = "fetching"
    BY <1>1 DEF TasksInv, Places, CallsPlaced
  <2> QED
    BY <2>1 DEF Attempting, WithContext, Working
<1>2. CASE c = "late" /\ ~chain[w][c].mine
  BY <1>2 DEF Gave, Attempting
<1>3. CASE c = "late" /\ chain[w][c].mine
  <2>1. ~chain'[w]["late"].mine
    BY <1>3 DEF Gave, Over, NoChain
  <2>2. Credit' >= Credit + 1
    BY <1>3, <2>1 DEF Credited
  <2> QED
    BY <1>3, <2>2 DEF Gave
<1> QED
  BY <1>1, <1>2, <1>3 DEF Calls

(* A request that comes into the queue was never attempted.                *)
LEMMA AddsPaid ==
    ASSUME TasksInv, TasksInv', HeldBusy, QueuePaid, NEW w \in Tasks, Else(w), Credit' >= Credit,
           task'[w] = task[w], UNCHANGED busy, \A r \in Requests : Spent(r)' = Spent(r),
           \A r \in Requests : \/ status'[r] = status[r] /\ storedRetries'[r] = storedRetries[r]
                               \/ status[r] = "absent" /\ status'[r] = "pending"
    PROVE  QueuePaid'
<1>1. NumbersTyped /\ NumbersTyped'
  BY NumbersNow, PTL
<1>2. Credit' \in Nat
  BY <1>1 DEF NumbersTyped, QueuePaid
<1>3. ASSUME NEW r \in Requests
      PROVE  RequestPaid(r)'
  <2>1. CASE status[r] = "absent" /\ status'[r] = "pending"
    <3>1. Spent(r)' = 0 /\ storedRetries'[r] \in Nat
      BY <1>1, <2>1 DEF QueuePaid, RequestPaid, NumbersTyped
    <3> QED
      BY <1>2, <2>1, <3>1 DEF RequestPaid
  <2>2. CASE status'[r] = status[r] /\ storedRetries'[r] = storedRetries[r]
    <3>1. Paid(r)' => Paid(r)
      BY PaidBefore DEF Attempting
    <3> QED
      BY <2>2, <3>1, PaidStill
  <2> QED
    BY <2>1, <2>2
<1>4. ASSUME NEW v \in Tasks
      PROVE  TaskPaid(v)'
  <2>1. task'[v] = task[v]
    BY DEF Else
  <2>2. \A r \in Requests : r \in Held(v) => status[r] # "absent"
    BY DEF HeldBusy, HeldKept
  <2> QED
    BY <2>1, <2>2, HeldPaid
<1> QED
  BY <1>2, <1>3, <1>4 DEF QueuePaid

(* What the queue gives out was not given out before.                      *)
LEMMA TakePaid ==
    ASSUME TasksInv, TasksInv', HeldBusy, QueuePaid, NEW w \in Tasks, NEW c \in Calls,
           NEW r \in Requests, Take(w, c, r), Credited(w), lates' = lates
    PROVE  QueuePaid'
<1>t. TasksTyped
  BY DEF TasksInv, CrawlerInv
<1>1. /\ status[r] = "pending" /\ r \notin busy /\ busy' = busy \cup {r}
      /\ UNCHANGED <<status, storedRetries, attempts>>
      /\ Returns(w, c, r) /\ chain[w][c].pc # "none" /\ Credit' >= Credit
  BY DEF Take, Available, historyVars, Credited
<1>2. Else(w) /\ Gave(w, c, r)
  BY <1>t, <1>1, ReturnsPlain
<1>3. NumbersTyped /\ NumbersTyped'
  BY NumbersNow, PTL
<1>4. \A x \in Requests : Spent(x)' = Spent(x)
  BY <1>1 DEF Spent
<1>5. Spent(r) <= storedRetries[r] + Credit
  BY <1>1 DEF QueuePaid, RequestPaid, Paid
<1>6. \A x \in busy' : x \in busy \/ status[x] = "pending"
  BY <1>1
<1>7. TaskPaid(w)'
  BY <1>1, <1>2, <1>4, <1>5, <1>6, GavePaid
<1>8. ASSUME NEW x \in Requests
      PROVE  RequestPaid(x)'
  <2>1. Paid(x)' => Paid(x) \/ Credit' >= Credit + 1
    <3>1. x \in busy => x \in busy'
      BY <1>1
    <3>2. /\ Attempting(w, x) => Attempting(w, x)' \/ Credit' >= Credit + 1
          /\ task[w].pc = "failed" => task'[w].pc = "failed"
      BY <1>1, <1>2, GaveAttempts
    <3> QED
      BY <1>2, <3>1, <3>2, PaidBefore
  <2> QED
    BY <1>1, <1>4, <2>1, PaidStill
<1>9. \A v \in Tasks : r \notin Held(v)
  BY <1>1 DEF HeldBusy, HeldKept
<1>10. ASSUME NEW v \in Tasks, v # w
       PROVE  TaskPaid(v)'
  <2>1. \A x \in Requests :
            \/ /\ storedRetries'[x] = storedRetries[x] /\ Spent(x)' = Spent(x)
               /\ x \in busy' => x \in busy
            \/ x \in Held(w)
            \/ \A u \in Tasks : x \notin Held(u)
    BY <1>1, <1>4, <1>9
  <2> QED
    BY <1>1, <1>2, <1>10, <2>1, PaidElse
<1>11. Credit' \in Nat
  BY <1>1, <1>3 DEF NumbersTyped, QueuePaid
<1> QED
  BY <1>7, <1>8, <1>10, <1>11 DEF QueuePaid

(* A step of a call keeps the account.                                     *)
LEMMA FetchPaid ==
    ASSUME TasksInv, TasksInv', HeldBusy, QueuePaid, NEW w \in Tasks, NEW c \in Calls,
           FetchSteps(w, c)
    PROVE  QueuePaid'
<1>t. TasksTyped /\ Kept /\ Places
  BY DEF TasksInv, CrawlerInv
<1>c. chain[w][c].item \in Requests \cup {None}
  BY <1>t DEF TasksTyped, ChainStates
<1>k. Credited(w) /\ lates' = lates /\ Credit' >= Credit
  BY FetchCredits DEF Credited
<1>s. \A r \in Requests : Spent(r)' = Spent(r)
  <2>1. UNCHANGED attempts
    BY DEF FetchSteps, ListAnswered, AddReaches, AddReturns, AddFails, TakeNothing, Take, FetchFails,
           historyVars
  <2> QED
    BY <2>1 DEF Spent
<1>1. ASSUME NEW place, Goes(w, c, place), UNCHANGED <<status, busy, storedRetries>>
      PROVE  QueuePaid'
  <2>1. Else(w) /\ Stays(w)
    BY <1>t, <1>1, GoesPlain DEF Went, Stays, SameJob
  <2>2. /\ TaskPaid(w)'
        /\ \A r : Attempting(w, r) => Attempting(w, r)'
        /\ task'[w].pc = task[w].pc
    BY <1>1, <1>k, <1>s, <2>1, SamePaid
  <2> QED
    BY <1>1, <1>k, <1>s, <2>1, <2>2, PaidQuiet
<1>2. ASSUME NEW r \in Requests \cup {None}, Returns(w, c, r), chain[w][c].pc # "none",
             UNCHANGED <<status, busy, storedRetries>>,
             r = None \/ (c = "main" /\ ~hasQueue)
      PROVE  QueuePaid'
  <2>1. Else(w) /\ Gave(w, c, r)
    BY <1>t, <1>2, ReturnsPlain
  <2>2. TaskPaid(w)'
    BY <1>2, <1>k, <1>s, <2>1, GavePaid
  <2>3. /\ \A x : Attempting(w, x) => Attempting(w, x)' \/ Credit' >= Credit + 1
        /\ task[w].pc = "failed" => task'[w].pc = "failed"
    BY <1>2, <1>k, <2>1, GaveAttempts
  <2> QED
    BY <1>2, <1>k, <1>s, <2>1, <2>2, <2>3, PaidQuiet
<1>3. CASE ListAnswered(w, c)
  <2>1. UNCHANGED <<status, busy, storedRetries>> /\ chain[w][c].pc = "listed"
    BY <1>3 DEF ListAnswered, queueVars
  <2>2. c = "main"
    BY <1>t, <2>1 DEF Kept, FetchesKept, Calls
  <2>3. CASE ~hasQueue /\ Returns(w, c, chain[w][c].item)
    BY <1>c, <1>2, <2>1, <2>2, <2>3
  <2>4. CASE \E place : Goes(w, c, place)
    BY <1>1, <2>1, <2>4
  <2> QED
    BY <1>3, <2>3, <2>4 DEF ListAnswered
<1>4. CASE AddReturns(w, c)
  BY <1>1, <1>4 DEF AddReturns, queueVars
<1>5. CASE AddFails(w, c) \/ TakeNothing(w, c)
  <2>1. Returns(w, c, None) /\ UNCHANGED <<status, busy, storedRetries>> /\ chain[w][c].pc # "none"
    BY <1>5 DEF AddFails, TakeNothing, queueVars
  <2> QED
    BY <1>2, <2>1
<1>6. CASE AddReaches(w, c)
  <2>1. PICK r : r = chain[w][c].item
    OBVIOUS
  <2>2. AddTo(r) /\ Goes(w, c, "added")
    BY <1>6, <2>1 DEF AddReaches
  <2>3. \A x \in Requests : \/ status'[x] = status[x] /\ storedRetries'[x] = storedRetries[x]
                            \/ status[x] = "absent" /\ status'[x] = "pending"
    BY <1>t, <2>2 DEF AddTo, TasksTyped
  <2>4. Else(w) /\ task'[w] = task[w]
    BY <1>t, <2>2, GoesPlain DEF Went
  <2> QED
    BY <1>k, <1>s, <2>2, <2>3, <2>4, AddsPaid DEF AddTo
<1>7. CASE \E r \in Requests : Take(w, c, r)
  BY <1>7, <1>k, TakePaid
<1>8. CASE FetchFails(w, c)
  <2>1. UNCHANGED <<status, busy, storedRetries>> /\ Else(w)
    BY <1>8, <1>t, FailsPlain DEF FetchFails, queueVars
  <2>2. CASE c = "main" /\ Again(w, chain[w]["late"])
    <3>1. task[w].pc = "fetching"
      BY <1>8, <1>t, <2>2 DEF FetchFails, Places, CallsPlaced
    <3>2. task'[w].pc \in {"fetching", "failed"}
      BY <2>2, <3>1 DEF Again, Stays
    <3>3. \A r : ~Attempting(w, r)
      BY <3>1 DEF Attempting, WithContext, Working
    <3> QED
      BY <1>k, <1>s, <2>1, <3>1, <3>2, <3>3, LeftPaid, PaidQuiet
  <2>3. CASE UNCHANGED task
    <3>1. Stays(w)
      BY <2>3 DEF Stays, SameJob
    <3>2. /\ TaskPaid(w)'
          /\ \A r : Attempting(w, r) => Attempting(w, r)'
          /\ task'[w].pc = task[w].pc
      BY <1>k, <1>s, <2>1, <3>1, SamePaid
    <3> QED
      BY <1>k, <1>s, <2>1, <3>2, PaidQuiet
  <2> QED
    BY <1>8, <1>t, <2>2, <2>3, FailsPlain
<1> QED
  BY <1>3, <1>4, <1>5, <1>6, <1>7, <1>8 DEF FetchSteps

-----------------------------------------------------------------------------
(* Steps of a task that change nothing in the queue.                       *)
LEMMA MovesPaid ==
    ASSUME TasksInv, TasksInv', HeldBusy, QueuePaid, NEW w \in Tasks, Else(w), Credit' >= Credit,
           UNCHANGED <<status, busy, storedRetries>>,
           \A r \in Requests : Spent(r)' = Spent(r),
           \/ Left(w) /\ task[w].pc # "failed" /\ \A r \in busy : ~Attempting(w, r)
           \/ Died(w)
           \/ Stays(w)
           \/ Erred(w) /\ task[w].pc \in WithContext
           \/ Turns(w, "marking") /\ task[w].pc = "handling"
    PROVE  QueuePaid'
<1>1. CASE Left(w) /\ task[w].pc # "failed" /\ \A r \in busy : ~Attempting(w, r)
  <2>1. task'[w].pc \in {"idle", "failed"}
    BY <1>1 DEF Left
  <2> QED
    BY <1>1, <2>1, LeftPaid, PaidQuiet
<1>2. CASE Died(w)
  <2>1. task'[w].pc = "failed"
    BY <1>2 DEF Died
  <2> QED
    BY <2>1, LeftPaid, PaidQuiet
<1>3. CASE Stays(w)
  BY <1>3, SamePaid, PaidQuiet
<1>4. CASE Erred(w) /\ task[w].pc \in WithContext
  <2>1. TaskPaid(w)'
    BY <1>4, ErredPaid
  <2>2. task[w].pc # "failed" /\ \A r : Attempting(w, r) => Attempting(w, r)'
    BY <1>4 DEF Erred, SameJob, Attempting, WithContext, Working
  <2> QED
    BY <2>1, <2>2, PaidQuiet
<1>5. CASE Turns(w, "marking") /\ task[w].pc = "handling"
  <2>1. task'[w].pc \in WithContext
    BY <1>5 DEF Turns, WithContext, Working
  <2>2. TaskPaid(w)'
    BY <1>5, <2>1, StaysPaid
  <2>3. task[w].pc # "failed" /\ \A r : Attempting(w, r) => Attempting(w, r)'
    BY <1>5 DEF Turns, SameJob, Attempting, WithContext, Working
  <2> QED
    BY <2>2, <2>3, PaidQuiet
<1> QED
  BY <1>1, <1>2, <1>3, <1>4, <1>5

(* An attempt is what was paid for.                                        *)
LEMMA HandlesPaid ==
    ASSUME TasksInv, TasksInv', HeldBusy, QueuePaid, NEW w \in Tasks, Else(w), Handles(w),
           task[w].pc = "fetched", Credit' >= Credit, UNCHANGED <<status, busy, storedRetries>>
    PROVE  QueuePaid'
<1>1. NumbersTyped /\ NumbersTyped'
  BY NumbersNow, PTL
<1>2. TasksTyped /\ CountsTyped /\ task[w].source \in Sources /\ task[w].fromList \in BOOLEAN
  BY DEF TasksInv, CrawlerInv, TasksTyped, TaskStates
<1>3. PICK r \in Requests : r = task[w].request
  BY DEF Handles
<1>4. /\ task'[w].pc = "handling" /\ task'[w].source = task[w].source
      /\ task'[w].request = r /\ task'[w].context = r
      /\ attempts' = [attempts EXCEPT ![<<Kind(task[w]), r>>] = @ + 1]
  BY <1>3 DEF Handles
<1>5. task[w].source = "queue" <=> Kind(task[w]) = "queue"
  <2>1. task[w].source = "queue" => ~task[w].fromList
    BY DEF TasksInv, Places, TaskPlaced, Working
  <2> QED
    BY <1>2, <2>1 DEF Kind, Sources
<1>6. \A x \in Requests : ~(x = r /\ task[w].source = "queue") => Spent(x)' = Spent(x)
  BY <1>2, <1>4, <1>5 DEF Spent, CountsTyped, Kinds, Sources
<1>7. \A x : ~Attempting(w, x)
  BY DEF Attempting, WithContext, Working
<1>8. CASE task[w].source = "queue"
  <2>1. Spent(r)' = Spent(r) + 1
    BY <1>2, <1>4, <1>5, <1>8 DEF Spent, CountsTyped, Kinds, Sources
  <2>2. r \in Held(w) /\ r \in busy
    BY <1>3, <1>8, HasHeld, CrawlerAssumption DEF HeldBusy, HeldKept
  <2>3. Spent(r) <= storedRetries[r] + Credit /\ RequestPaid(r) /\ status[r] # "absent"
    BY <1>3, <1>8, <2>2, CrawlerAssumption DEF QueuePaid, TaskPaid, HeldBusy
  <2>4. RequestPaid(r)'
    <3>1. PICK s \in Nat, n \in Nat, k \in Int, m \in Int :
              /\ s = Spent(r) /\ n = storedRetries[r] /\ k = Credit /\ m = Credit'
      BY <1>1 DEF NumbersTyped
    <3>2. s + 1 <= n + 1 + m
      BY <2>3, <3>1
    <3>3. ~Paid(r)'
      BY <1>4, <1>8, <2>2 DEF Paid, Attempting, WithContext, Working
    <3>4. Spent(r)' <= storedRetries'[r] + 1 + Credit'
      BY <2>1, <3>1, <3>2
    <3> QED
      BY <2>3, <3>3, <3>4 DEF RequestPaid
  <2>5. ASSUME NEW x \in Requests, x # r
        PROVE  RequestPaid(x)'
    <3>1. Paid(x)' => Paid(x)
      BY <1>7, PaidBefore
    <3> QED
      BY <1>6, <2>5, <3>1, PaidStill
  <2>6. TaskPaid(w)'
    <3>1. ~task[w].fromList /\ task'[w].retryCount = storedRetries[r]
      BY <1>2, <1>3, <1>5, <1>8 DEF Handles, Kind
    <3>2. storedRetries'[r] <= task'[w].retryCount
      BY <1>1, <3>1 DEF NumbersTyped
    <3> QED
      BY <1>4, <3>2 DEF TaskPaid
  <2>7. ASSUME NEW v \in Tasks, v # w
        PROVE  TaskPaid(v)'
    <3>1. \A x \in Requests :
              \/ /\ storedRetries'[x] = storedRetries[x] /\ Spent(x)' = Spent(x)
                 /\ x \in busy' => x \in busy
              \/ x \in Held(w)
              \/ \A u \in Tasks : x \notin Held(u)
      BY <1>6, <2>2
    <3> QED
      BY <2>7, <3>1, PaidElse
  <2>8. Credit' \in Nat
    BY <1>1 DEF NumbersTyped, QueuePaid
  <2> QED
    BY <2>4, <2>5, <2>6, <2>7, <2>8 DEF QueuePaid
<1>9. CASE task[w].source # "queue"
  <2>1. TaskPaid(w)'
    BY <1>4, <1>9 DEF TaskPaid
  <2> QED
    BY <1>6, <1>7, <1>9, <2>1, PaidQuiet
<1> QED
  BY <1>8, <1>9

-----------------------------------------------------------------------------
(* A step that writes, of the queue, one request that the task has.        *)
LEMMA WritesPaid ==
    ASSUME TasksInv, TasksInv', HeldBusy, QueuePaid, NEW w \in Tasks, Else(w), Credit' >= Credit,
           NEW r \in Requests, r \in Held(w), \A x : Attempting(w, x) => x = r,
           \A x \in Requests : Spent(x)' = Spent(x),
           \A x \in Requests : x # r => /\ status'[x] = status[x]
                                        /\ storedRetries'[x] = storedRetries[x]
                                        /\ x \in busy <=> x \in busy',
           RequestPaid(r)', TaskPaid(w)'
    PROVE  QueuePaid'
<1>1. ASSUME NEW x \in Requests, x # r
      PROVE  RequestPaid(x)'
  <2>1. task[w].pc # "failed"
    BY DEF Held, Working
  <2>2. Paid(x)' => Paid(x)
    BY <1>1, <2>1, PaidBefore
  <2> QED
    BY <1>1, <2>2, PaidStill
<1>2. ASSUME NEW v \in Tasks, v # w
      PROVE  TaskPaid(v)'
  <2>1. \A x \in Requests :
            \/ /\ storedRetries'[x] = storedRetries[x] /\ Spent(x)' = Spent(x)
               /\ x \in busy' => x \in busy
            \/ x \in Held(w)
            \/ \A u \in Tasks : x \notin Held(u)
    OBVIOUS
  <2> QED
    BY <1>2, <2>1, PaidElse
<1>3. Credit' \in Nat
  <2>1. NumbersTyped'
    BY NumbersNow, PTL
  <2> QED
    BY <2>1 DEF NumbersTyped, QueuePaid
<1> QED
  BY <1>1, <1>2, <1>3 DEF QueuePaid

(* What is handled may have been attempted once more than is counted.      *)
LEMMA HandledPaid ==
    ASSUME TasksInv, TasksInv', QueuePaid, Credit' >= Credit, NEW r \in Requests,
           Spent(r)' = Spent(r), status'[r] = "handled", storedRetries'[r] >= storedRetries[r]
    PROVE  RequestPaid(r)'
<1>1. NumbersTyped /\ NumbersTyped'
  BY NumbersNow, PTL
<1>2. PICK s \in Nat, n \in Nat, m \in Nat, k \in Int, l \in Int :
          /\ s = Spent(r) /\ n = storedRetries[r] /\ m = storedRetries'[r]
          /\ k = Credit /\ l = Credit'
  BY <1>1 DEF NumbersTyped
<1>3. s <= n + 1 + k
  BY <1>2 DEF QueuePaid, RequestPaid
<1>4. s <= m + 1 + l
  BY <1>2, <1>3
<1> QED
  BY <1>2, <1>4 DEF RequestPaid

(* What is reclaimed has room for one attempt more.                        *)
LEMMA ReclaimedPaid ==
    ASSUME TasksInv, TasksInv', QueuePaid, Credit' >= Credit, NEW w \in Tasks, NEW r \in Requests,
           r = task[w].context, task[w].pc = "reclaiming", task[w].source = "queue",
           Spent(r)' = Spent(r), status'[r] = "pending", storedRetries'[r] = task[w].retryCount
    PROVE  RequestPaid(r)'
<1>1. NumbersTyped /\ NumbersTyped'
  BY NumbersNow, PTL
<1>2. PICK s \in Nat, m \in Nat, k \in Int, l \in Int :
          /\ s = Spent(r) /\ m = task[w].retryCount /\ k = Credit /\ l = Credit'
  BY <1>1 DEF NumbersTyped
<1>3. s <= m + k
  BY <1>2 DEF QueuePaid, TaskPaid
<1>4. s <= m + l /\ s <= m + 1 + l
  BY <1>2, <1>3
<1> QED
  BY <1>2, <1>4 DEF RequestPaid

(* The task marks or reclaims a request, and that returns.                 *)
LEMMA DonePaid ==
    ASSUME TasksInv, TasksInv', HeldBusy, QueuePaid, NEW w \in Tasks, Else(w), Credit' >= Credit,
           NEW r \in Requests, UNCHANGED attempts,
           \/ r = task[w].request /\ task[w].pc = "marking" /\ SourceMarks(w, r)
           \/ r = task[w].context /\ task[w].pc = "givingUp" /\ SourceMarks(w, r)
           \/ r = task[w].context /\ task[w].pc = "reclaiming" /\ SourceReclaims(w, r),
           \/ Left(w)
           \/ Turns(w, "reporting") /\ r = task[w].context /\ SourceMarks(w, r)
    PROVE  QueuePaid'
<1>t. TasksTyped /\ Places
  BY DEF TasksInv, CrawlerInv
<1>s. \A x \in Requests : Spent(x)' = Spent(x)
  BY DEF Spent
<1>w. task[w].pc \in WithContext /\ task[w].pc \in Working
  BY DEF WithContext, Working
<1>n. NumbersTyped /\ NumbersTyped'
  BY NumbersNow, PTL
<1>a. \A x : Attempting(w, x) => x = r
  BY DEF Attempting
<1>1. CASE task[w].source = "list"
  <2>1. UNCHANGED <<status, busy, storedRetries>> /\ \A x : ~Attempting(w, x)
    BY <1>1 DEF SourceMarks, SourceReclaims, queueVars, Attempting
  <2>2. TaskPaid(w)'
    <3>1. CASE Left(w)
      BY <3>1, LeftPaid DEF Left
    <3>2. CASE Turns(w, "reporting")
      BY <1>1, <3>2 DEF Turns, SameJob, TaskPaid
    <3> QED
      BY <3>1, <3>2
  <2> QED
    BY <1>s, <1>w, <2>1, <2>2, PaidQuiet DEF WithContext, Working
<1>2. CASE task[w].source = "queue"
  <2>1. r \in Held(w)
    BY <1>t, <1>2, <1>w DEF Held, Places, TaskPlaced
  <2>2. /\ busy' = busy \ {r}
        /\ \A x \in Requests : x # r => /\ status'[x] = status[x]
                                        /\ storedRetries'[x] = storedRetries[x]
                                        /\ x \in busy <=> x \in busy'
    BY <1>t, <1>2 DEF SourceMarks, SourceReclaims, TasksTyped
  <2>3. RequestPaid(r)'
    <3>1. CASE r \notin busy
      <4>1. status'[r] = status[r] /\ storedRetries'[r] = storedRetries[r] /\ status[r] = "handled"
        BY <1>2, <2>1, <3>1 DEF SourceMarks, SourceReclaims, HeldBusy, HeldKept
      <4>2. storedRetries[r] \in Nat
        BY <1>n DEF NumbersTyped
      <4> QED
        BY <1>s, <4>1, <4>2, HandledPaid
    <3>2. CASE r \in busy /\ SourceMarks(w, r)
      <4>1. status'[r] = "handled" /\ storedRetries'[r] = storedRetries[r]
        BY <1>t, <1>2, <3>2 DEF SourceMarks, TasksTyped
      <4>2. storedRetries[r] \in Nat
        BY <1>n DEF NumbersTyped
      <4> QED
        BY <1>s, <4>1, <4>2, HandledPaid
    <3>3. CASE r \in busy /\ SourceReclaims(w, r) /\ r = task[w].context /\ task[w].pc = "reclaiming"
      <4>1. status'[r] = "pending" /\ storedRetries'[r] = task[w].retryCount
        BY <1>t, <1>2, <3>3 DEF SourceReclaims, TasksTyped
      <4> QED
        BY <1>2, <1>s, <3>3, <4>1, ReclaimedPaid
    <3> QED
      BY <3>1, <3>2, <3>3
  <2>4. TaskPaid(w)'
    <3>1. CASE Left(w)
      BY <3>1, LeftPaid DEF Left
    <3>2. CASE Turns(w, "reporting") /\ r = task[w].context /\ SourceMarks(w, r)
      <4>1. /\ task'[w].pc = "reporting" /\ task'[w].context = r
            /\ task'[w].retryCount = task[w].retryCount
        BY <3>2 DEF Turns, SameJob
      <4>2. storedRetries[r] <= task[w].retryCount
        BY <1>2, <1>w, <3>2 DEF QueuePaid, TaskPaid
      <4>3. storedRetries' = storedRetries
        BY <1>2, <3>2 DEF SourceMarks
      <4> QED
        BY <2>2, <4>1, <4>2, <4>3 DEF TaskPaid
    <3> QED
      BY <3>1, <3>2
  <2> QED
    BY <1>a, <1>s, <2>1, <2>2, <2>3, <2>4, WritesPaid
<1> QED
  BY <1>t, <1>1, <1>2 DEF TasksTyped, TaskStates, Sources

(* The call fails, and may have written what it was to write.              *)
LEMMA ThrowsPaid ==
    ASSUME TasksInv, TasksInv', HeldBusy, QueuePaid, NEW w \in Tasks, Else(w), Credit' >= Credit,
           UNCHANGED attempts, NEW r, NEW new, SourceThrows(w, r, new),
           \/ r = task[w].request /\ task[w].pc = "marking" /\ new = "handled"
           \/ r = task[w].context /\ task[w].pc = "givingUp" /\ new = "handled"
           \/ r = task[w].context /\ task[w].pc = "reclaiming" /\ new = "pending",
           Erred(w) \/ Died(w) \/ Stays(w)
    PROVE  QueuePaid'
<1>t. TasksTyped /\ CountsTyped /\ Places
  BY DEF TasksInv, CrawlerInv
<1>s. \A x \in Requests : Spent(x)' = Spent(x)
  BY DEF Spent
<1>w. task[w].pc \in WithContext /\ task[w].pc \in Working
  BY DEF WithContext, Working
<1>n. NumbersTyped /\ NumbersTyped'
  BY NumbersNow, PTL
<1>1. CASE UNCHANGED <<status, busy, storedRetries>>
  BY <1>1, <1>s, <1>w, MovesPaid
<1>2. CASE /\ task[w].source = "queue" /\ r \in busy /\ UNCHANGED busy
           /\ status' = [status EXCEPT ![r] = new]
           /\ storedRetries' = [storedRetries EXCEPT
                  ![r] = IF r = task[w].context THEN task[w].retryCount ELSE @]
  <2>r. r \in Requests
    BY <1>t, <1>2 DEF CountsTyped
  <2>1. r \in Held(w)
    BY <1>t, <1>2, <1>w, <2>r DEF Held, Places, TaskPlaced
  <2>2. /\ status'[r] = new
        /\ storedRetries'[r] = IF r = task[w].context THEN task[w].retryCount ELSE storedRetries[r]
        /\ \A x \in Requests : x # r => /\ status'[x] = status[x]
                                        /\ storedRetries'[x] = storedRetries[x]
                                        /\ x \in busy <=> x \in busy'
    BY <1>t, <1>2, <2>r DEF TasksTyped
  <2>3. PICK c \in Requests : c = task[w].context
    BY <1>w, ContextIsRequest
  <2>4. TaskPaid(w) /\ storedRetries[c] <= task[w].retryCount
    BY <1>2, <1>w, <2>3 DEF QueuePaid, TaskPaid
  <2>5. RequestPaid(r)'
    <3>1. CASE new = "handled"
      <4>1. storedRetries'[r] >= storedRetries[r]
        BY <1>n, <2>r, <2>2, <2>3, <2>4 DEF NumbersTyped
      <4> QED
        BY <1>s, <2>r, <2>2, <3>1, <4>1, HandledPaid
    <3>2. CASE r = task[w].context /\ task[w].pc = "reclaiming" /\ new = "pending"
      BY <1>2, <1>s, <2>r, <2>2, <3>2, ReclaimedPaid
    <3> QED
      BY <3>1, <3>2
  <2>6. \A x \in Requests : storedRetries'[x] = storedRetries[x]
                            \/ storedRetries'[x] = task[w].retryCount
    BY <2>2
  <2>7. TaskPaid(w)'
    <3>1. CASE Erred(w)
      BY <1>s, <1>w, <2>6, <3>1, ErredPaid
    <3>2. CASE Died(w)
      BY <3>2, LeftPaid DEF Died
    <3>3. CASE Stays(w)
      <4>1. /\ task'[w].pc = task[w].pc /\ task'[w].context = c
            /\ task'[w].retryCount = task[w].retryCount
        BY <2>3, <3>3 DEF Stays, SameJob
      <4>2. storedRetries'[c] <= task[w].retryCount
        BY <1>n, <2>4, <2>6 DEF NumbersTyped
      <4>3. ASSUME task[w].pc = "reclaiming"
            PROVE  Spent(c)' <= task[w].retryCount + Credit'
        <5>1. Spent(c) <= task[w].retryCount + Credit
          BY <1>2, <2>3, <2>4, <4>3 DEF TaskPaid
        <5> QED
          BY <1>n, <1>s, <5>1 DEF NumbersTyped
      <4> QED
        BY <1>w, <4>1, <4>2, <4>3 DEF TaskPaid, Spent
    <3> QED
      BY <3>1, <3>2, <3>3
  <2>8. \A x : Attempting(w, x) => x = r
    BY DEF Attempting
  <2> QED
    BY <1>s, <2>r, <2>1, <2>2, <2>5, <2>7, <2>8, WritesPaid
<1> QED
  BY <1>1, <1>2 DEF SourceThrows, queueVars

(* A step of a task keeps the account.                                     *)
LEMMA TaskStepPaid ==
    ASSUME TasksInv, TasksInv', HeldBusy, QueuePaid, NEW w \in Tasks, TaskSteps(w)
    PROVE  QueuePaid'
<1>t. TasksTyped /\ CountsTyped /\ Places
  BY DEF TasksInv, CrawlerInv
<1>n. handledRequestsCount \in Nat
  BY <1>t DEF CountsTyped
<1>k. Credit' >= Credit
  BY TaskCredits DEF Credited
<1>a. ~StartJob(w) => UNCHANGED attempts
  <2>1. CASE StartTask(w) \/ FetchTimesOut(w) \/ SessionFails(w) \/ HandlerReturns(w)
    BY <2>1 DEF StartTask, FetchTimesOut, SessionFails, HandlerReturns, historyVars
  <2>2. CASE (\E r \in Linked : HandlerAdds(w, r)) \/ (\E b \in BOOLEAN : HandlerThrows(w, b))
             \/ MarkReturns(w) \/ MarkThrows(w)
    BY <2>2 DEF HandlerAdds, HandlerThrows, MarkReturns, MarkThrows, historyVars
  <2>3. CASE ReclaimReturns(w) \/ GiveUpReturns(w) \/ SourceFailsError(w)
    BY <2>3 DEF ReclaimReturns, GiveUpReturns, SourceFailsError, historyVars
  <2>4. CASE FailureReported(w) \/ ReportFails(w)
    BY <2>4 DEF FailureReported, ReportFails, historyVars
  <2> QED
    BY <2>1, <2>2, <2>3, <2>4 DEF TaskSteps
<1>s. ~StartJob(w) => \A r \in Requests : Spent(r)' = Spent(r)
  BY <1>a DEF Spent
<1>1. CASE (StartTask(w) \/ FetchTimesOut(w)) /\ ~StartJob(w)
  <2>1. UNCHANGED <<status, busy, storedRetries>>
    BY <1>1 DEF StartTask, FetchTimesOut, queueVars
  <2>2. /\ Else(w) /\ task'[w].pc \in {"fetching", "failed"}
        /\ task[w].pc \in {"idle", "fetching"}
    <3>1. CASE StartTask(w)
      BY <1>t, <3>1, StartPlain DEF Began
    <3>2. CASE FetchTimesOut(w)
      <4>1. task[w].pc = "fetching"
        BY <1>t, <3>2 DEF FetchTimesOut, Places, CallsPlaced
      <4> QED
        BY <1>t, <3>2, <4>1, TimesOutPlain DEF Again, Stays
    <3> QED
      BY <1>1, <3>1, <3>2
  <2>3. TaskPaid(w)' /\ task[w].pc # "failed" /\ \A r : ~Attempting(w, r)
    BY <2>2, LeftPaid DEF Attempting, WithContext, Working
  <2> QED
    BY <1>1, <1>k, <1>s, <2>1, <2>2, <2>3, PaidQuiet
<1>2. CASE StartJob(w)
  <2>1. UNCHANGED <<status, busy, storedRetries>> /\ task[w].pc = "fetched"
    BY <1>2 DEF StartJob, queueVars
  <2>2. Else(w)
    BY <1>t, <1>2, StartJobPlain
  <2>3. CASE Handles(w)
    BY <1>k, <2>1, <2>2, <2>3, HandlesPaid
  <2>4. CASE Left(w) /\ UNCHANGED attempts
    <3>1. \A r \in Requests : Spent(r)' = Spent(r)
      BY <2>4 DEF Spent
    <3>2. \A r : ~Attempting(w, r)
      BY <2>1 DEF Attempting, WithContext, Working
    <3> QED
      BY <1>k, <2>1, <2>2, <2>4, <3>1, <3>2, MovesPaid
  <2> QED
    BY <1>t, <1>2, <2>3, <2>4, StartJobPlain
<1>3. CASE (SessionFails(w) \/ HandlerReturns(w)) /\ ~StartJob(w)
  <2>1. /\ UNCHANGED <<status, busy, storedRetries>>
        /\ HandlerReturns(w) => task[w].pc = "handling"
    BY <1>3 DEF SessionFails, HandlerReturns, queueVars
  <2> QED
    BY <1>t, <1>3, <1>k, <1>s, <2>1, SessionPlain, ReturnPlain, MovesPaid
<1>4. CASE FailureReported(w) /\ ~StartJob(w)
  <2>1. UNCHANGED <<status, busy, storedRetries>> /\ task[w].pc = "reporting" /\ Ends(w)
    BY <1>4 DEF FailureReported, queueVars
  <2>2. \A r \in busy : ~Attempting(w, r)
    BY <2>1 DEF QueuePaid, TaskPaid, Attempting
  <2> QED
    BY <1>t, <1>4, <1>k, <1>s, <2>1, <2>2, LeavesPlain, MovesPaid
<1>5. CASE (\E r \in Linked : HandlerAdds(w, r)) /\ ~StartJob(w)
  <2>1. PICK r \in Linked : HandlerAdds(w, r)
    BY <1>5
  <2>2. UNCHANGED <<task, chain, busy, storedRetries>>
    BY <2>1 DEF HandlerAdds
  <2>3. \A x \in Requests : \/ status'[x] = status[x] /\ storedRetries'[x] = storedRetries[x]
                            \/ status[x] = "absent" /\ status'[x] = "pending"
    BY <1>t, <2>1, <2>2 DEF HandlerAdds, TasksTyped
  <2> QED
    BY <1>5, <1>k, <1>s, <2>2, <2>3, AddsPaid DEF Else
<1>6. CASE ((\E b \in BOOLEAN : HandlerThrows(w, b)) \/ ReportFails(w)) /\ ~StartJob(w)
  <2>1. UNCHANGED <<status, busy, storedRetries>> /\ task[w].pc \in WithContext
    BY <1>6 DEF HandlerThrows, ReportFails, queueVars, WithContext, Working
  <2>2. Else(w) /\ (Erred(w) \/ Died(w))
    <3>1. CASE ReportFails(w)
      BY <1>t, <1>n, <3>1, ErrorAgain DEF ReportFails
    <3> QED
      BY <1>t, <1>n, <1>6, <3>1, ThrowPlain
  <2> QED
    BY <1>6, <1>k, <1>s, <2>1, <2>2, MovesPaid
<1>7. CASE MarkReturns(w) /\ ~StartJob(w)
  <2>1. PICK r \in Requests : r = task[w].request
    BY <1>t, <1>7 DEF MarkReturns, TasksTyped, TaskStates
  <2>2. task[w].pc = "marking" /\ SourceMarks(w, r) /\ Ends(w)
    BY <1>7, <2>1 DEF MarkReturns
  <2> QED
    BY <1>t, <1>7, <1>k, <1>a, <2>1, <2>2, LeavesPlain, DonePaid
<1>8. CASE ReclaimReturns(w) /\ ~StartJob(w)
  <2>1. task[w].pc = "reclaiming" /\ SourceReclaims(w, task[w].context) /\ Ends(w)
    BY <1>8 DEF ReclaimReturns
  <2>2. task[w].context \in Requests
    BY <2>1, ContextIsRequest DEF WithContext, Working
  <2> QED
    BY <1>t, <1>8, <1>k, <1>a, <2>1, <2>2, LeavesPlain, DonePaid
<1>9. CASE GiveUpReturns(w) /\ ~StartJob(w)
  <2>1. /\ task[w].pc = "givingUp" /\ SourceMarks(w, task[w].context)
        /\ task' = [task EXCEPT ![w].pc = "reporting"] /\ UNCHANGED chain
    BY <1>9 DEF GiveUpReturns
  <2>2. task[w].context \in Requests
    BY <2>1, ContextIsRequest DEF WithContext, Working
  <2> QED
    BY <1>t, <1>9, <1>k, <1>a, <2>1, <2>2, PcPlain, DonePaid
<1>10. CASE MarkThrows(w) /\ ~StartJob(w)
  <2>1. task[w].pc = "marking" /\ SourceThrows(w, task[w].request, "handled")
    BY <1>10 DEF MarkThrows
  <2> QED
    BY <1>t, <1>n, <1>10, <1>k, <1>a, <2>1, MarkThrowPlain, ThrowsPaid
<1>11. CASE SourceFailsError(w) /\ ~StartJob(w)
  <2>1. Else(w) /\ (Erred(w) \/ Died(w))
    BY <1>t, <1>n, <1>11, ErrorAgain DEF SourceFailsError
  <2> QED
    BY <1>11, <1>k, <1>a, <2>1, ThrowsPaid DEF SourceFailsError
<1> QED
  BY <1>1, <1>2, <1>3, <1>4, <1>5, <1>6, <1>7, <1>8, <1>9, <1>10, <1>11 DEF TaskSteps

(* A new process has idle tasks.                                           *)
LEMMA FreshIdle == Fresh => \A w \in Tasks : task[w].pc = "idle" /\ ~chain[w]["late"].mine
BY NoTasks

(* A restart cuts off every attempt there is, and is credited with it.     *)
LEMMA RestartCredits ==
    ASSUME TasksInv, Fresh', UNCHANGED lates, restarts' = restarts + 1
    PROVE  Credit' >= Credit + 1
<1>1. (\A w \in Tasks : ~chain[w]["late"].mine)'
  <2>1. (\A w \in Tasks : task[w].pc = "idle" /\ ~chain[w]["late"].mine)'
    BY FreshIdle, PTL
  <2> QED
    BY <2>1
<1>2. OwnLate' = {}
  BY <1>1 DEF OwnLate
<1>3. Cardinality(OwnLate') = 0
  BY <1>2, FS_EmptySet
<1>4. Cardinality(OwnLate) \in Nat /\ lates \in Nat /\ restarts \in Nat
  BY NumbersAreTyped DEF TasksInv, CountsTyped
<1>5. PICK n \in Nat, m \in Nat, k \in Nat :
          n = Cardinality(OwnLate) /\ m = lates /\ k = restarts
  BY <1>4
<1>6. Credit = k + m - n /\ Credit' = (k + 1) + m - 0
  BY <1>3, <1>5 DEF Credit
<1> QED
  BY <1>6

(* Every step keeps the account.                                           *)
LEMMA StepPaid ==
    ASSUME TasksInv, TasksInv', HeldBusy, QueuePaid, [Next]_vars
    PROVE  QueuePaid'
<1>n. NumbersTyped /\ NumbersTyped'
  BY NumbersNow, PTL
<1>1. CASE PoolSteps \/ (\E p \in Savers : Persists(p)) \/ UNCHANGED vars
  <2>1. UNCHANGED <<task, chain, status, storedRetries, attempts, lates, restarts>>
    BY <1>1 DEF PoolSteps, AskReady, NotReady, FinishAnswered, QueryFails, PauseOnMigration,
                Persists, Fails, vars, queueVars, historyVars, boundVars
  <2>2. UNCHANGED busy \/ (busy' = {} /\ Running = {})
    BY <1>1 DEF PoolSteps, AskReady, NotReady, ResetsQueue, FinishAnswered, QueryFails,
                PauseOnMigration, Persists, vars, queueVars
  <2>3. OwnLate' = OwnLate
    BY <2>1 DEF OwnLate
  <2>4. Credit' = Credit /\ \A r \in Requests : Spent(r)' = Spent(r)
    BY <2>1, <2>3 DEF Credit, Spent
  <2>5. Credit' >= Credit
    BY <1>n, <2>4 DEF NumbersTyped
  <2>6. ASSUME NEW r \in Requests
        PROVE  RequestPaid(r)'
    <3>1. CASE UNCHANGED busy
      <4>1. Paid(r)' => Paid(r)
        BY <2>1, <3>1 DEF Paid, Attempting
      <4> QED
        BY <2>1, <2>4, <2>5, <4>1, PaidStill
    <3>2. CASE Running = {}
      <4>1. Paid(r)
        BY <3>2 DEF Paid, Attempting, Running, WithContext, Working
      <4> QED
        BY <2>1, <2>4, <2>5, <4>1, PaidStill
    <3> QED
      BY <2>2, <3>1, <3>2
  <2>7. ASSUME NEW v \in Tasks
        PROVE  TaskPaid(v)'
    <3>1. busy' \subseteq busy
      BY <2>2
    <3> QED
      BY <2>1, <2>4, <2>5, <3>1, HeldPaid
  <2> QED
    BY <2>4, <2>6, <2>7 DEF QueuePaid
<1>2. CASE Restart
  <2>1. /\ Fresh' /\ UNCHANGED <<status, storedRetries, attempts, lates>>
        /\ restarts' = restarts + 1
    BY <1>2 DEF Restart, Fresh
  <2>2. Credit' >= Credit + 1
    BY <2>1, RestartCredits
  <2>3. Credit' >= Credit /\ Credit' \in Nat
    BY <1>n, <2>2 DEF NumbersTyped, QueuePaid
  <2>4. ASSUME NEW r \in Requests
        PROVE  RequestPaid(r)'
    BY <2>1, <2>2, <2>3, PaidStill DEF Spent
  <2>5. (\A w \in Tasks : task[w].pc = "idle")'
    <3>1. (\A w \in Tasks : task[w].pc = "idle" /\ ~chain[w]["late"].mine)'
      BY <2>1, FreshIdle, PTL
    <3> QED
      BY <3>1
  <2>6. \A w \in Tasks : TaskPaid(w)'
    BY <2>5, LeftPaid
  <2> QED
    BY <2>3, <2>4, <2>6 DEF QueuePaid
<1> QED
  BY <1>1, <1>2, FetchPaid, TaskStepPaid DEF Next

(* At first nothing was attempted.                                         *)
LEMMA InitPaid == CrawlerInit => QueuePaid
<1> SUFFICES ASSUME CrawlerInit
             PROVE  QueuePaid
  OBVIOUS
<1>1. /\ status = [r \in Requests |-> "absent"] /\ storedRetries = [r \in Requests |-> 0]
      /\ attempts = [x \in Kinds \X Requests |-> 0] /\ lates = 0 /\ restarts = 0
  BY DEF CrawlerInit
<1>2. \A w \in Tasks : task[w].pc = "idle" /\ ~chain[w]["late"].mine
  BY InitFresh, NoTasks
<1>3. OwnLate = {}
  BY <1>2 DEF OwnLate
<1>4. Cardinality(OwnLate) = 0
  BY <1>3, FS_EmptySet
<1>5. Credit = 0
  BY <1>1, <1>4 DEF Credit
<1>6. \A r \in Requests : Spent(r) = 0 /\ storedRetries[r] = 0 /\ status[r] = "absent"
  BY <1>1 DEF Spent, Kinds, Sources
<1>7. \A r \in Requests : RequestPaid(r)
  BY <1>5, <1>6 DEF RequestPaid
<1>8. \A w \in Tasks : TaskPaid(w)
  BY <1>2 DEF TaskPaid, WithContext, Working
<1> QED
  BY <1>5, <1>7, <1>8 DEF QueuePaid

(* In every state the attempts of the queue are accounted for.             *)
LEMMA QueuePaidHolds == CrawlerSpec => []QueuePaid
<1>1. TasksInv /\ TasksInv' /\ HeldBusy /\ QueuePaid /\ [Next]_vars => QueuePaid'
  BY StepPaid
<1> QED
  BY <1>1, InitPaid, TasksInvHolds, HeldBusyHolds, PTL DEF CrawlerSpec

-----------------------------------------------------------------------------
(* The attempts that a request of the list was given by tasks that have it *)
(* from there, against the retries that its object counts.  Those of the   *)
(* processes before this one are at most MaxRequestRetries + 1 each.       *)
ListBase == (MaxRequestRetries + 1) * restarts

(* Another attempt of the request is still to come.                        *)
Waits(r) ==
    \/ ~hasQueue /\ r \in Unread
    \/ ~hasQueue /\ \E w \in Tasks : \E c \in Calls : Owns(w, c, r)
    \/ \E w \in Tasks : Owns(w, "task", r) /\ task[w].pc \in {"fetched", "reclaiming"}

(* It has had one attempt more than was counted, at most.                  *)
ListRequestPaid(r) ==
    /\ ListSpent(r) <= ListBase + listRetries[r] + 1
    /\ Waits(r) => ListSpent(r) <= ListBase + listRetries[r]

(* A task that has the list's own object has its retries.                  *)
ListTaskPaid(w) ==
    task[w].pc \in WithContext /\ task[w].fromList =>
        task[w].retryCount = listRetries[task[w].context]

(* The attempts of all requests of the list are accounted for.             *)
ListPaid ==
    /\ \A r \in Requests : ListRequestPaid(r)
    /\ \A w \in Tasks : ListTaskPaid(w)

(* What is compared are numbers.                                           *)
LEMMA ListNumbers ==
    ASSUME TasksInv
    PROVE  /\ ListBase \in Nat /\ restarts \in Nat /\ MaxRequestRetries \in Nat
           /\ \A r \in Requests : ListSpent(r) \in Nat /\ listRetries[r] \in Nat
<1>1. restarts \in Nat /\ MaxRequestRetries \in Nat
  BY NumbersAreTyped DEF TasksInv, CountsTyped, NumbersTyped
<1>2. PICK m \in Nat, k \in Nat : m = MaxRequestRetries /\ k = restarts
  BY <1>1
<1>3. (m + 1) * k \in Nat
  OBVIOUS
<1>4. ListBase \in Nat
  BY <1>2, <1>3 DEF ListBase
<1> QED
  BY <1>1, <1>4, NumbersAreTyped DEF NumbersTyped

(* What waits after a step of w waited before.                             *)
LEMMA WaitsElse ==
    ASSUME NEW w \in Tasks, Else(w), hasQueue => hasQueue', NEW r,
           ~hasQueue' /\ r \in Unread' => Waits(r),
           \A c \in Calls : ~hasQueue' /\ Owns(w, c, r)' => Waits(r),
           Owns(w, "task", r)' /\ task'[w].pc \in {"fetched", "reclaiming"} => Waits(r),
           Waits(r)'
    PROVE  Waits(r)
<1>1. \A v \in Tasks : v # w => task'[v] = task[v] /\ \A p : Owns(v, p, r)' => Owns(v, p, r)
  BY DEF Else, Owns
<1>2. CASE ~hasQueue' /\ r \in Unread'
  BY <1>2
<1>3. ASSUME ~hasQueue', NEW v \in Tasks, NEW c \in Calls, Owns(v, c, r)'
      PROVE  Waits(r)
  <2>1. CASE v = w
    BY <1>3, <2>1
  <2>2. CASE v # w
    <3>1. ~hasQueue /\ Owns(v, c, r)
      BY <1>1, <1>3, <2>2
    <3> QED
      BY <3>1 DEF Waits
  <2> QED
    BY <2>1, <2>2
<1>4. ASSUME NEW v \in Tasks, Owns(v, "task", r)', task'[v].pc \in {"fetched", "reclaiming"}
      PROVE  Waits(r)
  <2>1. CASE v = w
    BY <1>4, <2>1
  <2>2. CASE v # w
    <3>1. Owns(v, "task", r) /\ task[v].pc \in {"fetched", "reclaiming"}
      BY <1>1, <1>4, <2>2
    <3> QED
      BY <3>1 DEF Waits
  <2> QED
    BY <2>1, <2>2
<1> QED
  BY <1>2, <1>3, <1>4 DEF Waits

(* Steps that count nothing.                                               *)
LEMMA ListQuiet ==
    ASSUME ListPaid, NEW w \in Tasks, Else(w), UNCHANGED <<restarts, listRetries, attempts>>,
           \A r \in Requests : Waits(r)' => Waits(r), ListTaskPaid(w)'
    PROVE  ListPaid'
<1>1. ListBase' = ListBase /\ \A r \in Requests : ListSpent(r)' = ListSpent(r)
  BY DEF ListBase, ListSpent
<1>2. \A r \in Requests : ListRequestPaid(r)'
  BY <1>1 DEF ListPaid, ListRequestPaid
<1>3. \A v \in Tasks : v # w => task'[v] = task[v]
  BY DEF Else
<1>4. \A v \in Tasks : v # w => ListTaskPaid(v)'
  BY <1>3 DEF ListPaid, ListTaskPaid
<1> QED
  BY <1>2, <1>4 DEF ListPaid

(* Marking leaves the rest of the list to be read.                         *)
LEMMA UnreadSame ==
    ASSUME \/ UNCHANGED listVars
           \/ \E r : MarkInList(r)
           \/ UNCHANGED <<requests, memoryVars>>
    PROVE  Unread' = Unread
BY DEF listVars, memoryVars, MarkInList, Unread, From

(* Steps of a task that leave its retries alone.                           *)
LEMMA MovesListPaid ==
    ASSUME TasksInv, ListPaid, NEW w \in Tasks, Else(w), UNCHANGED <<restarts, listRetries, attempts>>,
           hasQueue => hasQueue',
           \A r \in Requests : ~hasQueue' /\ r \in Unread' => Waits(r),
           \/ Left(w)
           \/ Stays(w) /\ UNCHANGED chain
           \/ \E pc \in {"marking", "reporting"} : Turns(w, pc) /\ UNCHANGED chain /\ task[w].pc \in WithContext
    PROVE  ListPaid'
<1>1. \A x, p : Owns(w, p, x)' => Owns(w, p, x)
  BY OwnsLess DEF Stays
<1>2. \A x : \A c \in Calls : ~hasQueue' /\ Owns(w, c, x)' => Waits(x)
  BY <1>1 DEF Waits
<1>3. task'[w].pc \in {"fetched", "reclaiming"} => task'[w].pc = task[w].pc
  BY DEF Left, Stays, Turns
<1>4. \A x : Owns(w, "task", x)' /\ task'[w].pc \in {"fetched", "reclaiming"} => Waits(x)
  BY <1>1, <1>3 DEF Waits
<1>5. \A r \in Requests : Waits(r)' => Waits(r)
  BY <1>2, <1>4, WaitsElse
<1>6. ListTaskPaid(w)'
  BY DEF ListPaid, ListTaskPaid, Left, Stays, Turns, SameJob, WithContext, Working
<1> QED
  BY <1>5, <1>6, ListQuiet

(* An error adds a retry to the object.                                    *)
LEMMA ErrsListPaid ==
    ASSUME TasksInv, TasksInv', ListOnce, ListPaid, NEW w \in Tasks, Else(w),
           UNCHANGED <<restarts, attempts, hasQueue, listVars>>,
           Erred(w), task[w].pc \in WithContext
    PROVE  ListPaid'
<1>n. /\ ListBase \in Nat
      /\ \A r \in Requests : ListSpent(r) \in Nat /\ listRetries[r] \in Nat
  BY ListNumbers
<1>t. TasksTyped
  BY DEF TasksInv, CrawlerInv
<1>b. ListBase' = ListBase /\ \A r \in Requests : ListSpent(r)' = ListSpent(r)
  BY DEF ListBase, ListSpent
<1>o. \A x, p : Owns(w, p, x)' => Owns(w, p, x)
  BY OwnsLess
<1>j. SameJob(w)
  BY DEF Erred
<1>u. Unread' = Unread
  BY UnreadSame
<1>1. CASE /\ task[w].fromList /\ task'[w].pc = "reclaiming"
           /\ task'[w].retryCount = task[w].retryCount + 1
           /\ listRetries' = [listRetries EXCEPT ![task[w].context] = task[w].retryCount + 1]
  <2>1. PICK r \in Requests : r = task[w].context
    BY ContextIsRequest
  <2>2. Owns(w, "task", r) /\ task[w].request = r
    BY <1>1, <2>1 DEF TasksInv, Places, TaskPlaced, Owns, WithContext
  <2>3. task[w].retryCount = listRetries[r]
    BY <1>1, <2>1 DEF ListPaid, ListTaskPaid
  <2>4. /\ listRetries'[r] = listRetries[r] + 1
        /\ \A x \in Requests : x # r => listRetries'[x] = listRetries[x]
    BY <1>1, <1>t, <2>1, <2>3 DEF TasksTyped
  <2>5. ListRequestPaid(r)'
    <3>1. PICK s \in Nat, n \in Nat, b \in Nat :
              s = ListSpent(r) /\ n = listRetries[r] /\ b = ListBase
      BY <1>n
    <3>2. s <= b + n + 1
      BY <3>1 DEF ListPaid, ListRequestPaid
    <3>3. s <= b + (n + 1) /\ s <= b + (n + 1) + 1
      BY <3>2
    <3> QED
      BY <1>b, <2>4, <3>1, <3>3 DEF ListRequestPaid
  <2>6. ASSUME NEW x \in Requests, x # r
        PROVE  ListRequestPaid(x)'
    <3>1. ~Owns(w, "task", x)
      BY <2>2, <2>6 DEF Owns, Calls
    <3>2. \A c \in Calls : ~hasQueue' /\ Owns(w, c, x)' => Waits(x)
      BY <1>o DEF Waits
    <3>3. ~Owns(w, "task", x)'
      BY <1>o, <3>1
    <3>4. ~hasQueue' /\ x \in Unread' => Waits(x)
      BY <1>u DEF Waits
    <3>5. Waits(x)' => Waits(x)
      BY <3>2, <3>3, <3>4, WaitsElse
    <3> QED
      BY <1>b, <2>4, <2>6, <3>5 DEF ListPaid, ListRequestPaid
  <2>7. ListTaskPaid(w)'
    BY <1>1, <1>j, <2>1, <2>3, <2>4 DEF ListTaskPaid, SameJob
  <2>8. ASSUME NEW v \in Tasks, v # w
        PROVE  ListTaskPaid(v)'
    <3>1. task'[v] = task[v]
      BY <2>8 DEF Else
    <3>2. ASSUME task[v].pc \in WithContext, task[v].fromList
          PROVE  task[v].context \in Requests /\ task[v].context # r
      <4>1. task[v].context \in Requests /\ Owns(v, "task", task[v].context)
        BY <3>2, ContextIsRequest DEF TasksInv, Places, TaskPlaced, Owns, WithContext
      <4> QED
        BY <2>2, <2>8, <4>1 DEF ListOnce
    <3> QED
      BY <2>4, <3>1, <3>2 DEF ListPaid, ListTaskPaid
  <2> QED
    BY <2>5, <2>6, <2>7, <2>8 DEF ListPaid
<1>2. CASE UNCHANGED listRetries
  <2>1. ASSUME NEW x, Owns(w, "task", x)', task'[w].pc = "reclaiming"
        PROVE  FALSE
    <3>1. task[w].fromList /\ task'[w].pc # "givingUp"
      BY <1>j, <2>1 DEF Owns, SameJob, Calls
    <3>2. /\ listRetries' = [listRetries EXCEPT ![task[w].context] = task[w].retryCount + 1]
          /\ task[w].context \in Requests
      BY <3>1, ContextIsRequest DEF Erred
    <3>3. task[w].retryCount = listRetries[task[w].context] /\ listRetries[task[w].context] \in Nat
      BY <1>n, <3>1, <3>2 DEF ListPaid, ListTaskPaid
    <3> QED
      BY <1>2, <1>t, <3>2, <3>3 DEF TasksTyped
  <2>2. \A x : \A c \in Calls : ~hasQueue' /\ Owns(w, c, x)' => Waits(x)
    BY <1>o DEF Waits
  <2>3. \A x : ~hasQueue' /\ x \in Unread' => Waits(x)
    BY <1>u DEF Waits
  <2>4. task'[w].pc # "fetched"
    BY DEF Erred
  <2>5. \A x \in Requests : Waits(x)' => Waits(x)
    BY <2>1, <2>2, <2>3, <2>4, WaitsElse
  <2>6. ListTaskPaid(w)'
    <3>1. CASE task[w].fromList
      <4>1. task'[w].pc # "reclaiming"
        <5>1. PICK r \in Requests : r = task[w].context
          BY ContextIsRequest
        <5>2. Owns(w, "task", r)
          BY <3>1, <5>1 DEF TasksInv, Places, TaskPlaced, Owns, WithContext
        <5>3. task'[w].pc = "reclaiming" => Owns(w, "task", r)'
          BY <1>j, <5>2 DEF Owns, SameJob, Calls, Working
        <5> QED
          BY <2>1, <5>3
      <4> QED
        BY <1>2, <1>j, <3>1, <4>1 DEF Erred, SameJob, ListPaid, ListTaskPaid
    <3>2. CASE ~task[w].fromList
      BY <1>j, <3>2 DEF SameJob, ListTaskPaid
    <3> QED
      BY <3>1, <3>2
  <2> QED
    BY <1>2, <2>5, <2>6, ListQuiet
<1> QED
  BY <1>1, <1>2 DEF Erred

(* The handler is given a request that waited, and that waits no more.     *)
LEMMA HandlesListPaid ==
    ASSUME TasksInv, TasksInv', ListOnce, ListPaid, NEW w \in Tasks, Else(w), Handles(w),
           task[w].pc = "fetched", UNCHANGED <<restarts, listRetries, hasQueue, status, listVars>>
    PROVE  ListPaid'
<1>n. /\ ListBase \in Nat
      /\ \A r \in Requests : ListSpent(r) \in Nat /\ listRetries[r] \in Nat
  BY ListNumbers
<1>t. TasksTyped /\ CountsTyped /\ task[w].source \in Sources /\ task[w].fromList \in BOOLEAN
  BY DEF TasksInv, CrawlerInv, TasksTyped, TaskStates
<1>1. PICK r \in Requests : r = task[w].request
  BY DEF Handles
<1>2. /\ task'[w].pc = "handling" /\ task'[w].context = r
      /\ task'[w].fromList = task[w].fromList
      /\ attempts' = [attempts EXCEPT ![<<Kind(task[w]), r>>] = @ + 1]
  BY <1>1 DEF Handles
<1>3. \A x \in Requests : ~(x = r /\ task[w].fromList) => ListSpent(x)' = ListSpent(x)
  BY <1>t, <1>2 DEF ListSpent, CountsTyped, Kinds, Sources, Kind
<1>4. Unread' = Unread /\ ListBase' = ListBase
  BY UnreadSame DEF ListBase
<1>5. \A x, p : Owns(w, p, x)' => Owns(w, p, x)
  BY OwnsLess
<1>6. \A x \in Requests : Waits(x)' => Waits(x)
  <2>1. \A x : \A c \in Calls : ~hasQueue' /\ Owns(w, c, x)' => Waits(x)
    BY <1>5 DEF Waits
  <2>2. \A x : ~hasQueue' /\ x \in Unread' => Waits(x)
    BY <1>4 DEF Waits
  <2> QED
    BY <1>2, <2>1, <2>2, WaitsElse
<1>7. task[w].fromList => /\ ListSpent(r) <= ListBase + listRetries[r]
                          /\ ~Waits(r)'
  <2> SUFFICES ASSUME task[w].fromList
               PROVE  /\ ListSpent(r) <= ListBase + listRetries[r]
                      /\ ~Waits(r)'
    OBVIOUS
  <2>1. Owns(w, "task", r) /\ "task" \in Hands
    BY <1>1 DEF Owns, Working, Hands
  <2>2. Waits(r)
    BY <2>1 DEF Waits
  <2>3. \A v \in Tasks : \A p : Owns(v, p, r)' => Owns(v, p, r)
    BY <1>5 DEF Else, Owns
  <2>4. \A v \in Tasks : Owns(v, "task", r)' => v = w
    BY <2>1, <2>3 DEF ListOnce
  <2>5. ASSUME ~hasQueue
        PROVE  r \notin Unread /\ \A v \in Tasks : \A c \in Calls : ~Owns(v, c, r)
    <3>1. OwnedOnce(r)
      BY <2>5 DEF ListOnce, Sole
    <3> QED
      BY <2>1, <3>1 DEF OwnedOnce, Hands, Calls
  <2>6. ~Waits(r)'
    BY <1>2, <1>4, <2>3, <2>4, <2>5 DEF Waits
  <2> QED
    BY <2>2, <2>6 DEF ListPaid, ListRequestPaid
<1>8. ASSUME NEW x \in Requests
      PROVE  ListRequestPaid(x)'
  <2>1. CASE x = r /\ task[w].fromList
    <3>1. ListSpent(x)' = ListSpent(x) + 1
      BY <1>t, <1>2, <2>1 DEF ListSpent, CountsTyped, Kinds, Sources, Kind
    <3>2. PICK s \in Nat, n \in Nat, b \in Nat :
              s = ListSpent(x) /\ n = listRetries[x] /\ b = ListBase
      BY <1>n
    <3>3. s + 1 <= b + n + 1
      BY <1>7, <2>1, <3>2
    <3> QED
      BY <1>4, <1>7, <2>1, <3>1, <3>2, <3>3 DEF ListRequestPaid
  <2>2. CASE ~(x = r /\ task[w].fromList)
    BY <1>3, <1>4, <1>6, <2>2 DEF ListPaid, ListRequestPaid
  <2> QED
    BY <2>1, <2>2
<1>9. ListTaskPaid(w)'
  BY <1>1, <1>2 DEF Handles, ListTaskPaid
<1>10. \A v \in Tasks : v # w => ListTaskPaid(v)'
  BY DEF Else, ListPaid, ListTaskPaid
<1> QED
  BY <1>8, <1>9, <1>10 DEF ListPaid

(* A call reads what waited.                                               *)
LEMMA ReadsListPaid ==
    ASSUME TasksInv, ListOnce, ListPaid, NEW w \in Tasks, Else(w),
           UNCHANGED <<restarts, listRetries, attempts, hasQueue>>,
           task'[w].pc = "fetching", NEW item \in Requests \cup {None}, Reads(item),
           chain'[w]["main"] = Fetching(item, TRUE),
           \A x : ~hasQueue /\ Owns(w, "late", x)' => Waits(x)
    PROVE  ListPaid'
<1>1. /\ \A x \in Unread' : x \in Unread
      /\ item # None => item \in Unread
  BY ReadsUnread DEF ListOnce, TasksInv, CrawlerInv
<1>2. ASSUME NEW x \in Requests, Waits(x)'
      PROVE  Waits(x)
  <2>1. ~Owns(w, "task", x)'
    BY DEF Owns, Working, Calls
  <2>2. ~hasQueue' /\ x \in Unread' => Waits(x)
    BY <1>1 DEF Waits
  <2>3. ~hasQueue' /\ Owns(w, "main", x)' => Waits(x)
    <3>1. Owns(w, "main", x)' => x = item /\ item # None
      BY CrawlerAssumption DEF Owns, Fetching
    <3> QED
      BY <1>1, <3>1 DEF Waits
  <2> QED
    BY <1>2, <2>1, <2>2, <2>3, WaitsElse DEF Calls
<1>3. ListTaskPaid(w)'
  BY DEF ListTaskPaid, WithContext, Working
<1> QED
  BY <1>2, <1>3, ListQuiet

(* A fetch that is made again keeps the account.                           *)
LEMMA AgainListPaid ==
    ASSUME TasksInv, ListOnce, ListPaid, NEW w \in Tasks, NEW old, Again(w, old), Else(w),
           UNCHANGED <<restarts, listRetries, attempts, hasQueue>>, task[w].pc = "fetching", hasQueue
    PROVE  ListPaid'
<1>1. ASSUME Stays(w), NEW item \in Requests \cup {None}, Reads(item),
             chain'[w]["main"] = Fetching(item, TRUE)
      PROVE  ListPaid'
  <2>1. task'[w].pc = "fetching"
    BY <1>1 DEF Stays
  <2> QED
    BY <1>1, <2>1, ReadsListPaid
<1>2. CASE task'[w].pc = "failed"
  <2>1. ListTaskPaid(w)'
    BY <1>2 DEF ListTaskPaid, WithContext, Working
  <2>2. \A r \in Requests : Waits(r)' => Waits(r)
    BY <1>2, WaitsElse
  <2> QED
    BY <2>1, <2>2, ListQuiet
<1> QED
  BY <1>1, <1>2 DEF Again

(* A step of a call keeps the account.                                     *)
LEMMA FetchListPaid ==
    ASSUME TasksInv, ListOnce, ListPaid, NEW w \in Tasks, NEW c \in Calls, FetchSteps(w, c)
    PROVE  ListPaid'
<1>t. TasksTyped /\ Kept /\ Places
  BY DEF TasksInv, CrawlerInv
<1>c. chain[w][c].item \in Requests \cup {None}
  BY <1>t DEF TasksTyped, ChainStates
<1>h. chain[w][c].pc \in {"adding", "added", "taking"} => hasQueue
  BY <1>t DEF Places, CallsPlaced
<1>u. UNCHANGED <<restarts, listRetries, attempts, hasQueue>>
  BY DEF FetchSteps, ListAnswered, AddReaches, AddReturns, AddFails, TakeNothing, Take, FetchFails,
         Fails, boundVars, historyVars, setupVars
<1>1. ASSUME hasQueue, Else(w), task'[w] = task[w]
      PROVE  ListPaid'
  <2>1. \A x : Owns(w, "task", x)' => Owns(w, "task", x)
    BY <1>1 DEF Owns, Calls
  <2>2. \A x \in Requests : Waits(x)' => Waits(x)
    <3>1. \A x : Owns(w, "task", x)' /\ task'[w].pc \in {"fetched", "reclaiming"} => Waits(x)
      BY <1>1, <2>1 DEF Waits
    <3> QED
      BY <1>1, <1>u, <3>1, WaitsElse
  <2>3. ListTaskPaid(w)'
    BY <1>1, <1>u DEF ListPaid, ListTaskPaid
  <2> QED
    BY <1>1, <1>u, <2>2, <2>3, ListQuiet
<1>2. ASSUME hasQueue, Else(w), NEW r, Gave(w, c, r), chain[w][c].pc # "none"
      PROVE  ListPaid'
  <2>1. \A x, p : Owns(w, p, x)' => Owns(w, p, x)
    BY <1>t, <1>2, GaveLess
  <2>2. \A x : Owns(w, "task", x)' /\ task'[w].pc \in {"fetched", "reclaiming"} => Waits(x)
    <3>1. CASE c = "main"
      BY <1>2, <3>1 DEF Gave, Owns, Calls
    <3>2. CASE c = "late"
      BY <1>2, <2>1, <3>2 DEF Gave, Waits
    <3> QED
      BY <3>1, <3>2 DEF Calls
  <2>3. \A x \in Requests : Waits(x)' => Waits(x)
    BY <1>2, <1>u, <2>2, WaitsElse
  <2>4. ListTaskPaid(w)'
    <3>1. CASE c = "main"
      BY <1>2, <3>1 DEF Gave, ListTaskPaid, WithContext, Working
    <3>2. CASE c = "late"
      BY <1>2, <1>u, <3>2 DEF Gave, ListPaid, ListTaskPaid
    <3> QED
      BY <3>1, <3>2 DEF Calls
  <2> QED
    BY <1>2, <1>u, <2>3, <2>4, ListQuiet
<1>3. CASE ListAnswered(w, c) /\ ~hasQueue
  <2>1. PICK r \in Requests \cup {None} : r = chain[w][c].item
    BY <1>c
  <2>2. /\ Returns(w, c, r) /\ chain[w][c].pc = "listed" /\ UNCHANGED listVars
    BY <1>3, <2>1 DEF ListAnswered
  <2>3. c = "main" /\ Else(w) /\ Gave(w, c, r)
    BY <1>t, <2>2, ReturnsPlain DEF Kept, FetchesKept, Calls
  <2>4. Unread' = Unread
    BY <2>2, UnreadSame
  <2>5. Owns(w, "main", r)
    BY <2>1, <2>2, <2>3 DEF Owns
  <2>6. ASSUME NEW x \in Requests, Waits(x)'
        PROVE  Waits(x)
    <3>1. ~Owns(w, "main", x)' /\ (Owns(w, "late", x)' => Owns(w, "late", x))
      BY <2>3 DEF Gave, Over, NoChain, Owns, Calls
    <3>2. \A d \in Calls : ~hasQueue' /\ Owns(w, d, x)' => Waits(x)
      BY <1>u, <3>1 DEF Waits, Calls
    <3>3. Owns(w, "task", x)' => x = r
      BY <2>3 DEF Gave, Owns, Calls
    <3>4. Owns(w, "task", x)' => Waits(x)
      BY <1>3, <2>5, <3>3 DEF Waits, Calls
    <3>5. ~hasQueue' /\ x \in Unread' => Waits(x)
      BY <1>u, <2>4 DEF Waits
    <3> QED
      BY <1>u, <2>3, <2>6, <3>2, <3>4, <3>5, WaitsElse
  <2>7. ListTaskPaid(w)'
    BY <2>3 DEF Gave, ListTaskPaid, WithContext, Working
  <2> QED
    BY <1>u, <2>3, <2>6, <2>7, ListQuiet
<1>4. CASE \/ ListAnswered(w, c) /\ hasQueue
           \/ AddReaches(w, c)
           \/ AddReturns(w, c)
  <2>1. hasQueue /\ \E place : Goes(w, c, place)
    BY <1>4, <1>h DEF ListAnswered, AddReaches, AddReturns
  <2>2. Else(w) /\ task'[w] = task[w]
    BY <1>t, <2>1, GoesPlain DEF Went
  <2> QED
    BY <1>1, <2>1, <2>2
<1>5. CASE AddFails(w, c) \/ TakeNothing(w, c) \/ \E r \in Requests : Take(w, c, r)
  <2>1. /\ hasQueue /\ chain[w][c].pc # "none"
        /\ \E r \in Requests \cup {None} : Returns(w, c, r)
    BY <1>5, <1>h DEF AddFails, TakeNothing, Take
  <2> QED
    BY <1>t, <1>2, <2>1, ReturnsPlain
<1>6. CASE FetchFails(w, c)
  <2>1. hasQueue /\ chain[w][c].pc # "none"
    BY <1>6, <1>h DEF FetchFails
  <2>2. CASE c = "main" /\ Again(w, chain[w]["late"]) /\ Else(w)
    <3>1. task[w].pc = "fetching"
      BY <1>t, <2>1, <2>2 DEF Places, CallsPlaced
    <3> QED
      BY <1>u, <2>1, <2>2, <3>1, AgainListPaid
  <2>3. CASE UNCHANGED task /\ Else(w)
    BY <1>1, <2>1, <2>3
  <2> QED
    BY <1>t, <1>6, <2>2, <2>3, FailsPlain
<1> QED
  BY <1>3, <1>4, <1>5, <1>6 DEF FetchSteps

(* A step of a task keeps the account.                                     *)
LEMMA TaskListPaid ==
    ASSUME TasksInv, TasksInv', HeldBusy, ListOnce, ListPaid, NEW w \in Tasks, TaskSteps(w)
    PROVE  ListPaid'
<1>t. TasksTyped /\ CountsTyped /\ Places
  BY DEF TasksInv, CrawlerInv
<1>n. handledRequestsCount \in Nat
  BY <1>t DEF CountsTyped
<1>w. \A x \in Requests : ~hasQueue /\ x \in Unread => Waits(x)
  BY DEF Waits
<1>1. CASE StartTask(w)
  <2>1. UNCHANGED <<restarts, listRetries, attempts, hasQueue>>
    BY <1>1 DEF StartTask, boundVars, historyVars, setupVars
  <2>2. Else(w) /\ Began(w)
    BY <1>t, <1>1, StartPlain
  <2>3. PICK item \in Requests \cup {None} :
            Reads(item) /\ chain'[w]["main"] = Fetching(item, TRUE)
    BY <2>2 DEF Began
  <2>4. \A x : ~hasQueue /\ Owns(w, "late", x)' => Waits(x)
    BY <2>2 DEF Began, Owns, Waits, Calls
  <2> QED
    BY <2>1, <2>2, <2>3, <2>4, ReadsListPaid DEF Began
<1>2. CASE FetchTimesOut(w)
  <2>1. UNCHANGED <<restarts, listRetries, attempts, hasQueue>>
    BY <1>2 DEF FetchTimesOut, historyVars, setupVars
  <2>2. Else(w) /\ Again(w, chain[w]["main"])
    BY <1>t, <1>2, TimesOutPlain
  <2>3. task[w].pc = "fetching" /\ hasQueue
    BY <1>t, <1>2 DEF FetchTimesOut, Places, CallsPlaced, Calls
  <2> QED
    BY <2>1, <2>2, <2>3, AgainListPaid
<1>3. CASE StartJob(w)
  <2>1. /\ UNCHANGED <<restarts, listRetries, hasQueue, status, listVars>>
        /\ task[w].pc = "fetched"
    BY <1>3 DEF StartJob, boundVars, setupVars, queueVars
  <2>2. Else(w)
    BY <1>t, <1>3, StartJobPlain
  <2>3. CASE Handles(w)
    BY <2>1, <2>2, <2>3, HandlesListPaid
  <2>4. CASE Left(w) /\ UNCHANGED attempts
    BY <1>w, <2>1, <2>2, <2>4, UnreadSame, MovesListPaid
  <2> QED
    BY <1>t, <1>3, <2>3, <2>4, StartJobPlain
<1>4. CASE SessionFails(w) \/ HandlerReturns(w) \/ FailureReported(w)
  <2>1. /\ UNCHANGED <<restarts, listRetries, attempts, hasQueue, listVars>>
        /\ HandlerReturns(w) => task[w].pc \in WithContext
    BY <1>4 DEF SessionFails, HandlerReturns, FailureReported, Fails, boundVars, historyVars, setupVars,
                WithContext, Working
  <2>2. Unread' = Unread
    BY <2>1, UnreadSame
  <2>3. /\ Else(w)
        /\ \/ Left(w)
           \/ Stays(w) /\ UNCHANGED chain
           \/ Turns(w, "marking") /\ UNCHANGED chain /\ HandlerReturns(w)
    BY <1>t, <1>4, SessionPlain, ReturnPlain, LeavesPlain DEF FailureReported, Died
  <2> QED
    BY <1>w, <2>1, <2>2, <2>3, MovesListPaid
<1>5. CASE \E r \in Linked : HandlerAdds(w, r)
  <2>1. UNCHANGED <<task, chain, restarts, listRetries, attempts>> /\ hasQueue'
    BY <1>5 DEF HandlerAdds, boundVars, historyVars
  <2> QED
    BY <2>1, MovesListPaid DEF Else, Stays, SameJob
<1>6. CASE (\E b \in BOOLEAN : HandlerThrows(w, b)) \/ ReportFails(w) \/ SourceFailsError(w)
           \/ MarkThrows(w)
  <2>1. UNCHANGED <<restarts, attempts, hasQueue, listVars>> /\ task[w].pc \in WithContext
    <3>1. CASE (\E b \in BOOLEAN : HandlerThrows(w, b)) \/ ReportFails(w)
      BY <3>1 DEF HandlerThrows, ReportFails, Fails, boundVars, setupVars, WithContext, Working
    <3>2. CASE SourceFailsError(w) \/ MarkThrows(w)
      BY <3>2 DEF SourceFailsError, MarkThrows, SourceThrows, Fails, boundVars, setupVars,
                  WithContext, Working
    <3> QED
      BY <1>6, <3>1, <3>2
  <2>2. Unread' = Unread
    BY <2>1, UnreadSame
  <2>3. /\ Else(w)
        /\ \/ Stays(w) /\ UNCHANGED <<chain, listRetries>>
           \/ Erred(w)
           \/ Left(w) /\ UNCHANGED listRetries
    <3>1. CASE \E b \in BOOLEAN : HandlerThrows(w, b)
      BY <1>t, <1>n, <3>1, ThrowPlain DEF Died
    <3>2. CASE ReportFails(w) \/ SourceFailsError(w)
      BY <1>t, <1>n, <3>2, ErrorAgain DEF ReportFails, SourceFailsError, Died
    <3>3. CASE MarkThrows(w)
      BY <1>t, <1>n, <3>3, MarkThrowPlain DEF Died
    <3> QED
      BY <1>6, <3>1, <3>2, <3>3
  <2>4. CASE Erred(w)
    BY <2>1, <2>3, <2>4, ErrsListPaid
  <2>5. CASE UNCHANGED listRetries /\ ((Stays(w) /\ UNCHANGED chain) \/ Left(w))
    BY <1>w, <2>1, <2>2, <2>3, <2>5, MovesListPaid
  <2> QED
    BY <2>3, <2>4, <2>5
<1>7. CASE MarkReturns(w)
  <2>1. /\ UNCHANGED <<restarts, listRetries, attempts, hasQueue>> /\ Ends(w)
        /\ SourceMarks(w, task[w].request)
    BY <1>7 DEF MarkReturns, boundVars, setupVars
  <2>2. Unread' = Unread
    BY <2>1, UnreadSame DEF SourceMarks
  <2> QED
    BY <1>t, <1>w, <2>1, <2>2, LeavesPlain, MovesListPaid
<1>8. CASE GiveUpReturns(w)
  <2>1. /\ UNCHANGED <<restarts, listRetries, attempts, hasQueue, chain>>
        /\ SourceMarks(w, task[w].context) /\ task[w].pc \in WithContext
        /\ task' = [task EXCEPT ![w].pc = "reporting"]
    BY <1>8 DEF GiveUpReturns, boundVars, setupVars, WithContext, Working
  <2>2. Unread' = Unread
    BY <2>1, UnreadSame DEF SourceMarks
  <2>3. Else(w) /\ Turns(w, "reporting")
    BY <1>t, <2>1, PcPlain
  <2> QED
    BY <1>w, <2>1, <2>2, <2>3, MovesListPaid
<1>9. CASE ReclaimReturns(w)
  <2>1. /\ UNCHANGED <<restarts, listRetries, attempts, hasQueue>> /\ Ends(w)
        /\ SourceReclaims(w, task[w].context) /\ task[w].pc = "reclaiming"
    BY <1>9 DEF ReclaimReturns, boundVars, historyVars, setupVars
  <2>2. ASSUME NEW x \in Requests, ~hasQueue', x \in Unread'
        PROVE  Waits(x)
    <3>1. x \in Unread \/ x = task[w].context
      <4>1. CASE UNCHANGED listVars
        BY <2>2, <4>1, UnreadSame
      <4>2. CASE ReclaimInList(task[w].context)
        BY <2>2, <4>2 DEF ReclaimInList, Unread, From
      <4> QED
        BY <2>1, <4>1, <4>2 DEF SourceReclaims
    <3>2. task[w].fromList /\ task[w].request = task[w].context
      BY <1>t, <2>1, <2>2 DEF Places, TaskPlaced, WithContext, Working
    <3>3. Owns(w, "task", task[w].context)
      BY <2>1, <3>2 DEF Owns, Working
    <3> QED
      BY <2>1, <2>2, <3>1, <3>3 DEF Waits
  <2> QED
    BY <1>t, <2>1, <2>2, LeavesPlain, MovesListPaid
<1> QED
  BY <1>1, <1>2, <1>3, <1>4, <1>5, <1>6, <1>7, <1>8, <1>9 DEF TaskSteps

(* Of the attempts of a process that is gone none is still to be counted.  *)
LEMMA RestartListPaid ==
    ASSUME TasksInv, TasksInv', RetriesBounded, ListPaid, Restart
    PROVE  ListPaid'
<1>1. /\ Fresh' /\ UNCHANGED attempts /\ restarts' = restarts + 1
      /\ listRetries' = [r \in Requests |-> 0]
  BY DEF Restart, Fresh
<1>2. (\A w \in Tasks : task[w].pc = "idle" /\ ~chain[w]["late"].mine)'
  BY <1>1, FreshIdle, PTL
<1>n. /\ ListBase \in Nat /\ restarts \in Nat /\ MaxRequestRetries \in Nat
      /\ \A r \in Requests : ListSpent(r) \in Nat /\ listRetries[r] \in Nat
  BY ListNumbers
<1>3. ListBase' = ListBase + (MaxRequestRetries + 1)
  <2>1. PICK m \in Nat, k \in Nat : m = MaxRequestRetries /\ k = restarts
    BY <1>n
  <2>2. (m + 1) * (k + 1) = (m + 1) * k + (m + 1)
    OBVIOUS
  <2> QED
    BY <1>1, <2>1, <2>2 DEF ListBase
<1>4. ASSUME NEW r \in Requests
      PROVE  ListRequestPaid(r)'
  <2>1. PICK s \in Nat, n \in Nat, b \in Nat, m \in Nat :
            s = ListSpent(r) /\ n = listRetries[r] /\ b = ListBase /\ m = MaxRequestRetries
    BY <1>n
  <2>2. s <= b + n + 1 /\ n <= m
    BY <2>1 DEF ListPaid, ListRequestPaid, RetriesBounded
  <2>3. s <= (b + (m + 1)) + 0 /\ s <= (b + (m + 1)) + 0 + 1
    BY <2>2
  <2>4. listRetries'[r] = 0 /\ ListSpent(r)' = s /\ ListBase' = b + (m + 1)
    BY <1>1, <1>3, <2>1 DEF ListSpent
  <2> QED
    BY <2>3, <2>4 DEF ListRequestPaid
<1>5. \A w \in Tasks : ListTaskPaid(w)'
  BY <1>2 DEF ListTaskPaid, WithContext, Working
<1> QED
  BY <1>4, <1>5 DEF ListPaid

(* Every step keeps the account.                                           *)
LEMMA StepListPaid ==
    ASSUME TasksInv, TasksInv', HeldBusy, ListOnce, RetriesBounded, ListPaid, [Next]_vars
    PROVE  ListPaid'
<1>1. CASE PoolSteps \/ (\E p \in Savers : Persists(p)) \/ UNCHANGED vars
  <2>1. UNCHANGED <<task, chain, hasQueue, listRetries, attempts, restarts>>
    BY <1>1 DEF PoolSteps, AskReady, NotReady, FinishAnswered, QueryFails, PauseOnMigration,
                Persists, Fails, vars, historyVars, boundVars, setupVars
  <2>2. UNCHANGED <<requests, memoryVars>>
    BY <1>1 DEF PoolSteps, AskReady, NotReady, FinishAnswered, QueryFails, PauseOnMigration,
                Persists, PersistState, StatePersisted, PersistFails, vars, listVars
  <2>3. Unread' = Unread
    BY <2>2, UnreadSame
  <2> QED
    BY <2>1, <2>3 DEF ListPaid, ListRequestPaid, ListTaskPaid, ListBase, ListSpent, Waits, Owns
<1> QED
  BY <1>1, FetchListPaid, TaskListPaid, RestartListPaid DEF Next

(* At first nothing was attempted.                                         *)
LEMMA InitListPaid == CrawlerInit => ListPaid
<1> SUFFICES ASSUME CrawlerInit
             PROVE  ListPaid
  OBVIOUS
<1>1. /\ listRetries = [r \in Requests |-> 0]
      /\ attempts = [x \in Kinds \X Requests |-> 0] /\ restarts = 0
  BY DEF CrawlerInit
<1>2. \A w \in Tasks : task[w].pc = "idle"
  BY InitFresh, NoTasks
<1>3. \A r \in Requests : ListSpent(r) = 0 /\ listRetries[r] = 0
  BY <1>1 DEF ListSpent, Kinds, Sources
<1>4. ListBase = 0
  BY <1>1, CrawlerAssumption DEF ListBase
<1>5. \A r \in Requests : ListRequestPaid(r)
  BY <1>3, <1>4 DEF ListRequestPaid
<1>6. \A w \in Tasks : ListTaskPaid(w)
  BY <1>2 DEF ListTaskPaid, WithContext, Working
<1> QED
  BY <1>5, <1>6 DEF ListPaid

(* In every state the attempts of the list are accounted for.              *)
LEMMA ListPaidHolds == CrawlerSpec => []ListPaid
<1>1. TasksInv /\ TasksInv' /\ HeldBusy /\ ListOnce /\ RetriesBounded /\ ListPaid /\ [Next]_vars
          => ListPaid'
  BY StepListPaid
<1> QED
  BY <1>1, InitListPaid, TasksInvHolds, HeldBusyHolds, ListOnceHolds, RetriesBoundedHolds, PTL
     DEF CrawlerSpec

(* What is accounted for is bounded.                                       *)
LEMMA PaidIsBounded ==
    TasksInv /\ RetriesBounded /\ QueuePaid /\ ListPaid => AttemptsBounded
<1> SUFFICES ASSUME TasksInv, RetriesBounded, QueuePaid, ListPaid, NEW r \in Requests
             PROVE  /\ attempts["queue", r] <= MaxRequestRetries + 1 + restarts + lates
                    /\ attempts["list", r] <= (MaxRequestRetries + 1) * (restarts + 1)
  BY DEF AttemptsBounded
<1>1. /\ Spent(r) \in Nat /\ storedRetries[r] \in Nat /\ listRetries[r] \in Nat
      /\ ListSpent(r) \in Nat /\ MaxRequestRetries \in Nat
      /\ restarts \in Nat /\ lates \in Nat /\ Cardinality(OwnLate) \in Nat
  BY NumbersAreTyped DEF NumbersTyped, TasksInv, CountsTyped
<1>2. storedRetries[r] <= MaxRequestRetries /\ listRetries[r] <= MaxRequestRetries
  BY DEF RetriesBounded
<1>3. /\ Spent(r) <= storedRetries[r] + 1 + Credit
      /\ ListSpent(r) <= ListBase + listRetries[r] + 1
  BY DEF QueuePaid, RequestPaid, ListPaid, ListRequestPaid
<1>4. PICK s \in Nat, n \in Nat, m \in Nat, k \in Nat, l \in Nat, o \in Nat :
          /\ s = Spent(r) /\ n = storedRetries[r] /\ m = MaxRequestRetries /\ k = restarts
          /\ l = lates /\ o = Cardinality(OwnLate)
  BY <1>1
<1>5. s <= n + 1 + (k + l - o) /\ n <= m
  BY <1>2, <1>3, <1>4 DEF Credit
<1>6. s <= m + 1 + k + l
  BY <1>5
<1>7. PICK t \in Nat, i \in Nat : t = ListSpent(r) /\ i = listRetries[r]
  BY <1>1
<1>8. t <= (m + 1) * k + i + 1 /\ i <= m
  BY <1>2, <1>3, <1>4, <1>7 DEF ListBase
<1>9. (m + 1) * (k + 1) = (m + 1) * k + (m + 1) /\ (m + 1) * k \in Nat
  OBVIOUS
<1>10. t <= (m + 1) * (k + 1)
  <2>1. PICK b \in Nat : b = (m + 1) * k
    BY <1>9
  <2>2. t <= b + (m + 1)
    BY <1>8, <2>1
  <2> QED
    BY <1>9, <2>1, <2>2
<1> QED
  BY <1>4, <1>6, <1>7, <1>10 DEF Spent, ListSpent

(* A request of the queue is attempted MaxRequestRetries + 1 times at most *)
(* and once more for every restart and late fetch, one of the list that    *)
(* often by every process: basic-crawler.ts counts no retry twice and      *)
(* forgets none but these.                                                 *)
THEOREM AttemptsBoundedHolds == CrawlerSpec => []AttemptsBounded
BY PaidIsBounded, TasksInvHolds, RetriesBoundedHolds, QueuePaidHolds, ListPaidHolds, PTL
=============================================================================
