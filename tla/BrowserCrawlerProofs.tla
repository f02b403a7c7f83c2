------------------------ MODULE BrowserCrawlerProofs ------------------------
(***************************************************************************)
(* No browser gets more pages than it has room for, none that runs is      *)
(* forgotten by its pool, and no timer takes a page that was opened before *)
(* its browser was retired.                                                *)
(***************************************************************************)
EXTENDS BrowserCrawler, Integers, FiniteSetTheorems, TLAPS

Places == {"idle", "launching", "awaiting", "opening", "open", "dead", "closing"}

PoolTypeOK ==
    /\ active \subseteq Browsers /\ retired \subseteq Browsers /\ timers \subseteq Browsers
    /\ browser \in [Browsers -> BrowserStates]
    /\ activePages \in [Browsers -> Int]
    /\ totalPages \in [Browsers -> Nat]
    /\ pc \in [Calls -> Places]
    /\ on \in [Calls -> Browsers \cup {None}]
    /\ inNew \subseteq Calls /\ cancelled \subseteq Calls /\ late \subseteq Calls
    /\ extra \subseteq Browsers
    /\ destroyed \in {"no", "closing", "done"}
    /\ overtaken \subseteq Browsers

(* A call has a controller unless it is idle; one that launches has the    *)
(* launch for itself, and unless it was cancelled or destroy met it the    *)
(* pool knows of it.                                                       *)
CallsPlaced ==
    \A c \in Calls :
        /\ pc[c] = "idle" <=> on[c] = None
        /\ pc[c] = "launching" =>
              /\ browser[on[c]] \in {"launching", "hooks"}
              /\ destroyed = "no" => c \in cancelled \/ on[c] \in active \cup retired
              /\ \A d \in Calls : pc[d] = "launching" /\ on[d] = on[c] => d = c
        /\ pc[c] \in {"opening", "open", "dead", "closing"} => browser[on[c]] \in Settled

(* The limiter lets one call run.                                          *)
OneRuns == \A c, d \in Calls : Runs(c) /\ Runs(d) => c = d

(* A call of newPageInNewBrowser has launched its controller itself.       *)
OwnBrowsers ==
    \A c \in inNew :
        /\ pc[c] # "idle"
        /\ on[c] \in extra
        /\ \A d \in inNew : on[d] = on[c] => d = c

(* Calls whose page is not counted yet.                                    *)
ToCount(c) == pc[c] \in {"launching", "awaiting"}

Capacity(b) == MaxOpenPagesPerBrowser + (IF b \in extra THEN 1 ELSE 0)

(* There is room for the page of a call that is still to be counted, and   *)
(* for two where newPage joined a call that launched its own browser.      *)
RoomKept ==
    \A c \in Calls : ToCount(c) =>
        /\ activePages[on[c]] < Capacity(on[c])
        /\ c \in inNew =>
              \A d \in Calls \ inNew :
                  ToCount(d) /\ on[d] = on[c] => activePages[on[c]] < MaxOpenPagesPerBrowser

(* The pages of a browser are counted; after errors the count may be too   *)
(* high, never too low.                                                    *)
PagesIn(b) == {c \in Calls : pc[c] \in {"opening", "open"} /\ on[c] = b}

PagesCounted ==
    \A b \in Browsers :
        IsFiniteSet(PagesIn(b)) /\ Cardinality(PagesIn(b)) <= activePages[b]

(* A browser that waits for its timer is retired for good, and pages that  *)
(* are opened in it are late ones.                                         *)
TimersRetired ==
    \A b \in timers :
        /\ b \notin active
        /\ browser[b] \in Settled
        /\ \A c \in PagesIn(b) : c \in late

(* What runs or may yet run in a pool that is being destroyed, or was, had *)
(* its launch met by destroy or after it.                                  *)
OvertakenKept ==
    IF destroyed = "no" THEN overtaken = {}
    ELSE \A b \in Browsers : browser[b] \in {"launching", "hooks", "open"} => b \in overtaken

RetiredOnce == active \cap retired = {}

BrowserInv ==
    /\ PoolTypeOK /\ CallsPlaced /\ OneRuns /\ OwnBrowsers /\ RoomKept
    /\ PagesCounted /\ TimersRetired /\ CapacityKept /\ NoLeak /\ OvertakenKept
    /\ RetiredOnce

-----------------------------------------------------------------------------
(* Pages that leave a browser, and the ones that do not change its count,  *)
(* keep the count from being too low.                                      *)
LEMMA FewerPagesCounted ==
    ASSUME PagesCounted, UNCHANGED activePages, activePages \in [Browsers -> Int],
           \A b \in Browsers : PagesIn(b)' \subseteq PagesIn(b)
    PROVE  PagesCounted'
<1> SUFFICES ASSUME NEW b \in Browsers
             PROVE  IsFiniteSet(PagesIn(b)') /\ Cardinality(PagesIn(b)') <= activePages'[b]
  BY DEF PagesCounted
<1>1. IsFiniteSet(PagesIn(b)) /\ Cardinality(PagesIn(b)) <= activePages[b]
  BY DEF PagesCounted
<1>2. IsFiniteSet(PagesIn(b)') /\ Cardinality(PagesIn(b)') <= Cardinality(PagesIn(b))
  BY <1>1, FS_Subset
<1> QED
  BY <1>1, <1>2, FS_CardinalityType

(* A page that is counted when it joins, or no more when it leaves.        *)
LEMMA PageCounted ==
    ASSUME PagesCounted, activePages \in [Browsers -> Int],
           NEW x \in Browsers, NEW c,
           \A b \in Browsers \ {x} : PagesIn(b)' = PagesIn(b),
           \/ /\ c \notin PagesIn(x) /\ PagesIn(x)' = PagesIn(x) \cup {c}
              /\ activePages' = [activePages EXCEPT ![x] = @ + 1]
           \/ /\ c \in PagesIn(x) /\ PagesIn(x)' = PagesIn(x) \ {c}
              /\ activePages' = [activePages EXCEPT ![x] = @ - 1]
    PROVE  PagesCounted'
<1> SUFFICES ASSUME NEW b \in Browsers
             PROVE  IsFiniteSet(PagesIn(b)') /\ Cardinality(PagesIn(b)') <= activePages'[b]
  BY DEF PagesCounted
<1>1. IsFiniteSet(PagesIn(b)) /\ Cardinality(PagesIn(b)) <= activePages[b]
  BY DEF PagesCounted
<1>2. Cardinality(PagesIn(b)) \in Nat
  BY <1>1, FS_CardinalityType
<1>3. CASE b # x
  BY <1>1, <1>3
<1>4. CASE b = x
  <2>1. CASE c \notin PagesIn(x) /\ PagesIn(x)' = PagesIn(x) \cup {c}
             /\ activePages' = [activePages EXCEPT ![x] = @ + 1]
    <3>1. activePages'[x] = activePages[x] + 1
      BY <2>1
    <3>2. IsFiniteSet(PagesIn(x)') /\ Cardinality(PagesIn(x)') = Cardinality(PagesIn(x)) + 1
      BY <1>1, <1>4, <2>1, FS_AddElement
    <3> QED
      BY <1>1, <1>2, <1>4, <3>1, <3>2
  <2>2. CASE c \in PagesIn(x) /\ PagesIn(x)' = PagesIn(x) \ {c}
             /\ activePages' = [activePages EXCEPT ![x] = @ - 1]
    <3>1. activePages'[x] = activePages[x] - 1
      BY <2>2
    <3>2. IsFiniteSet(PagesIn(x)') /\ Cardinality(PagesIn(x)') = Cardinality(PagesIn(x)) - 1
      BY <1>1, <1>4, <2>2, FS_RemoveElement
    <3> QED
      BY <1>1, <1>2, <1>4, <3>1, <3>2
  <2> QED
    BY <2>1, <2>2
<1> QED
  BY <1>3, <1>4

(* Nothing is in a browser that nobody counts pages in.                    *)
LEMMA EmptyMeansNoPages ==
    ASSUME PagesCounted, NEW b \in Browsers, activePages[b] = 0
    PROVE  PagesIn(b) = {}
<1>1. IsFiniteSet(PagesIn(b)) /\ Cardinality(PagesIn(b)) <= 0
  BY DEF PagesCounted
<1>2. Cardinality(PagesIn(b)) = 0
  BY <1>1, FS_CardinalityType
<1> QED
  BY <1>1, <1>2, FS_EmptySet

-----------------------------------------------------------------------------
(* newPage and newPageInNewBrowser.                                        *)

(* A browser that is launched anew starts with one call and no pages.      *)
LEMMA LaunchStep ==
    ASSUME BrowserInv, NEW c \in Calls, NEW b \in Browsers, pc[c] = "idle", LaunchBrowser(c, b),
           \/ LimiterFree /\ extra' = extra \ {b} /\ UNCHANGED inNew
           \/ extra' = extra \cup {b} /\ inNew' = inNew \cup {c}
    PROVE  BrowserInv'
<1> USE DEF BrowserInv, PoolTypeOK, endVars, LaunchBrowser, Unused
<1>1. PoolTypeOK'
  BY DEF Becomes, BrowserStates, Places
<1>2. CallsPlaced'
  BY BrowserPoolAssumption DEF Becomes, CallsPlaced
<1>3. OneRuns'
  BY DEF OneRuns, Runs, LimiterFree
<1>4. OwnBrowsers'
  BY DEF OwnBrowsers
<1>5. RoomKept'
  BY BrowserPoolAssumption DEF RoomKept, ToCount, Capacity, CallsPlaced
<1>6. PagesCounted'
  <2>1. \A x \in Browsers \ {b} : PagesIn(x)' = PagesIn(x) /\ activePages'[x] = activePages[x]
    BY DEF PagesIn
  <2>2. PagesIn(b)' = {} /\ activePages'[b] = 0
    BY DEF PagesIn
  <2>3. IsFiniteSet(PagesIn(b)') /\ Cardinality(PagesIn(b)') <= activePages'[b]
    BY <2>2, FS_EmptySet
  <2> QED
    BY <2>1, <2>3 DEF PagesCounted
<1>7. TimersRetired'
  BY DEF TimersRetired, PagesIn, Becomes
<1>8. CapacityKept'
  BY BrowserPoolAssumption DEF CapacityKept
<1>9. NoLeak' /\ OvertakenKept'
  BY DEF NoLeak, OvertakenKept, Becomes
<1>10. RetiredOnce'
  BY DEF RetiredOnce
<1> QED
  BY <1>1, <1>2, <1>3, <1>4, <1>5, <1>6, <1>7, <1>8, <1>9, <1>10

(* newPage takes a browser with room, or launches one.                     *)
LEMMA NewPageStep ==
    ASSUME BrowserInv, NEW c \in Calls, NewPage(c)
    PROVE  BrowserInv'
<1>1. CASE \E b \in Browsers : LaunchBrowser(c, b) /\ extra' = extra \ {b} /\ UNCHANGED inNew
  BY <1>1, LaunchStep DEF NewPage
<1>2. CASE \E b \in active :
              /\ HasCapacity(b)
              /\ pc' = [pc EXCEPT ![c] = "awaiting"]
              /\ on' = [on EXCEPT ![c] = b]
              /\ UNCHANGED <<poolVars, browser, counts, inNew, cancelled, late, extra, endVars>>
  <2>1. PICK b \in active :
              /\ HasCapacity(b)
              /\ pc' = [pc EXCEPT ![c] = "awaiting"]
              /\ on' = [on EXCEPT ![c] = b]
              /\ UNCHANGED <<poolVars, browser, counts, inNew, cancelled, late, extra, endVars>>
    BY <1>2
  <2> USE <2>1 DEF BrowserInv, PoolTypeOK, endVars, poolVars, counts, NewPage
  <2>2. PoolTypeOK' /\ CapacityKept' /\ NoLeak' /\ OvertakenKept' /\ RetiredOnce'
    BY DEF CapacityKept, NoLeak, OvertakenKept, RetiredOnce, Places
  <2>3. CallsPlaced'
    BY BrowserPoolAssumption DEF CallsPlaced
  <2>4. OneRuns'
    BY DEF OneRuns, Runs, LimiterFree
  <2>5. OwnBrowsers'
    BY DEF OwnBrowsers
  <2>6. RoomKept'
    BY BrowserPoolAssumption DEF RoomKept, ToCount, Capacity, HasCapacity, LimiterFree, Runs, OwnBrowsers
  <2>7. \A x \in Browsers : PagesIn(x)' = PagesIn(x)
    BY DEF PagesIn
  <2>8. PagesCounted' /\ TimersRetired'
    BY <2>7 DEF PagesCounted, TimersRetired
  <2> QED
    BY <2>2, <2>3, <2>4, <2>5, <2>6, <2>8
<1> QED
  BY <1>1, <1>2 DEF NewPage

-----------------------------------------------------------------------------
(* Calls that end.                                                         *)

(* A call that ends leaves the room it asked for and the page it had.      *)
LEMMA EndsStep ==
    ASSUME BrowserInv, NEW c \in Calls, Ends(c), PoolTypeOK',
           UNCHANGED <<activePages, extra>>,
           \A b \in Browsers : browser[b] \in Settled => browser'[b] \in Settled
    PROVE  OneRuns' /\ OwnBrowsers' /\ RoomKept' /\ PagesCounted' /\ CapacityKept'
<1> USE DEF BrowserInv, PoolTypeOK, endVars, Ends
<1>1. OneRuns'
  BY DEF OneRuns, Runs
<1>2. OwnBrowsers'
  BY DEF OwnBrowsers
<1>3. RoomKept'
  BY DEF RoomKept, ToCount, Capacity
<1>4. PagesCounted'
  BY FewerPagesCounted DEF PagesIn
<1> QED
  BY <1>1, <1>2, <1>3, <1>4 DEF CapacityKept

(* A launch that fails, or was cancelled: the controller leaves the pool   *)
(* or stays behind, and its browser does not run.                          *)
LEMMA LaunchOverStep ==
    ASSUME BrowserInv, NEW c \in Calls, NEW state \in BrowserStates \ {"open"},
           pc[c] = "launching", Becomes(on[c], state), Ends(c),
           active' \in {active, active \ {on[c]}},
           UNCHANGED <<retired, timers, counts, extra, endVars>>
    PROVE  BrowserInv'
<1> USE DEF BrowserInv, PoolTypeOK, endVars, Becomes, Ends, counts
<1>1. PoolTypeOK'
  BY DEF Places
<1>2. on[c] \in Browsers /\ browser[on[c]] \in {"launching", "hooks"}
  BY BrowserPoolAssumption DEF CallsPlaced
<1>3. CallsPlaced'
  BY <1>2, BrowserPoolAssumption DEF CallsPlaced, Settled
<1>4. OneRuns' /\ OwnBrowsers' /\ RoomKept' /\ PagesCounted' /\ CapacityKept'
  BY <1>1, <1>2, EndsStep DEF Settled
<1>5. TimersRetired'
  BY <1>2 DEF TimersRetired, PagesIn, Settled
<1>6. NoLeak' /\ OvertakenKept' /\ RetiredOnce'
  BY <1>2 DEF NoLeak, OvertakenKept, RetiredOnce
<1> QED
  BY <1>1, <1>3, <1>4, <1>5, <1>6

(* The launch goes on: the browser is there, then activated.               *)
LEMMA LaunchGoesOnStep ==
    ASSUME BrowserInv, NEW c \in Calls, pc[c] = "launching",
           \/ Becomes(on[c], "hooks") /\ UNCHANGED callVars
           \/ Becomes(on[c], "open") /\ Goes(c, "awaiting") /\ c \notin cancelled,
           UNCHANGED <<poolVars, counts, extra, endVars>>
    PROVE  BrowserInv'
<1> USE DEF BrowserInv, PoolTypeOK, endVars, Becomes, Goes, poolVars, counts, callVars
<1>1. PoolTypeOK'
  BY DEF Places, BrowserStates
<1>2. on[c] \in Browsers /\ browser[on[c]] \in {"launching", "hooks"}
  BY BrowserPoolAssumption DEF CallsPlaced
<1>3. CallsPlaced'
  BY <1>2, BrowserPoolAssumption DEF CallsPlaced, Settled
<1>4. OneRuns' /\ OwnBrowsers' /\ RoomKept' /\ CapacityKept'
  BY DEF OneRuns, Runs, OwnBrowsers, RoomKept, ToCount, Capacity, CapacityKept
<1>5. \A b \in Browsers : PagesIn(b)' = PagesIn(b)
  BY DEF PagesIn
<1>6. PagesCounted' /\ TimersRetired'
  BY <1>2, <1>5 DEF PagesCounted, TimersRetired, Settled
<1>7. NoLeak' /\ OvertakenKept' /\ RetiredOnce'
  BY <1>2 DEF NoLeak, OvertakenKept, RetiredOnce, CallsPlaced
<1> QED
  BY <1>1, <1>3, <1>4, <1>6, <1>7

(* _launchBrowser, with every way in which it can end.                     *)
LEMMA LaunchingStep ==
    ASSUME BrowserInv, NEW c \in Calls,
           LaunchFails(c) \/ Launched(c) \/ PostLaunchHookFails(c) \/ Activate(c)
    PROVE  BrowserInv'
<1> USE DEF poolVars, BrowserStates
<1>1. CASE LaunchFails(c) \/ PostLaunchHookFails(c)
  BY <1>1, LaunchOverStep DEF LaunchFails, PostLaunchHookFails
<1>2. CASE Launched(c)
  BY <1>2, LaunchOverStep, LaunchGoesOnStep DEF Launched
<1>3. CASE Activate(c)
  BY <1>3, LaunchOverStep, LaunchGoesOnStep DEF Activate
<1> QED
  BY <1>1, <1>2, <1>3

-----------------------------------------------------------------------------
(* _createPageForBrowser.                                                  *)

(* A call that is rejected while it waits, its browser as it was.          *)
LEMMA RejectedStep ==
    ASSUME BrowserInv, NEW c \in Calls, Ends(c), UNCHANGED <<browser, counts, extra, endVars>>,
           active' \subseteq active, active' \cup retired' = active \cup retired,
           active' \cap retired' = {}, timers' = timers
    PROVE  BrowserInv'
<1> USE DEF BrowserInv, PoolTypeOK, endVars, Ends, counts
<1>1. PoolTypeOK'
  BY DEF Places
<1>2. CallsPlaced'
  BY DEF CallsPlaced
<1>3. OneRuns' /\ OwnBrowsers' /\ RoomKept' /\ PagesCounted' /\ CapacityKept'
  BY <1>1, EndsStep
<1>4. TimersRetired'
  BY DEF TimersRetired, PagesIn
<1>5. NoLeak' /\ OvertakenKept' /\ RetiredOnce'
  BY DEF NoLeak, OvertakenKept, RetiredOnce
<1> QED
  BY <1>1, <1>2, <1>3, <1>4, <1>5

(* The page is counted and about to be opened.                             *)
LEMMA OpensPageStep ==
    ASSUME BrowserInv, NEW c \in Calls, OpensPage(c)
    PROVE  BrowserInv'
<1>1. CASE Ends(c) /\ UNCHANGED counts
  BY <1>1, RejectedStep DEF OpensPage, poolVars, BrowserInv, RetiredOnce
<1>2. CASE /\ activePages' = [activePages EXCEPT ![on[c]] = @ + 1]
           /\ totalPages' = [totalPages EXCEPT ![on[c]] = @ + 1]
           /\ pc' = [pc EXCEPT ![c] = "opening"]
           /\ late' = IF on[c] \in active THEN late ELSE late \cup {c}
           /\ UNCHANGED <<on, inNew, cancelled>>
  <2> USE <1>2 DEF BrowserInv, PoolTypeOK, endVars, OpensPage, poolVars
  <2>1. on[c] \in Browsers
    BY BrowserPoolAssumption DEF CallsPlaced
  <2>2. PoolTypeOK'
    <3>1. /\ activePages' \in [Browsers -> Int] /\ totalPages' \in [Browsers -> Nat]
          /\ pc' \in [Calls -> Places]
      BY <2>1 DEF Places
    <3>2. late' \subseteq Calls
      OBVIOUS
    <3> QED
      BY <3>1, <3>2
  <2>3. CallsPlaced' /\ NoLeak' /\ OvertakenKept' /\ RetiredOnce'
    BY DEF CallsPlaced, NoLeak, OvertakenKept, RetiredOnce
  <2>4. OneRuns' /\ OwnBrowsers'
    BY DEF OneRuns, Runs, OwnBrowsers
  <2>5. RoomKept'
    BY <2>1, BrowserPoolAssumption DEF RoomKept, ToCount, Capacity, OneRuns, Runs, OwnBrowsers
  <2>6. CapacityKept'
    BY <2>1, BrowserPoolAssumption DEF RoomKept, ToCount, Capacity, CapacityKept
  <2>7. /\ c \notin PagesIn(on[c]) /\ PagesIn(on[c])' = PagesIn(on[c]) \cup {c}
        /\ \A b \in Browsers \ {on[c]} : PagesIn(b)' = PagesIn(b)
    BY DEF PagesIn
  <2>8. PagesCounted'
    BY <2>1, <2>7, PageCounted
  <2>9. TimersRetired'
    BY DEF TimersRetired, PagesIn
  <2> QED
    BY <2>2, <2>3, <2>4, <2>5, <2>6, <2>8, <2>9
<1> QED
  BY <1>1, <1>2 DEF OpensPage

(* A call that keeps its browser and its page, if it has one, goes on.     *)
LEMMA GoesOnStep ==
    ASSUME BrowserInv, NEW c \in Calls, NEW from \in {"open", "opening", "dead"},
           NEW to \in {"open", "dead", "closing"}, pc[c] = from, Goes(c, to),
           from = "dead" => to = "closing",
           IF from = "open" THEN PageGone(c) /\ to # "open" ELSE UNCHANGED activePages,
           UNCHANGED <<browser, totalPages, extra, endVars, timers>>,
           active' \subseteq active, active' \cup retired' = active \cup retired,
           active' \cap retired' = {}
    PROVE  BrowserInv'
<1> USE DEF BrowserInv, PoolTypeOK, endVars, Goes, PageGone
<1>1. on[c] \in Browsers
  BY BrowserPoolAssumption DEF CallsPlaced
<1>2. PoolTypeOK'
  BY DEF Places
<1>3. CallsPlaced'
  BY DEF CallsPlaced
<1>4. OneRuns' /\ OwnBrowsers'
  BY DEF OneRuns, Runs, OwnBrowsers
<1>5. RoomKept' /\ CapacityKept'
  <2>1. /\ \A b \in Browsers : activePages'[b] <= activePages[b]
        /\ activePages' \in [Browsers -> Int]
    BY <1>1, <1>2
  <2>2. \A d \in Calls : ToCount(d)' => ToCount(d) /\ on[d] \in Browsers
    BY BrowserPoolAssumption DEF ToCount, CallsPlaced
  <2>3. CapacityKept'
    BY <2>1, BrowserPoolAssumption DEF CapacityKept
  <2>4. RoomKept'
    BY <2>1, <2>2, BrowserPoolAssumption DEF RoomKept, Capacity
  <2> QED
    BY <2>3, <2>4
<1>6. PagesCounted'
  <2>1. CASE from = "open"
    <3>1. /\ c \in PagesIn(on[c]) /\ PagesIn(on[c])' = PagesIn(on[c]) \ {c}
          /\ \A b \in Browsers \ {on[c]} : PagesIn(b)' = PagesIn(b)
      BY <2>1 DEF PagesIn
    <3> QED
      BY <1>1, <2>1, <3>1, PageCounted
  <2>2. CASE from # "open"
    <3>1. \A b \in Browsers : PagesIn(b)' \subseteq PagesIn(b)
      BY <2>2 DEF PagesIn
    <3> QED
      BY <2>2, <3>1, FewerPagesCounted
  <2> QED
    BY <2>1, <2>2
<1>7. TimersRetired'
  BY DEF TimersRetired, PagesIn
<1>8. NoLeak' /\ OvertakenKept' /\ RetiredOnce'
  BY DEF NoLeak, OvertakenKept, RetiredOnce
<1> QED
  BY <1>2, <1>3, <1>4, <1>5, <1>6, <1>7, <1>8

(* Retirement moves controllers from one set of the pool to the other.     *)
LEMMA RetiresMoves ==
    ASSUME RetiredOnce, NEW bs, Retires(bs)
    PROVE  /\ active' \subseteq active
           /\ active' \cup retired' = active \cup retired
           /\ active' \cap retired' = {}
           /\ timers' = timers
BY DEF RetiredOnce, Retires

(* The page is open, or could not be opened.                               *)
LEMMA PageOpenedStep ==
    ASSUME BrowserInv, NEW c \in Calls, PageOpened(c) \/ NewPageFails(c)
    PROVE  BrowserInv'
<1>1. PICK bs : Retires(bs)
  BY DEF PageOpened, NewPageFails
<1>2. CASE Ends(c) /\ UNCHANGED <<browser, counts, extra, endVars>>
  BY <1>1, <1>2, RetiresMoves, RejectedStep DEF BrowserInv
<1>3. CASE PageOpened(c) /\ Goes(c, "open")
  BY <1>1, <1>3, RetiresMoves, GoesOnStep DEF PageOpened, counts, BrowserInv
<1> QED
  BY <1>2, <1>3 DEF PageOpened, NewPageFails

-----------------------------------------------------------------------------
(* Closing.                                                                *)

(* page.close() and the death of a page.                                   *)
LEMMA CloseStepKeeps ==
    ASSUME BrowserInv, NEW c \in Calls, CloseStep(c)
    PROVE  BrowserInv'
<1>1. CASE PageDies(c)
  BY <1>1, GoesOnStep DEF PageDies, poolVars, BrowserInv, RetiredOnce
<1>2. CASE ClosePage(c)
  <2>1. CASE /\ Goes(c, "closing")
             /\ IF pc[c] = "open" THEN PageGone(c) ELSE UNCHANGED activePages
    <3>1. /\ UNCHANGED <<browser, totalPages, extra, endVars, timers>>
          /\ active' = active /\ retired' = retired /\ active \cap retired = {}
          /\ pc[c] \in {"open", "dead"}
      BY <1>2 DEF ClosePage, poolVars, BrowserInv, RetiredOnce
    <3> QED
      BY <2>1, <3>1, GoesOnStep
  <2>2. CASE Ends(c) /\ UNCHANGED activePages
    BY <1>2, <2>2, RejectedStep DEF ClosePage, poolVars, counts, BrowserInv, RetiredOnce
  <2> QED
    BY <1>2, <2>1, <2>2 DEF ClosePage
<1>3. CASE PageClosed(c)
  <2> USE <1>3 DEF BrowserInv, PoolTypeOK, endVars, PageClosed, Ends, counts
  <2>1. on[c] \in Browsers /\ browser[on[c]] \in Settled
    BY BrowserPoolAssumption DEF CallsPlaced
  <2>2. PoolTypeOK' /\ CallsPlaced' /\ NoLeak' /\ OvertakenKept' /\ RetiredOnce'
    BY <2>1 DEF CallsPlaced, NoLeak, OvertakenKept, RetiredOnce, Places
  <2>3. OneRuns' /\ OwnBrowsers' /\ RoomKept' /\ PagesCounted' /\ CapacityKept'
    BY <2>2, EndsStep
  <2>4. TimersRetired'
    <3>1. \A b \in Browsers : PagesIn(b)' \subseteq PagesIn(b) /\ c \notin PagesIn(b)
      BY DEF PagesIn
    <3>2. ClosesRetired(on[c]) => on[c] \notin active /\ PagesIn(on[c]) = {}
      BY <2>1, EmptyMeansNoPages DEF ClosesRetired, RetiredOnce
    <3> QED
      BY <2>1, <3>1, <3>2 DEF TimersRetired
  <2> QED
    BY <2>2, <2>3, <2>4
<1> QED
  BY <1>1, <1>2, <1>3 DEF CloseStep

(* Browsers are closed, or crash, and no call takes notice.                *)
LEMMA BrowsersCloseStep ==
    ASSUME BrowserInv, NEW bs, Closes(bs), UNCHANGED <<counts, callVars, extra>>,
           PoolTypeOK', active' \subseteq active, retired' \subseteq retired,
           timers' \subseteq timers,
           destroyed' = "no" =>
              \A c \in Calls : pc[c] = "launching" /\ c \notin cancelled =>
                 on[c] \in active' \cup retired',
           NoLeak', OvertakenKept'
    PROVE  BrowserInv'
<1> USE DEF BrowserInv, PoolTypeOK, Closes, counts, callVars
<1>1. /\ \A b \in Browsers : browser[b] \in Settled => browser'[b] \in Settled
      /\ \A b \in Browsers : browser[b] \notin Settled => browser'[b] = browser[b]
  BY DEF Settled
<1>2. CallsPlaced'
  BY <1>1, BrowserPoolAssumption DEF CallsPlaced, Settled
<1>3. OneRuns' /\ OwnBrowsers' /\ RoomKept' /\ CapacityKept'
  BY DEF OneRuns, Runs, OwnBrowsers, RoomKept, ToCount, Capacity, CapacityKept
<1>4. PagesCounted' /\ TimersRetired'
  BY <1>1 DEF PagesCounted, TimersRetired, PagesIn
<1>5. RetiredOnce'
  BY DEF RetiredOnce
<1> QED
  BY <1>2, <1>3, <1>4, <1>5

(* The timer, the killer and a crash close one browser.                    *)
LEMMA BrowserClosesStep ==
    ASSUME BrowserInv, NEW b \in Browsers, Closes({b}), UNCHANGED <<counts, callVars, extra, endVars>>,
           active' = active, retired' \in {retired, retired \ {b}}, timers' \in {timers, timers \ {b}},
           retired' = retired \/ browser[b] \in Settled
    PROVE  BrowserInv'
<1> USE DEF BrowserInv, PoolTypeOK, endVars, callVars
<1>1. PoolTypeOK'
  BY DEF Closes, BrowserStates, counts
<1>2. \A c \in Calls : pc[c] = "launching" => on[c] \in Browsers /\ browser[on[c]] \notin Settled
  BY BrowserPoolAssumption DEF CallsPlaced, Settled
<1>3. destroyed' = "no" =>
         \A c \in Calls : pc[c] = "launching" /\ c \notin cancelled =>
            on[c] \in active' \cup retired'
  BY <1>2 DEF CallsPlaced
<1>4. NoLeak' /\ OvertakenKept'
  BY DEF NoLeak, OvertakenKept, Closes
<1> QED
  BY <1>1, <1>3, <1>4, BrowsersCloseStep

(* destroy closes what is active, and notes what it overtakes; then the    *)
(* pool forgets its controllers.                                           *)
LEMMA DestroyStep ==
    ASSUME BrowserInv, Destroy \/ Teardown
    PROVE  BrowserInv'
<1> USE DEF BrowserInv, PoolTypeOK, poolVars, callVars, counts
<1>1. CASE Destroy
  <2> USE <1>1 DEF Destroy, Destroys
  <2>1. PoolTypeOK'
    BY DEF Closes, BrowserStates
  <2>2. NoLeak' /\ OvertakenKept'
    BY DEF NoLeak, OvertakenKept, Closes
  <2>3. PICK bs : Closes(bs)
    OBVIOUS
  <2> QED
    BY <2>1, <2>2, <2>3, BrowsersCloseStep
<1>2. CASE Teardown
  <2> USE <1>2 DEF Teardown
  <2>1. PoolTypeOK'
    OBVIOUS
  <2>2. NoLeak' /\ OvertakenKept'
    BY DEF NoLeak, OvertakenKept
  <2>3. Closes({})
    BY DEF Closes
  <2> QED
    BY <2>1, <2>2, <2>3, BrowsersCloseStep
<1> QED
  BY <1>1, <1>2

(* Timers, the killer, crashes and destroy.                                *)
LEMMA ClosingStep ==
    ASSUME BrowserInv,
           \/ Destroy \/ Teardown
           \/ \E b \in Browsers : TimerFires(b) \/ KillerCloses(b) \/ Crash(b)
    PROVE  BrowserInv'
<1>1. ASSUME NEW b \in Browsers, TimerFires(b)
      PROVE  BrowserInv'
  BY <1>1, BrowserClosesStep DEF TimerFires, TimersRetired, BrowserInv
<1>2. ASSUME NEW b \in Browsers, KillerCloses(b)
      PROVE  BrowserInv'
  BY <1>2, BrowserClosesStep DEF KillerCloses
<1>3. ASSUME NEW b \in Browsers, Crash(b)
      PROVE  BrowserInv'
  BY <1>3, BrowserClosesStep DEF Crash, poolVars
<1> QED
  BY <1>1, <1>2, <1>3, DestroyStep

-----------------------------------------------------------------------------
(* Others.                                                                 *)

(* Retirement of browsers, and calls that are cancelled: nothing else of   *)
(* the pool changes.                                                       *)
LEMMA OtherStep ==
    ASSUME BrowserInv,
           UNCHANGED <<browser, counts, pc, on, inNew, late, extra, endVars>>,
           cancelled \subseteq cancelled', cancelled' \subseteq Calls,
           active' \subseteq active, active' \cup retired' = active \cup retired,
           active' \cap retired' = {}, timers' = timers
    PROVE  BrowserInv'
<1> USE DEF BrowserInv, PoolTypeOK, endVars, counts
<1>1. PoolTypeOK' /\ CallsPlaced'
  BY DEF CallsPlaced
<1>2. OneRuns' /\ OwnBrowsers' /\ RoomKept' /\ CapacityKept'
  BY DEF OneRuns, Runs, OwnBrowsers, RoomKept, ToCount, Capacity, CapacityKept
<1>3. PagesCounted' /\ TimersRetired'
  BY DEF PagesCounted, TimersRetired, PagesIn
<1>4. NoLeak' /\ OvertakenKept' /\ RetiredOnce'
  BY DEF NoLeak, OvertakenKept, RetiredOnce
<1> QED
  BY <1>1, <1>2, <1>3, <1>4

(* A pool that starts has neither browsers nor calls.                      *)
LEMMA InitBrowserInv == Init => BrowserInv
<1> SUFFICES ASSUME Init
             PROVE  BrowserInv
  OBVIOUS
<1> USE DEF Init
<1>1. PoolTypeOK
  <2>1. /\ browser \in [Browsers -> BrowserStates]
        /\ activePages \in [Browsers -> Int] /\ totalPages \in [Browsers -> Nat]
    BY DEF BrowserStates
  <2>2. pc \in [Calls -> Places] /\ on \in [Calls -> Browsers \cup {None}]
    BY DEF Places
  <2> QED
    BY <2>1, <2>2 DEF PoolTypeOK
<1>2. CallsPlaced /\ OneRuns /\ OwnBrowsers /\ RoomKept /\ TimersRetired /\ NoLeak
      /\ OvertakenKept /\ RetiredOnce
  BY DEF CallsPlaced, OneRuns, Runs, OwnBrowsers, RoomKept, ToCount, TimersRetired, NoLeak,
         OvertakenKept, RetiredOnce
<1>3. \A b \in Browsers : PagesIn(b) = {} /\ activePages[b] = 0
  BY DEF PagesIn
<1>4. PagesCounted
  BY <1>3, FS_EmptySet DEF PagesCounted
<1>5. CapacityKept
  BY <1>3, BrowserPoolAssumption DEF CapacityKept
<1> QED
  BY <1>1, <1>2, <1>4, <1>5 DEF BrowserInv

(* Every step of the tasks, the pool and its timers keeps it.              *)
LEMMA StepBrowserInv == BrowserInv /\ [Next]_vars => BrowserInv'
<1> SUFFICES ASSUME BrowserInv, [Next]_vars
             PROVE  BrowserInv'
  OBVIOUS
<1>1. ASSUME NEW c \in Calls, NewPage(c) \/ NewPageInNewBrowser(c)
      PROVE  BrowserInv'
  BY <1>1, NewPageStep, LaunchStep DEF NewPageInNewBrowser
<1>2. ASSUME NEW c \in Calls, PageStep(c)
      PROVE  BrowserInv'
  BY <1>2, LaunchingStep, OpensPageStep, PageOpenedStep DEF PageStep
<1>3. ASSUME NEW c \in Calls, Cancel(c)
      PROVE  BrowserInv'
  BY <1>3, OtherStep DEF Cancel, poolVars, BrowserInv, RetiredOnce, PoolTypeOK
<1>4. ASSUME NEW bs, Retires(bs), UNCHANGED <<browser, counts, callVars, extra, endVars>>
      PROVE  BrowserInv'
  BY <1>4, RetiresMoves, OtherStep DEF callVars, BrowserInv, PoolTypeOK
<1>5. ASSUME RetireAllBrowsers \/ \E c \in Calls : ThrowOnBlockedRequest(c)
      PROVE  BrowserInv'
  BY <1>4, <1>5 DEF RetireAllBrowsers, ThrowOnBlockedRequest
<1>6. CASE UNCHANGED vars
  BY <1>6, OtherStep DEF vars, poolVars, callVars, BrowserInv, RetiredOnce, PoolTypeOK
<1> QED
  BY <1>1, <1>2, <1>3, <1>5, <1>6, CloseStepKeeps, ClosingStep DEF Next

-----------------------------------------------------------------------------
(* The inductive invariant of the pool under its tasks, for any number of  *)
(* browsers, calls, pages per browser and faults.                          *)
THEOREM BrowserInvHolds == Spec => []BrowserInv
BY InitBrowserInv, StepBrowserInv, PTL DEF Spec

(* newPage looks for room, waits for the browser and its hooks, and opens  *)
(* its page then: nobody takes the room meanwhile, but the call that       *)
(* launched the browser for itself.                                        *)
THEOREM CapacityKeptHolds == Spec => []CapacityKept
<1>1. BrowserInv => CapacityKept
  BY DEF BrowserInv
<1> QED
  BY <1>1, BrowserInvHolds, PTL

(* Whatever launch, hook, page or caller fails or is cancelled, a browser  *)
(* that was activated is known to the pool until it is closed.             *)
THEOREM NoLeakHolds == Spec => []NoLeak
<1>1. BrowserInv => NoLeak
  BY DEF BrowserInv
<1> QED
  BY <1>1, BrowserInvHolds, PTL

(* The timer, which does not look again, takes late pages only.            *)
THEOREM PagesSparedHolds == Spec => PagesSpared
<1>1. ASSUME BrowserInv, NEW b \in Browsers, TimerFires(b), NEW c \in Calls,
             pc[c] = "open", on[c] = b
      PROVE  c \in late
  BY <1>1 DEF BrowserInv, TimersRetired, PagesIn, TimerFires
<1>2. BrowserInv => [\A b \in Browsers : TimerFires(b) =>
                        \A c \in Calls : pc[c] = "open" /\ on[c] = b => c \in late]_vars
  BY <1>1
<1> QED
  BY <1>2, BrowserInvHolds, PTL DEF PagesSpared

=============================================================================
