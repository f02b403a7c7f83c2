---------------------------- MODULE BrowserPool ----------------------------
(***************************************************************************)
(* BrowserPool and BrowserController: pages are opened in browsers that    *)
(* are launched when none has room, retired after a number of pages or an  *)
(* error, and closed when they are empty or idle.  newPage runs under a    *)
(* limiter, one call at a time; newPageInNewBrowser does not.              *)
(*                                                                         *)
(* A call whose caller gave up (its timeout passed) goes on until the next *)
(* tryCancel, which throws.  There is one plugin, and a controller whose   *)
(* browser is gone for good stands for the next one that is created.       *)
(***************************************************************************)
EXTENDS Naturals, FiniteSets

CONSTANTS
    Browsers,                       \* controllers
    Calls,                          \* page ids: each is one call at a time
    None,
    MaxOpenPagesPerBrowser,
    RetireBrowserAfterPageCount,
    Faults                          \* what may go wrong

ASSUME BrowserPoolAssumption ==
    /\ None \notin Browsers
    /\ {MaxOpenPagesPerBrowser, RetireBrowserAfterPageCount} \subseteq Nat \ {0}
    /\ Faults \subseteq {"launch", "postLaunchHook", "createHook", "newPage",
                         "closeHook", "crash", "cancel"}

VARIABLES
    active, retired,  \* activeBrowserControllers, retiredBrowserControllers
    timers,           \* controllers that a setTimeout will close
    browser,          \* controller |-> state of its browser
    activePages, totalPages,
    pc,               \* call |-> where it is
    on,               \* call |-> its controller
    inNew,            \* calls of newPageInNewBrowser
    cancelled,        \* calls whose caller gave up
    late,             \* history: calls whose page was opened in a retired browser
    extra,            \* history: controllers launched by newPageInNewBrowser
    destroyed,        \* "no", "closing" (destroy waits for the browsers to close), "done"
    overtaken         \* history: controllers that were launching when destroy began, or later

poolVars == <<active, retired, timers>>
counts == <<activePages, totalPages>>
callVars == <<pc, on, inNew, cancelled, late>>
endVars == <<destroyed, overtaken>>
vars == <<poolVars, browser, counts, callVars, extra, endVars>>

(* launching: no browser yet; hooks: assigned, not yet activated; open;    *)
(* closed; failed: no browser, or closed before it was activated; leaked   *)
(* and stuck: left behind by a cancelled launch, without a controller in   *)
(* the pool or with one that is never activated.                           *)
BrowserStates ==
    {"none", "launching", "hooks", "open", "closed", "failed", "leaked", "stuck"}
Settled == {"open", "closed"}               \* isActivePromise has resolved

Init ==
    /\ active = {} /\ retired = {} /\ timers = {}
    /\ browser = [b \in Browsers |-> "none"]
    /\ activePages = [b \in Browsers |-> 0]
    /\ totalPages = [b \in Browsers |-> 0]
    /\ pc = [c \in Calls |-> "idle"]
    /\ on = [c \in Calls |-> None]
    /\ inNew = {} /\ cancelled = {} /\ late = {} /\ extra = {}
    /\ destroyed = "no" /\ overtaken = {}

-----------------------------------------------------------------------------
Goes(c, where) == pc' = [pc EXCEPT ![c] = where] /\ UNCHANGED <<on, inNew, cancelled, late>>

(* The call is over: its promise was resolved or rejected, its page closed. *)
Ends(c) ==
    /\ pc' = [pc EXCEPT ![c] = "idle"]
    /\ on' = [on EXCEPT ![c] = None]
    /\ inNew' = inNew \ {c} /\ cancelled' = cancelled \ {c} /\ late' = late \ {c}

Becomes(b, state) == browser' = [browser EXCEPT ![b] = state]

(* retireBrowserController of each of these: nothing for those that are    *)
(* retired or gone.                                                        *)
Retires(bs) ==
    /\ retired' = retired \cup (bs \cap active)
    /\ active' = active \ bs
    /\ UNCHANGED timers

Unused(b) ==
    /\ browser[b] \in {"none", "closed", "failed"}
    /\ b \notin active \cup retired \cup timers
    /\ \A c \in Calls : on[c] # b

(* createController; from here on the controller is one of the pool's.     *)
LaunchBrowser(c, b) ==
    /\ Unused(b)
    /\ active' = active \cup {b}
    /\ Becomes(b, "launching")
    /\ activePages' = [activePages EXCEPT ![b] = 0]
    /\ totalPages' = [totalPages EXCEPT ![b] = 0]
    /\ pc' = [pc EXCEPT ![c] = "launching"]
    /\ on' = [on EXCEPT ![c] = b]
    /\ overtaken' = IF destroyed = "no" THEN overtaken ELSE overtaken \cup {b}
    /\ UNCHANGED <<retired, timers, cancelled, late, destroyed>>

-----------------------------------------------------------------------------
(* newPage.                                                                *)

(* The call that the limiter lets run.                                     *)
Runs(c) == c \notin inNew /\ pc[c] \in {"launching", "awaiting", "opening"}

(* Mutant: no limiter.                                                     *)
NoLimiter == TRUE

LimiterFree == \A c \in Calls : ~Runs(c)

HasCapacity(b) == activePages[b] < MaxOpenPagesPerBrowser

(* The first active controller with capacity, or a new one.  A call that   *)
(* was cancelled while it waited for the limiter is cancelled right after. *)
(* A pool that was destroyed still does all this for a task that is left.  *)
NewPage(c) ==
    /\ pc[c] = "idle" /\ LimiterFree
    /\ \/ \E b \in {x \in active : HasCapacity(x)} :
             /\ pc' = [pc EXCEPT ![c] = "awaiting"]
             /\ on' = [on EXCEPT ![c] = b]
             /\ UNCHANGED <<poolVars, browser, counts, inNew, cancelled, late, extra, endVars>>
       \/ /\ \A b \in active : ~HasCapacity(b)
          /\ \E b \in Browsers : LaunchBrowser(c, b) /\ extra' = extra \ {b}
          /\ UNCHANGED inNew

NewPageInNewBrowser(c) ==
    /\ pc[c] = "idle"
    /\ \E b \in Browsers : LaunchBrowser(c, b) /\ extra' = extra \cup {b}
    /\ inNew' = inNew \cup {c}

-----------------------------------------------------------------------------
(* _launchBrowser.                                                         *)

(* Mutant: the controller stays in limbo without a browser.                *)
LaunchFailsKept(c) ==
    /\ "launch" \in Faults
    /\ pc[c] = "launching" /\ browser[on[c]] = "launching"
    /\ Becomes(on[c], "failed")
    /\ Ends(c)
    /\ UNCHANGED <<poolVars, counts, extra, endVars>>

(* A preLaunchHook or the launch throws.                                   *)
LaunchFails(c) ==
    /\ "launch" \in Faults
    /\ pc[c] = "launching" /\ browser[on[c]] = "launching"
    /\ active' = active \ {on[c]}
    /\ Becomes(on[c], "failed")
    /\ Ends(c)
    /\ UNCHANGED <<retired, timers, counts, extra, endVars>>

(* The browser runs.  The tryCancel behind launch drops the controller     *)
(* without closing it.                                                     *)
Launched(c) ==
    /\ pc[c] = "launching" /\ browser[on[c]] = "launching"
    /\ IF c \in cancelled
       THEN /\ active' = active \ {on[c]}
            /\ Becomes(on[c], "leaked")
            /\ Ends(c)
       ELSE /\ Becomes(on[c], "hooks")
            /\ UNCHANGED <<active, callVars>>
    /\ UNCHANGED <<retired, timers, counts, extra, endVars>>

(* A postLaunchHook throws: the browser is closed.                         *)
PostLaunchHookFails(c) ==
    /\ "postLaunchHook" \in Faults
    /\ pc[c] = "launching" /\ browser[on[c]] = "hooks"
    /\ active' = active \ {on[c]}
    /\ Becomes(on[c], "failed")
    /\ Ends(c)
    /\ UNCHANGED <<retired, timers, counts, extra, endVars>>

(* The tryCancel before activate leaves the controller as it is.           *)
Activate(c) ==
    /\ pc[c] = "launching" /\ browser[on[c]] = "hooks"
    /\ IF c \in cancelled THEN Becomes(on[c], "stuck") /\ Ends(c)
       ELSE Becomes(on[c], "open") /\ Goes(c, "awaiting")
    /\ UNCHANGED <<poolVars, counts, extra, endVars>>

-----------------------------------------------------------------------------
(* _createPageForBrowser.                                                  *)

(* isActivePromise and the prePageCreateHooks are done: newPage of the     *)
(* controller counts the page before it opens it.                          *)
OpensPage(c) ==
    /\ pc[c] = "awaiting" /\ browser[on[c]] \in Settled
    /\ \/ /\ c \in cancelled \/ "createHook" \in Faults
          /\ Ends(c)
          /\ UNCHANGED counts
       \/ /\ c \notin cancelled
          /\ activePages' = [activePages EXCEPT ![on[c]] = @ + 1]
          /\ totalPages' = [totalPages EXCEPT ![on[c]] = @ + 1]
          /\ pc' = [pc EXCEPT ![c] = "opening"]
          /\ late' = IF on[c] \in active THEN late ELSE late \cup {c}
          /\ UNCHANGED <<on, inNew, cancelled>>
    /\ UNCHANGED <<poolVars, browser, extra, endVars>>

(* The page is open; a tryCancel, or a postPageCreateHook that throws,     *)
(* leaves it without an owner.                                             *)
PageOpened(c) ==
    /\ pc[c] = "opening" /\ browser[on[c]] = "open"
    /\ \/ /\ c \notin cancelled
          /\ Goes(c, "open")
       \/ /\ c \in cancelled \/ "createHook" \in Faults
          /\ Ends(c)
    /\ Retires(IF c \in cancelled \/ totalPages[on[c]] >= RetireBrowserAfterPageCount
               THEN {on[c]} ELSE {})
    /\ UNCHANGED <<browser, counts, extra, endVars>>

(* It throws or takes longer than operationTimeoutMillis; activePages      *)
(* stays as it is.                                                         *)
NewPageFails(c) ==
    /\ pc[c] = "opening"
    /\ "newPage" \in Faults \/ browser[on[c]] = "closed"
    /\ Retires({on[c]})
    /\ Ends(c)
    /\ UNCHANGED <<browser, counts, extra, endVars>>

-----------------------------------------------------------------------------
(* Closing.                                                                *)

PageGone(c) == activePages' = [activePages EXCEPT ![on[c]] = @ - 1]

(* The 'close' event of a page whose browser was closed or crashed.        *)
PageDies(c) ==
    /\ pc[c] = "open" /\ browser[on[c]] = "closed"
    /\ PageGone(c)
    /\ Goes(c, "dead")
    /\ UNCHANGED <<poolVars, browser, totalPages, extra, endVars>>

(* page.close(): the prePageCloseHooks and the original close.             *)
ClosePage(c) ==
    /\ pc[c] \in {"open", "dead"}
    /\ \/ /\ IF pc[c] = "open" THEN PageGone(c) ELSE UNCHANGED activePages
          /\ Goes(c, "closing")
       \/ /\ "closeHook" \in Faults
          /\ Ends(c)
          /\ UNCHANGED activePages
    /\ UNCHANGED <<poolVars, browser, totalPages, extra, endVars>>

(* Mutant: pages that are still open do not count.                         *)
ClosesRetiredAnyway(b) == b \in retired

ClosesRetired(b) == activePages[b] = 0 /\ b \in retired

(* After the postPageCloseHooks a retired browser without pages gets a     *)
(* timer.                                                                  *)
PageClosed(c) ==
    /\ pc[c] = "closing"
    /\ timers' = IF ClosesRetired(on[c]) THEN timers \cup {on[c]} ELSE timers
    /\ Ends(c)
    /\ UNCHANGED <<active, retired, browser, counts, extra, endVars>>

Closes(bs) ==
    browser' = [b \in Browsers |-> IF b \in bs /\ browser[b] = "open" THEN "closed"
                                   ELSE browser[b]]

(* The timer does not look again.                                          *)
TimerFires(b) ==
    /\ b \in timers
    /\ timers' = timers \ {b}
    /\ retired' = retired \ {b}
    /\ Closes({b})
    /\ UNCHANGED <<active, counts, callVars, extra, endVars>>

(* _closeInactiveRetiredBrowsers: a retired browser that is empty, or in   *)
(* which no page was opened for closeInactiveBrowserAfterMillis.  Its      *)
(* close waits for a browser, so the interval stops at a controller that   *)
(* never got one.  destroy clears the interval; a round that is under way  *)
(* goes on while destroy waits.                                            *)
KillerCloses(b) ==
    /\ b \in retired /\ destroyed # "done"
    /\ browser[b] \in Settled
    /\ retired' = retired \ {b}
    /\ Closes({b})
    /\ UNCHANGED <<active, timers, counts, callVars, extra, endVars>>

-----------------------------------------------------------------------------
(* Others.                                                                 *)

RetireAllBrowsers ==
    /\ active # {}
    /\ Retires(active)
    /\ UNCHANGED <<browser, counts, callVars, extra, endVars>>

(* Mutant: the controllers that were retired are forgotten.                *)
DestroysActive == Closes(active)

(* closeAllBrowsers.                                                       *)
Destroys == Closes(active \cup retired)

(* The controllers that are active are closed; isActive is set after the   *)
(* hooks of a launch, so one that is being launched is passed over.  The   *)
(* tasks of an aborted or failed run, and calls whose caller gave up, may  *)
(* still be anywhere.                                                      *)
Destroy ==
    /\ destroyed = "no"
    /\ Destroys
    /\ destroyed' = "closing"
    /\ overtaken' = {b \in Browsers : browser[b] \in {"launching", "hooks"}}
    /\ UNCHANGED <<poolVars, counts, callVars, extra>>

(* _teardown, when they are closed.                                        *)
Teardown ==
    /\ destroyed = "closing"
    /\ active' = {} /\ retired' = {}
    /\ destroyed' = "done"
    /\ UNCHANGED <<timers, browser, counts, callVars, extra, overtaken>>

Crash(b) ==
    /\ "crash" \in Faults
    /\ browser[b] = "open"
    /\ Closes({b})
    /\ UNCHANGED <<poolVars, counts, callVars, extra, endVars>>

Cancel(c) ==
    /\ "cancel" \in Faults
    /\ pc[c] \in {"launching", "awaiting", "opening"}
    /\ c \notin cancelled
    /\ cancelled' = cancelled \cup {c}
    /\ UNCHANGED <<poolVars, browser, counts, pc, on, inNew, late, extra, endVars>>
=============================================================================
