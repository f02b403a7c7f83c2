--------------------------- MODULE BrowserCrawler ---------------------------
(***************************************************************************)
(* Tasks of a BrowserCrawler over its BrowserPool.  A task opens a page,   *)
(* navigates, runs the requestHandler and calls page.close() without       *)
(* waiting for it.  Each browser has a session; when the session is        *)
(* retired, the listener that was added after the launch retires the       *)
(* browser.                                                                *)
(***************************************************************************)
EXTENDS BrowserPool

(* A blocked answer, or the handler, retires the session of the page's     *)
(* browser, and with it each browser that is known to have the session.    *)
(* That all browsers may share one session is the worst case.              *)
ThrowOnBlockedRequest(c) ==
    /\ pc[c] = "open"
    /\ \E bs \in SUBSET {b \in active : browser[b] # "launching"} :
          /\ on[c] \in bs \/ on[c] \notin active
          /\ Retires(bs)
    /\ UNCHANGED <<browser, counts, callVars, extra, endVars>>

PageStep(c) ==
    \/ LaunchFails(c) \/ Launched(c) \/ PostLaunchHookFails(c) \/ Activate(c)
    \/ OpensPage(c) \/ PageOpened(c) \/ NewPageFails(c)
CloseStep(c) == ClosePage(c) \/ PageClosed(c) \/ PageDies(c)

Next ==
    \/ \E c \in Calls : \/ NewPage(c) \/ NewPageInNewBrowser(c)
                        \/ PageStep(c) \/ CloseStep(c) \/ Cancel(c)
                        \/ ThrowOnBlockedRequest(c)
    \/ \E b \in Browsers : TimerFires(b) \/ KillerCloses(b) \/ Crash(b)
    \/ RetireAllBrowsers
    \/ Destroy \/ Teardown

(* Launches, hooks and page openings settle: the first by the browser or   *)
(* its timeout, the last by operationTimeoutMillis.  Handlers have a       *)
(* timeout, too.                                                           *)
Spec == Init /\ [][Next]_vars /\ \A c \in Calls : WF_vars(PageStep(c)) /\ WF_vars(CloseStep(c))
-----------------------------------------------------------------------------
(* Properties.                                                             *)

(* A browser has at most maxOpenPagesPerBrowser pages, which newPage       *)
(* checks before it waits for the browser and its hooks; one more if       *)
(* newPageInNewBrowser launched it, whose own page nothing counts until    *)
(* then.                                                                   *)
CapacityKept ==
    \A b \in Browsers :
        activePages[b] <= MaxOpenPagesPerBrowser + (IF b \in extra THEN 1 ELSE 0)

(* A browser that runs is active or retired, so that the killer or destroy *)
(* closes it, and once the pool is destroyed none runs, unless destroy met *)
(* its launch or came before it: such a browser nobody closes.  (Nor those *)
(* of cancelled launches, which are the leaked and stuck ones.)            *)
NoLeak ==
    \A b \in Browsers :
        browser[b] = "open" =>
            b \in overtaken \/ (destroyed # "done" /\ b \in active \cup retired)

(* A timer closes its browser a second after it was found empty, without a *)
(* second look.  It takes no page that was opened before the browser was   *)
(* retired; a newPage that had picked the browser before may lose its.     *)
PagesSpared ==
    [][\A b \in Browsers : TimerFires(b) =>
          \A c \in Calls : pc[c] = "open" /\ on[c] = b => c \in late]_vars

(* The limiter gets free again, so that others get their pages, unless the *)
(* call that holds it waits for a browser whose launch by another call was *)
(* cancelled, or by newPageInNewBrowser failed: nothing ends that wait.    *)
Forsaken(c) ==
    /\ pc[c] = "awaiting"
    /\ \/ browser[on[c]] = "stuck"
       \/ browser[on[c]] \in {"failed", "leaked"} /\ on[c] \in extra
LimiterFreed == ~LimiterFree ~> (LimiterFree \/ \E c \in Calls : Forsaken(c))
=============================================================================
