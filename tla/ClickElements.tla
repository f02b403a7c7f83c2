--------------------------- MODULE ClickElements ---------------------------
(***************************************************************************)
(* enqueueLinksByClickingElements on the page of RequestInterception: the  *)
(* elements of the page are clicked, and every navigation, tab or change   *)
(* of the history that follows is kept from happening and noted.           *)
(***************************************************************************)
EXTENDS RequestInterception

CONSTANTS
    Navigations,    \* requests of PageRequests that would leave the page
    OnIntercepted   \* onInterceptedRequest, the handler of the function

ASSUME ClickAssumption == Navigations \subseteq PageRequests /\ OnIntercepted \in Handlers

VARIABLES
    clicks,         \* how far the function is
    uniqueRequests  \* what was noted

clickVars == <<clicks, uniqueRequests>>

ClickInit == clicks = "none" /\ uniqueRequests = {}
FreshClicks == clicks' = "none" /\ uniqueRequests' = {}

(* Until the page has turned interception on if this is the first handler. *)
AddsHandler ==
    /\ clicks = "none"
    /\ AddInterceptRequestHandler(OnIntercepted)
    /\ clicks' = IF installed = <<>> THEN "enabling" ELSE "clicking"
    /\ uniqueRequests' = {}

Enabled == clicks = "enabling" /\ intercepts /\ "mapped" \in masters /\ calls = <<>>

StartsClicking ==
    /\ Enabled
    /\ clicks' = "clicking"
    /\ UNCHANGED <<interceptionVars, uniqueRequests>>

(* A new tab is closed and a change of the main frame is noted.            *)
TargetCreated(q) ==
    /\ clicks = "clicking"
    /\ uniqueRequests' = uniqueRequests \cup {q}
    /\ UNCHANGED <<interceptionVars, clicks>>

(* The page was idle for a while, or it was not but the time is up; what   *)
(* the page pushed to its history is noted.                                *)
PageIdle ==
    /\ clicks = "clicking"
    /\ clicks' = "idle"
    /\ \E pushed \in {{}} \cup {{q} : q \in Navigations} :
          uniqueRequests' = uniqueRequests \cup pushed
    /\ UNCHANGED interceptionVars

RemovesHandler ==
    /\ clicks = "idle"
    /\ RemoveInterceptRequestHandler(OnIntercepted)
    /\ clicks' = "disabling"
    /\ UNCHANGED uniqueRequests

(* The removal waits for the page only if it was done at once.             *)
Clicked ==
    /\ clicks = "disabling"
    /\ installed # <<>> \/ onDelete # {} \/ calls = <<>>

(* A request in a handler: user code decides as it likes, the function     *)
(* notes and stops navigations of the main frame and lets the rest go.     *)
HandlerDecides(q) ==
    /\ rest[q] # <<>>
    /\ LET h == Head(rest[q])
           leaves == q \in Navigations
       IN /\ \/ HandlerContinues(q) /\ (h = OnIntercepted => ~leaves)
             \/ HandlerStops(q) /\ (h = OnIntercepted => leaves)
          /\ uniqueRequests' = IF h = OnIntercepted /\ leaves
                               THEN uniqueRequests \cup {q} ELSE uniqueRequests
    /\ UNCHANGED clicks
=============================================================================
