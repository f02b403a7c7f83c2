------------------------ MODULE RequestInterception ------------------------
(***************************************************************************)
(* The interception of the requests of one Puppeteer page: user code adds  *)
(* and removes handlers while the page sends requests and handlers work on *)
(* them.  The page turns interception on and off when told so, one call    *)
(* after the other, each with a delay.  When it is off, or goes off, the   *)
(* page sends its requests itself.                                         *)
(***************************************************************************)
EXTENDS Integers, Sequences, FiniteSets, SequencesExt, Functions

CONSTANTS
    Handlers,       \* functions that can be added as handlers
    PageRequests    \* requests that the page may send

VARIABLES
    installed,      \* pageInterceptRequestHandlersMap: the handlers of the page
    masters,        \* masterHandlers on the page: the one in the Map, an older one
    intercepts,     \* the page holds its requests back
    calls,          \* setRequestInterception: calls that the page has not done yet
    onDelete,       \* removals that wait for the last request in progress
    inProgress,     \* pageInterceptedRequestsMap: requests in progress
    rest,           \* request |-> handlers it has still to go through
    sharing,        \* requests that go through the very array of the page
    fate,           \* request |-> what became of it
    crashed,        \* continue, abort or respond was called without interception
    overtaken       \* history: a first handler was added while a removal waited

pageVars == <<installed, masters, intercepts, calls, onDelete, inProgress, rest, sharing, fate>>
interceptionVars == <<pageVars, crashed, overtaken>>

Fates == {"unsent", "held", "sent", "stopped"}

FreshPage ==
    /\ installed' = <<>> /\ masters' = {} /\ intercepts' = FALSE
    /\ calls' = <<>> /\ onDelete' = {}
    /\ inProgress' = {} /\ sharing' = {}
    /\ rest' = [q \in PageRequests |-> <<>>]
    /\ fate' = [q \in PageRequests |-> "unsent"]
    /\ crashed' = FALSE /\ overtaken' = FALSE

InterceptionInit ==
    /\ installed = <<>> /\ masters = {} /\ intercepts = FALSE
    /\ calls = <<>> /\ onDelete = {}
    /\ inProgress = {} /\ sharing = {}
    /\ rest = [q \in PageRequests |-> <<>>]
    /\ fate = [q \in PageRequests |-> "unsent"]
    /\ crashed = FALSE /\ overtaken = FALSE

Enable == [on |-> TRUE, listener |-> {}]
Disable(listener) == [on |-> FALSE, listener |-> listener]
TurningOff == onDelete # {} \/ \E i \in DOMAIN calls : ~calls[i].on

-----------------------------------------------------------------------------
(* The handler is pushed to the array of the page, which requests that go  *)
(* through it see; the first one turns interception on.                    *)
AddInterceptRequestHandler(h) ==
    /\ h \notin Range(installed)
    /\ installed' = Append(installed, h)
    /\ rest' = [q \in PageRequests |-> IF q \in sharing THEN Append(rest[q], h) ELSE rest[q]]
    /\ calls' = IF installed = <<>> THEN Append(calls, Enable) ELSE calls
    /\ overtaken' = (overtaken \/ (installed = <<>> /\ TurningOff))
    /\ UNCHANGED <<masters, intercepts, onDelete, inProgress, sharing, fate, crashed>>

(* A new array without the handler; when it is empty interception is       *)
(* turned off, now or when no request is in progress.                      *)
TurnsOffAtOnce(h) == calls' = Append(calls, Disable({})) /\ UNCHANGED onDelete

TurnsOff(h) ==
    IF inProgress = {}
    THEN calls' = Append(calls, Disable({})) /\ UNCHANGED onDelete
    ELSE onDelete' = onDelete \cup {h} /\ UNCHANGED calls

RemoveInterceptRequestHandler(h) ==
    /\ h \in Range(installed)
    /\ \E i \in DOMAIN installed : installed[i] = h /\ installed' = RemoveAt(installed, i)
    /\ sharing' = {}
    /\ IF installed' = <<>> THEN TurnsOff(h) ELSE UNCHANGED <<calls, onDelete>>
    /\ UNCHANGED <<masters, intercepts, inProgress, rest, fate, crashed, overtaken>>

(* The page has done the first call, and the code behind its await runs: a *)
(* masterHandler is attached, or the one in the Map is taken off.          *)
PageDoesCall ==
    /\ calls # <<>>
    /\ intercepts' = Head(calls).on
    /\ calls' = Tail(calls)
    /\ IF Head(calls).on
       THEN /\ masters' = (IF masters = {} THEN {"mapped"} ELSE {"mapped", "older"})
            /\ UNCHANGED <<onDelete, fate>>
       ELSE /\ masters' = masters \ {"mapped"}
            /\ onDelete' = onDelete \ Head(calls).listener
            /\ fate' = [q \in PageRequests |-> IF fate[q] = "held" THEN "sent" ELSE fate[q]]
    /\ UNCHANGED <<installed, inProgress, rest, sharing, crashed, overtaken>>

-----------------------------------------------------------------------------
(* The set of requests in progress tells its listeners of every deletion;  *)
(* each that finds it empty turns interception off.                        *)
Deleted(q) ==
    /\ inProgress' = inProgress \ {q}
    /\ calls' = IF inProgress' = {}
                THEN calls \o [i \in 1 .. Cardinality(onDelete) |-> Disable(onDelete)]
                ELSE calls

Held(q) == fate' = [fate EXCEPT ![q] = IF intercepts THEN "held" ELSE "sent"]

(* The page sends a request; one that is neither held nor seen by a        *)
(* masterHandler is left out.  Without handlers handleRequest returns at   *)
(* once.  Two masterHandlers would run the handlers twice: a second abort  *)
(* or respond throws, a second continue does nothing.                      *)
PageSends(q) ==
    /\ fate[q] = "unsent"
    /\ intercepts \/ masters # {}
    /\ Held(q)
    /\ IF masters = {} THEN UNCHANGED <<inProgress, rest, sharing, calls, crashed>>
       ELSE IF installed = <<>> THEN
            /\ Deleted(q)
            /\ UNCHANGED <<rest, sharing, crashed>>
       ELSE /\ inProgress' = inProgress \cup {q}
            /\ rest' = [rest EXCEPT ![q] = installed]
            /\ sharing' = sharing \cup {q}
            /\ UNCHANGED crashed \/ (masters = {"mapped", "older"} /\ crashed' = TRUE)
            /\ UNCHANGED calls
    /\ UNCHANGED <<installed, masters, intercepts, onDelete, overtaken>>

(* A handler is done with a request: the next one gets it, or it is sent,  *)
(* stopped by abort or respond, or it cannot be, for want of interception. *)
Decides(q, decision) ==
    /\ rest' = [rest EXCEPT ![q] = <<>>]
    /\ sharing' = sharing \ {q}
    /\ Deleted(q)
    /\ IF intercepts
       THEN fate' = [fate EXCEPT ![q] = decision] /\ UNCHANGED crashed
       ELSE crashed' = TRUE /\ UNCHANGED fate

HandlerContinues(q) ==
    /\ rest[q] # <<>>
    /\ IF Len(rest[q]) > 1
       THEN /\ rest' = [rest EXCEPT ![q] = Tail(@)]
            /\ UNCHANGED <<sharing, inProgress, calls, fate, crashed>>
       ELSE Decides(q, "sent")
    /\ UNCHANGED <<installed, masters, intercepts, onDelete, overtaken>>

HandlerStops(q) ==
    /\ rest[q] # <<>>
    /\ Decides(q, "stopped")
    /\ UNCHANGED <<installed, masters, intercepts, onDelete, overtaken>>
-----------------------------------------------------------------------------
(* No handler decides on a request when the page does not hold requests    *)
(* back, which "would throw and crash the process" (handleRequest), and    *)
(* when all handlers are gone and done the page is as it was before: it    *)
(* holds nothing back and nothing listens to it.  This needs that nobody   *)
(* adds a first handler while the removal of the last one is waiting.      *)
InterceptionKept ==
    \/ overtaken
    \/ /\ ~crashed
       /\ installed = <<>> /\ inProgress = {} /\ calls = <<>> =>
             /\ ~intercepts /\ masters = {} /\ onDelete = {}
             /\ \A q \in PageRequests : fate[q] # "held"
=============================================================================
