---------------------------- MODULE EventManager ----------------------------
(***************************************************************************)
(* The two event managers of a process: LocalEventManager, which the       *)
(* configuration makes for whoever asks first, and PlatformEventManager,   *)
(* which Actor makes and, on the platform, gives to the configuration.     *)
(* Emitting calls the listeners at once, so it is part of the action that  *)
(* emits; what a listener does is the business of the module that adds it. *)
(***************************************************************************)
EXTENDS FiniteSets

Managers == {"local", "platform"}

VARIABLE events   \* manager -> initialized, interval of persistState, web
                  \* socket, and who listens to persistState

NoEvents == [initialized |-> FALSE, persists |-> FALSE, socket |-> FALSE, listeners |-> {}]

EventsInit == events = [m \in Managers |-> NoEvents]

\* init() of PlatformEventManager.  The web socket is there at home only.
\* Nothing in the packages calls init() of LocalEventManager.
InitEventsSilent(atHome) ==
    events' = [events EXCEPT !["platform"] = [@ EXCEPT
                  !.initialized = TRUE, !.persists = FALSE, !.socket = atHome]]

InitEvents(atHome) ==
    events' = [events EXCEPT !["platform"] = IF @.initialized THEN @
                  ELSE [@ EXCEPT !.initialized = TRUE, !.persists = TRUE, !.socket = atHome]]

CloseEvents ==
    events' = [events EXCEPT !["platform"] = IF ~@.initialized THEN @
                  ELSE [@ EXCEPT !.initialized = FALSE, !.persists = FALSE, !.socket = FALSE]]

On(m, l)  == events' = [events EXCEPT ![m].listeners = @ \cup {l}]
Off(m, l) == events' = [events EXCEPT ![m].listeners = @ \ {l}]

\* The interval of persistState fires.
Ticks(m) == events[m].persists
Hears(m, l) == l \in events[m].listeners

\* A message of the platform; after "migrating" the interval is cleared.
Receives(m) == events[m].socket
StopsTicking(m) == events' = [events EXCEPT ![m].persists = FALSE]
=============================================================================
