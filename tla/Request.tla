------------------------------ MODULE Request ------------------------------
(***************************************************************************)
(* A Request: which options it accepts, the error messages it collects,    *)
(* and its userData, which hides what the crawlers note about the request  *)
(* (__crawlee) in the user's own object.  Its unique key is the business   *)
(* of RequestSources.                                                      *)
(***************************************************************************)
EXTENDS Naturals, Sequences

CONSTANT Undef

Given(x) == x # Undef

-----------------------------------------------------------------------------
(* Options.  A payload and an error message are their types; what throws   *)
(* yields Undef.                                                           *)

Upper(method) == IF method \in {"get", "GET"} THEN "GET" ELSE "POST"

Accepts(options) ==
    /\ ~options.unexpected
    /\ options.payload \in {Undef, "string", "buffer"}
    /\ \A i \in DOMAIN options.errorMessages : options.errorMessages[i] = "string"
    /\ ~(Upper(options.method) = "GET" /\ Given(options.payload))

NewRequest(options) ==
    IF ~Accepts(options) THEN Undef ELSE [options EXCEPT !.method = Upper(@)]

(* JSON, as the queue keeps it: what has no form of its own there changes  *)
(* its type.                                                               *)
Saved(request) ==
    [ request EXCEPT
        !.payload = IF @ = "buffer" THEN "object" ELSE @,
        !.errorMessages = [i \in DOMAIN @ |-> IF @[i] = "undefined" THEN "null" ELSE @[i]] ]

(* thrown is [kind, message, stack, text], the last three the types of     *)
(* what it has; an object without a prototype cannot become a string.      *)
MessageOf(thrown, omitStack) ==
    CASE thrown.kind = "error" -> IF omitStack THEN thrown.message ELSE thrown.stack
      [] thrown.kind = "object" /\ Given(thrown.message) -> thrown.message
      [] thrown.kind = "object" /\ ~Given(thrown.message) /\ ~Given(thrown.text) -> Undef
      [] OTHER -> "string"

PushErrorMessage(request, thrown, omitStack) ==
    LET message == MessageOf(thrown, omitStack)
    IN  IF message = Undef THEN Undef ELSE [request EXCEPT !.errorMessages = Append(@, message)]

-----------------------------------------------------------------------------
(* userData.  The heap has, by name,                                       *)
(*   objects   the users' objects: label, __crawlee (the name of a note),  *)
(*             whether JSON brought it, and the request whose toJSON it    *)
(*             got last;                                                   *)
(*   notes     what a __crawlee says of skipNavigation, or Undef;          *)
(*   userData  the object of each request.                                 *)

Object(label, crawlee, parsed) ==
    [label |-> label, crawlee |-> crawlee, parsed |-> parsed, owner |-> Undef]

(* The setter of userData: the new object takes over __crawlee of the old  *)
(* one, and a toJSON of this request.                                      *)
Adopt(heap, r, o, crawlee) ==
    [ heap EXCEPT !.objects[o].crawlee = crawlee, !.objects[o].parsed = FALSE,
                  !.objects[o].owner = r, !.userData[r] = o ]

SetUserData(heap, r, o) == Adopt(heap, r, o, heap.objects[heap.userData[r]].crawlee)

SkipNavigation(heap, r) == heap.notes[heap.objects[heap.userData[r]].crawlee] = TRUE

SetSkipNavigation(heap, r, value) ==
    [heap EXCEPT !.notes[heap.objects[heap.userData[r]].crawlee] = value]

Label(heap, r) == heap.objects[heap.userData[r]].label

SetLabel(heap, r, value) == [heap EXCEPT !.objects[heap.userData[r]].label = value]

(* The constructor: a __crawlee is copied into _userData if it shows, as   *)
(* it does in parsed JSON; otherwise the request gets a new one, r.        *)
Construct(heap, r, o, skipNavigation) ==
    LET kept == heap.objects[o].parsed /\ Given(heap.objects[o].crawlee)
        crawlee == IF kept THEN heap.objects[o].crawlee ELSE r
        made == Adopt(IF kept THEN heap ELSE [heap EXCEPT !.notes[r] = Undef], r, o, crawlee)
    IN  IF Given(skipNavigation) THEN SetSkipNavigation(made, r, skipNavigation) ELSE made

(* toJSON of an object is that of its last owner, and speaks of the        *)
(* object this owner has now.                                              *)
ToJSON(heap, r) ==
    LET owner == heap.objects[heap.userData[r]].owner
        object == heap.objects[heap.userData[owner]]
    IN  [label |-> object.label, crawlee |-> heap.notes[object.crawlee]]

(* A request loaded from its JSON: object o and note n are new.            *)
Load(heap, r, json, o, n) ==
    LET parsed == [ heap EXCEPT
                      !.objects[o] = Object(json.label, IF Given(json.crawlee) THEN n ELSE Undef, TRUE),
                      !.notes[n] = json.crawlee ]
    IN  Construct(parsed, r, o, Undef)
=============================================================================
