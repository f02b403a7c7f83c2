--------------------------- MODULE ScraperProofs ---------------------------
(***************************************************************************)
(* The scrapers keep their limits and their records, whatever fails, is    *)
(* late or starts again, and the interception of a page is left as it was. *)
(***************************************************************************)
EXTENDS Scraper, FiniteSetTheorems, TLAPS

-----------------------------------------------------------------------------
(* The interception of a page, as long as no first handler was added while *)
(* the removal of the last one was waiting.                                *)
Removals == {{}} \cup {{h} : h \in Handlers}

PageCalls == [on : BOOLEAN, listener : SUBSET Handlers]

InterceptionTypeOK ==
    /\ installed \in Seq(Handlers)
    /\ masters \in {{}, {"mapped"}}
    /\ intercepts \in BOOLEAN
    /\ calls \in Seq(PageCalls)
    /\ onDelete \in Removals
    /\ inProgress \subseteq PageRequests
    /\ rest \in [PageRequests -> Seq(Handlers)]
    /\ fate \in [PageRequests -> Fates]

(* Requests are in progress, or held, only when the page intercepts.       *)
RequestsKept ==
    /\ intercepts <=> masters = {"mapped"}
    /\ inProgress # {} => intercepts /\ calls = <<>>
    /\ \A q \in PageRequests : rest[q] # <<>> => q \in inProgress
    /\ sharing \subseteq inProgress
    /\ \A q \in inProgress : fate[q] # "unsent"
    /\ \A q \in PageRequests : fate[q] = "held" => intercepts

(* With a handler the page intercepts or is about to.                      *)
TurnedOn ==
    /\ onDelete = {}
    /\ \/ calls = <<>> /\ intercepts
       \/ calls = <<Enable>> /\ ~intercepts

(* Without one it will not when the calls are done: the first of them may  *)
(* still turn it on, and if a removal has waited they all turn it off.     *)
TurnedOff ==
    /\ \A i \in DOMAIN calls : calls[i].on => i = 1
    /\ calls # <<>> => ~calls[Len(calls)].on
    /\ calls # <<>> /\ calls[1].on => ~intercepts /\ onDelete = {}
    /\ calls = <<>> => ~intercepts /\ onDelete = {}
    /\ onDelete # {} => \A i \in DOMAIN calls : calls[i].listener = onDelete

(* ... or as soon as the last request in progress is done.                 *)
WillTurnOff == inProgress # {} /\ onDelete # {}

PageKept ==
    /\ InterceptionTypeOK /\ RequestsKept
    /\ ~crashed
    /\ installed # <<>> => TurnedOn
    /\ installed = <<>> => (inProgress = {} /\ TurnedOff) \/ WillTurnOff

PageInv == overtaken \/ PageKept


(* A new page is as it should be.                                          *)
LEMMA InitKept == InterceptionInit => PageKept
<1> SUFFICES ASSUME InterceptionInit
             PROVE  PageKept
  OBVIOUS
<1>1. InterceptionTypeOK
  <2>1. installed = <<>> /\ calls = <<>> /\ inProgress = {} /\ masters = {} /\ intercepts = FALSE
    BY DEF InterceptionInit
  <2>2. installed \in Seq(Handlers) /\ calls \in Seq(PageCalls)
    BY <2>1
  <2>3. rest \in [PageRequests -> Seq(Handlers)]
    BY DEF InterceptionInit
  <2>4. fate \in [PageRequests -> Fates]
    BY DEF InterceptionInit, Fates
  <2>5. onDelete \in Removals
    BY DEF InterceptionInit, Removals
  <2> QED
    BY <2>1, <2>2, <2>3, <2>4, <2>5 DEF InterceptionTypeOK
<1>2. RequestsKept
  BY DEF InterceptionInit, RequestsKept
<1>3. TurnedOff
  BY DEF InterceptionInit, TurnedOff
<1> QED
  BY <1>1, <1>2, <1>3 DEF InterceptionInit, PageKept

(* ... also when it replaces another one.                                  *)
LEMMA FreshKept == FreshPage => PageKept'
<1>1. FreshPage => InterceptionInit'
  BY DEF FreshPage, InterceptionInit
<1> QED
  BY <1>1, InitKept, PTL

(* What handlers are added to and removed from stays a page's.             *)
LEMMA AddKept ==
    ASSUME PageInv, NEW h \in Handlers, AddInterceptRequestHandler(h)
    PROVE  PageInv'
<1> SUFFICES ASSUME ~overtaken'
             PROVE  PageKept'
  BY DEF PageInv
<1>1. PageKept /\ ~(installed = <<>> /\ TurningOff)
  BY DEF PageInv, AddInterceptRequestHandler
<1>2. installed' \in Seq(Handlers) /\ installed' # <<>>
  BY <1>1 DEF PageKept, InterceptionTypeOK, AddInterceptRequestHandler
<1>3. /\ rest' \in [PageRequests -> Seq(Handlers)]
      /\ \A q \in PageRequests : rest'[q] # <<>> => rest[q] # <<>> \/ q \in sharing
  BY <1>1 DEF PageKept, InterceptionTypeOK, AddInterceptRequestHandler
<1>4. TurnedOn'
  <2>1. CASE installed # <<>>
    BY <1>1, <2>1 DEF PageKept, TurnedOn, AddInterceptRequestHandler
  <2>2. CASE installed = <<>>
    <3>1. onDelete = {} /\ \A i \in DOMAIN calls : calls[i].on
      BY <1>1, <2>2 DEF TurningOff
    <3>2. inProgress = {} /\ TurnedOff
      BY <1>1, <2>2, <3>1 DEF PageKept, WillTurnOff
    <3>3. calls = <<>>
      <4>1. calls # <<>> => Len(calls) \in DOMAIN calls
        BY <1>1 DEF PageKept, InterceptionTypeOK
      <4> QED
        BY <3>1, <3>2, <4>1 DEF TurnedOff
    <3>4. calls' = <<Enable>> /\ ~intercepts' /\ onDelete' = {}
      BY <2>2, <3>1, <3>2, <3>3 DEF AddInterceptRequestHandler, TurnedOff
    <3> QED
      BY <3>4 DEF TurnedOn
  <2> QED
    BY <2>1, <2>2
<1>5. UNCHANGED <<masters, intercepts, onDelete, inProgress, sharing, fate, crashed>>
  BY DEF AddInterceptRequestHandler
<1>6. calls' \in Seq(PageCalls)
  <2>1. Enable \in PageCalls
    BY DEF Enable, PageCalls
  <2>2. calls' = calls \/ calls' = Append(calls, Enable)
    BY DEF AddInterceptRequestHandler
  <2>3. calls \in Seq(PageCalls)
    BY <1>1 DEF PageKept, InterceptionTypeOK
  <2> QED
    BY <2>1, <2>2, <2>3
<1>7. InterceptionTypeOK'
  BY <1>1, <1>2, <1>3, <1>5, <1>6 DEF PageKept, InterceptionTypeOK
<1>8. RequestsKept'
  <2>1. inProgress' # {} => intercepts' /\ calls' = <<>>
    BY <1>1, <1>4, <1>5 DEF PageKept, RequestsKept, TurnedOn
  <2>2. \A q \in PageRequests : rest'[q] # <<>> => q \in inProgress'
    BY <1>1, <1>3, <1>5 DEF PageKept, RequestsKept
  <2>3. (intercepts <=> masters = {"mapped"})'
    BY <1>1, <1>5 DEF PageKept, RequestsKept, InterceptionTypeOK
  <2>4. \A q \in PageRequests : fate'[q] = "held" => intercepts'
    BY <1>1, <1>5 DEF PageKept, RequestsKept, InterceptionTypeOK
  <2> QED
    BY <1>1, <1>5, <2>1, <2>2, <2>3, <2>4 DEF PageKept, RequestsKept
<1> QED
  BY <1>1, <1>2, <1>4, <1>5, <1>7, <1>8 DEF PageKept

(* Removing the last handler turns the page off, at once or later.         *)
LEMMA RemoveKept ==
    ASSUME PageInv, NEW h \in Handlers, RemoveInterceptRequestHandler(h)
    PROVE  PageInv'
<1> SUFFICES ASSUME ~overtaken'
             PROVE  PageKept'
  BY DEF PageInv
<1>1. PageKept
  BY DEF PageInv, RemoveInterceptRequestHandler
<1>2. PICK i \in DOMAIN installed : installed[i] = h /\ installed' = RemoveAt(installed, i)
  BY DEF RemoveInterceptRequestHandler
<1>3. installed \in Seq(Handlers) /\ installed # <<>> /\ i \in 1 .. Len(installed)
  BY <1>1, <1>2 DEF PageKept, InterceptionTypeOK
<1>4. installed' \in Seq(Handlers)
  BY <1>2, <1>3 DEF RemoveAt
<1>5. TurnedOn
  BY <1>1, <1>3 DEF PageKept
<1>6. CASE installed' # <<>>
  BY <1>1, <1>4, <1>5, <1>6 DEF PageKept, InterceptionTypeOK, RequestsKept, TurnedOn,
     RemoveInterceptRequestHandler
<1>7. CASE installed' = <<>> /\ inProgress = {}
  <2>1. calls' = Append(calls, Disable({})) /\ UNCHANGED onDelete
    BY <1>7 DEF RemoveInterceptRequestHandler, TurnsOff
  <2>2. calls' \in Seq(PageCalls)
    BY <1>1, <2>1 DEF PageKept, InterceptionTypeOK, Disable, PageCalls
  <2>3. TurnedOff'
    BY <1>5, <2>1 DEF TurnedOn, TurnedOff, Disable, Enable, RemoveInterceptRequestHandler
  <2> QED
    BY <1>1, <1>4, <1>7, <2>1, <2>2, <2>3 DEF PageKept, InterceptionTypeOK, RequestsKept,
       RemoveInterceptRequestHandler
<1>8. CASE installed' = <<>> /\ inProgress # {}
  <2>1. onDelete' = {h} /\ UNCHANGED calls
    BY <1>5, <1>8 DEF RemoveInterceptRequestHandler, TurnsOff, TurnedOn
  <2>2. onDelete' \in Removals
    BY <2>1 DEF Removals
  <2> QED
    BY <1>1, <1>4, <1>8, <2>1, <2>2 DEF PageKept, InterceptionTypeOK, RequestsKept, WillTurnOff,
       RemoveInterceptRequestHandler
<1> QED
  BY <1>6, <1>7, <1>8

(* The page does a call: without handlers the last one turns it off.       *)
LEMMA DoesCallKept ==
    ASSUME PageInv, PageDoesCall
    PROVE  PageInv'
<1> SUFFICES ASSUME ~overtaken'
             PROVE  PageKept'
  BY DEF PageInv
<1>1. PageKept /\ calls # <<>>
  BY DEF PageInv, PageDoesCall
<1>2. inProgress = {} /\ calls \in Seq(PageCalls)
  BY <1>1 DEF PageKept, RequestsKept, InterceptionTypeOK
<1>3. /\ calls' = Tail(calls) /\ calls' \in Seq(PageCalls)
      /\ Len(calls') = Len(calls) - 1
      /\ \A i \in DOMAIN calls' : i + 1 \in DOMAIN calls /\ calls'[i] = calls[i + 1]
      /\ 1 \in DOMAIN calls /\ Head(calls) = calls[1]
      /\ Len(calls) \in DOMAIN calls
  BY <1>1, <1>2 DEF PageDoesCall
<1>4. UNCHANGED <<installed, inProgress, rest, sharing, crashed>>
  BY DEF PageDoesCall
<1>5. CASE installed # <<>>
  <2>1. calls = <<Enable>> /\ ~intercepts /\ onDelete = {} /\ masters = {}
    BY <1>1, <1>5 DEF PageKept, TurnedOn, RequestsKept, InterceptionTypeOK
  <2>2. /\ calls' = <<>> /\ intercepts' /\ onDelete' = {} /\ masters' = {"mapped"}
        /\ UNCHANGED fate /\ intercepts' \in BOOLEAN
    <3>1. Head(calls) = Enable /\ Tail(calls) = <<>>
      BY <2>1
    <3>2. Enable.on = TRUE
      BY DEF Enable
    <3> QED
      BY <2>1, <3>1, <3>2 DEF PageDoesCall
  <2> QED
    BY <1>1, <1>2, <1>3, <1>4, <1>5, <2>2 DEF PageKept, InterceptionTypeOK, RequestsKept, TurnedOn
<1>6. CASE installed = <<>>
  <2>1. TurnedOff
    BY <1>1, <1>2, <1>6 DEF PageKept, WillTurnOff
  <2>2. CASE calls[1].on
    <3>1. /\ ~intercepts /\ onDelete = {} /\ masters = {}
      BY <1>1, <2>1, <2>2 DEF TurnedOff, PageKept, RequestsKept, InterceptionTypeOK
    <3>2. intercepts' = TRUE /\ masters' = {"mapped"} /\ UNCHANGED <<onDelete, fate>>
      BY <1>3, <2>2, <3>1 DEF PageDoesCall
    <3>3. Len(calls) > 1
      BY <1>2, <1>3, <2>1, <2>2 DEF TurnedOff
    <3>4. calls' # <<>> /\ calls'[Len(calls')] = calls[Len(calls)] /\ Len(calls') \in DOMAIN calls'
      <4>1. Len(calls) \in Nat /\ DOMAIN calls' = 1 .. Len(calls')
        BY <1>2, <1>3
      <4>2. Len(calls') \in DOMAIN calls' /\ Len(calls') + 1 = Len(calls)
        <5> DEFINE n == Len(calls)
                   m == Len(calls')
        <5>1. n \in Nat /\ n > 1 /\ m = n - 1
          BY <1>3, <3>3, <4>1
        <5> HIDE DEF n, m
        <5>2. m \in 1 .. m /\ m + 1 = n
          BY <5>1
        <5> QED
          BY <4>1, <5>2 DEF n, m
      <4>3. calls'[Len(calls')] = calls[Len(calls)]
        BY <1>3, <4>2
      <4>4. calls' # <<>>
        BY <4>1, <4>2
      <4> QED
        BY <4>2, <4>3, <4>4
    <3>5. \A i \in DOMAIN calls' : ~calls'[i].on
      <4>1. \A i \in DOMAIN calls' : i + 1 # 1
        BY <1>2, <1>3
      <4> QED
        BY <1>3, <2>1, <4>1 DEF TurnedOff
    <3>6. TurnedOff'
      <4>1. 1 \in DOMAIN calls'
        BY <1>2, <1>3, <3>3
      <4>2. \A i \in DOMAIN calls' : ~(calls'[i].on)
        BY <3>5
      <4> QED
        BY <3>1, <3>2, <3>4, <4>1, <4>2 DEF TurnedOff
    <3> QED
      BY <1>1, <1>2, <1>3, <1>4, <1>6, <3>2, <3>6 DEF PageKept, InterceptionTypeOK, RequestsKept
  <2>3. CASE ~calls[1].on
    <3>1. /\ intercepts' = FALSE /\ masters' = {}
          /\ onDelete' = onDelete \ calls[1].listener
          /\ fate' = [q \in PageRequests |-> IF fate[q] = "held" THEN "sent" ELSE fate[q]]
      <4>1. intercepts' = FALSE
        BY <1>2, <1>3, <2>3 DEF PageDoesCall
      <4> QED
        BY <1>1, <1>3, <2>3, <4>1 DEF PageDoesCall, PageKept, InterceptionTypeOK
    <3>2. onDelete' = {}
      BY <1>3, <2>1, <3>1 DEF TurnedOff
    <3>3. \A i \in DOMAIN calls' : ~calls'[i].on
      BY <1>2, <1>3, <2>1 DEF TurnedOff
    <3>4. calls' # <<>> => Len(calls') \in DOMAIN calls' /\ 1 \in DOMAIN calls'
      BY <1>2, <1>3
    <3>5. TurnedOff'
      BY <3>1, <3>2, <3>3, <3>4 DEF TurnedOff
    <3>6. fate' \in [PageRequests -> Fates] /\ \A q \in PageRequests : fate'[q] # "held"
      BY <1>1, <3>1 DEF PageKept, InterceptionTypeOK, Fates
    <3>7. onDelete' \in Removals
      BY <3>2 DEF Removals
    <3> QED
      BY <1>1, <1>2, <1>3, <1>4, <1>6, <3>1, <3>5, <3>6, <3>7 DEF PageKept, InterceptionTypeOK, RequestsKept
  <2> QED
    BY <2>2, <2>3
<1> QED
  BY <1>5, <1>6

(* A call more.                                                            *)
LEMMA AppendFacts ==
    ASSUME NEW S, NEW s \in Seq(S), NEW e \in S
    PROVE  /\ Append(s, e) \in Seq(S) /\ Append(s, e) # <<>>
           /\ \A i \in DOMAIN Append(s, e) : (i \in DOMAIN s /\ Append(s, e)[i] = s[i]) \/ Append(s, e)[i] = e
           /\ 1 \in DOMAIN Append(s, e) /\ Len(Append(s, e)) \in DOMAIN Append(s, e)
OBVIOUS

(* A request that is done in the page may turn its interception off.       *)
LEMMA DeletedKept ==
    ASSUME PageKept, NEW q \in PageRequests, Deleted(q), UNCHANGED <<installed, onDelete, intercepts>>
    PROVE  /\ calls' \in Seq(PageCalls)
           /\ inProgress' # {} => intercepts /\ calls' = <<>>
           /\ installed # <<>> => TurnedOn'
           /\ installed = <<>> => (inProgress' = {} /\ TurnedOff') \/ WillTurnOff'
<1> DEFINE more == [i \in 1 .. Cardinality(onDelete) |-> Disable(onDelete)]
<1>1. calls \in Seq(PageCalls) /\ inProgress' = inProgress \ {q}
  BY DEF PageKept, InterceptionTypeOK, Deleted
<1>2. CASE inProgress' # {}
  <2>1. inProgress # {} /\ UNCHANGED calls
    BY <1>1, <1>2 DEF Deleted
  <2>2. intercepts /\ calls = <<>>
    BY <2>1 DEF PageKept, RequestsKept
  <2>3. installed # <<>> => TurnedOn'
    BY <2>1, <2>2 DEF PageKept, TurnedOn
  <2>4. installed = <<>> => WillTurnOff'
    BY <1>2, <2>1 DEF PageKept, WillTurnOff
  <2> QED
    BY <1>1, <2>1, <2>2, <2>3, <2>4
<1>3. CASE inProgress' = {} /\ onDelete = {}
  <2>1. Cardinality(onDelete) = 0
    BY <1>3, FS_EmptySet
  <2>2. more = <<>>
    BY <2>1
  <2>3. calls' = calls
    <3>1. calls \o <<>> = calls
      BY <1>1
    <3>2. calls' = calls \o more
      BY <1>3 DEF Deleted
    <3> QED
      BY <2>2, <3>1, <3>2
  <2>4. installed # <<>> => TurnedOn'
    BY <2>3 DEF PageKept, TurnedOn
  <2>5. installed = <<>> => TurnedOff
    BY <1>3 DEF PageKept, WillTurnOff
  <2>6. installed = <<>> => TurnedOff'
    BY <2>3, <2>5 DEF TurnedOff
  <2> QED
    BY <1>1, <1>3, <2>3, <2>4, <2>6
<1>4. CASE inProgress' = {} /\ onDelete # {}
  <2>1. installed = <<>>
    BY <1>4 DEF PageKept, TurnedOn
  <2>2. PICK h \in Handlers : onDelete = {h}
    BY <1>4 DEF PageKept, InterceptionTypeOK, Removals
  <2>3. Cardinality(onDelete) = 1
    BY <2>2, FS_Singleton
  <2>4. Disable(onDelete) \in PageCalls
    BY <2>2 DEF Disable, PageCalls
  <2>5. more = <<Disable(onDelete)>>
    BY <2>3
  <2>6. calls' = Append(calls, Disable(onDelete))
    <3>1. calls' = calls \o more
      BY <1>4 DEF Deleted
    <3>2. calls \o <<Disable(onDelete)>> = Append(calls, Disable(onDelete))
      BY <1>1, <2>4
    <3> QED
      BY <2>5, <3>1, <3>2
  <2>7. \A i \in DOMAIN calls : ~calls[i].on /\ calls[i].listener = onDelete
    <3>1. CASE inProgress # {}
      BY <3>1 DEF PageKept, RequestsKept
    <3>2. CASE inProgress = {}
      <4>1. TurnedOff
        BY <2>1, <3>2 DEF PageKept, WillTurnOff
      <4>2. \A i \in DOMAIN calls : calls # <<>>
        BY <1>1
      <4> QED
        BY <1>4, <4>1, <4>2 DEF TurnedOff
    <3> QED
      BY <3>1, <3>2
  <2>8. /\ calls' \in Seq(PageCalls) /\ calls' # <<>>
        /\ \A i \in DOMAIN calls' :
              (i \in DOMAIN calls /\ calls'[i] = calls[i]) \/ calls'[i] = Disable(onDelete)
        /\ 1 \in DOMAIN calls' /\ Len(calls') \in DOMAIN calls'
    BY <1>1, <2>4, <2>6, AppendFacts
  <2>9. \A i \in DOMAIN calls' : ~calls'[i].on /\ calls'[i].listener = onDelete
    BY <2>7, <2>8 DEF Disable
  <2>10. TurnedOff'
    BY <2>8, <2>9 DEF TurnedOff
  <2> QED
    BY <1>4, <2>1, <2>8, <2>10
<1> QED
  BY <1>2, <1>3, <1>4

(* A request is in progress only if the page intercepts and has handlers.  *)
LEMMA SendsKept ==
    ASSUME PageInv, NEW q \in PageRequests, PageSends(q)
    PROVE  PageInv'
<1> SUFFICES ASSUME ~overtaken'
             PROVE  PageKept'
  BY DEF PageInv
<1>1. PageKept /\ UNCHANGED <<installed, masters, intercepts, onDelete>>
  BY DEF PageInv, PageSends
<1>2. /\ fate' \in [PageRequests -> Fates]
      /\ \A p \in PageRequests : fate'[p] = "held" => intercepts
  BY <1>1 DEF PageSends, Held, PageKept, InterceptionTypeOK, RequestsKept, Fates
<1>3. CASE masters = {}
  BY <1>1, <1>2, <1>3 DEF PageSends, PageKept, InterceptionTypeOK, RequestsKept, TurnedOn,
     TurnedOff, WillTurnOff
<1>4. CASE masters # {} /\ installed = <<>>
  <2>1. Deleted(q) /\ UNCHANGED <<rest, sharing, crashed>>
    BY <1>4 DEF PageSends
  <2>2. q \notin inProgress /\ inProgress' = inProgress
    BY <1>1, <2>1 DEF PageSends, Deleted, PageKept, RequestsKept
  <2>3. /\ calls' \in Seq(PageCalls)
        /\ inProgress' # {} => intercepts /\ calls' = <<>>
        /\ installed = <<>> => (inProgress' = {} /\ TurnedOff') \/ WillTurnOff'
    BY <1>1, <2>1, DeletedKept
  <2>4. InterceptionTypeOK'
    BY <1>1, <1>2, <2>1, <2>2, <2>3 DEF PageKept, InterceptionTypeOK
  <2>5. \A p \in inProgress' : fate'[p] # "unsent"
    BY <1>1, <2>1, <2>2 DEF PageSends, Held, PageKept, InterceptionTypeOK, RequestsKept
  <2>6. RequestsKept'
    BY <1>1, <1>2, <2>1, <2>2, <2>3, <2>5 DEF PageKept, RequestsKept
  <2> QED
    BY <1>1, <1>4, <2>1, <2>3, <2>4, <2>6 DEF PageKept
<1>5. CASE masters # {} /\ installed # <<>>
  <2>1. /\ inProgress' = inProgress \cup {q}
        /\ rest' = [rest EXCEPT ![q] = installed]
        /\ sharing' = sharing \cup {q}
        /\ UNCHANGED calls
    BY <1>5 DEF PageSends
  <2>2. ~crashed'
    <3>1. "older" \notin masters
      BY <1>1 DEF PageKept, InterceptionTypeOK
    <3>2. masters # {"mapped", "older"}
      BY <3>1
    <3>3. ~crashed
      BY <1>1 DEF PageKept
    <3> QED
      BY <1>5, <3>2, <3>3 DEF PageSends
  <2>3. intercepts /\ calls = <<>> /\ TurnedOn
    BY <1>1, <1>5 DEF PageKept, RequestsKept, InterceptionTypeOK, TurnedOn
  <2>4. TurnedOn'
    BY <1>1, <2>1, <2>3 DEF TurnedOn
  <2>5. InterceptionTypeOK'
    BY <1>1, <1>2, <2>1 DEF PageKept, InterceptionTypeOK
  <2>6. \A p \in inProgress' : fate'[p] # "unsent"
    BY <1>1, <2>1 DEF PageSends, Held, PageKept, InterceptionTypeOK, RequestsKept
  <2>7. \A p \in PageRequests : rest'[p] # <<>> => p \in inProgress'
    BY <1>1, <2>1 DEF PageKept, InterceptionTypeOK, RequestsKept
  <2>8. RequestsKept'
    BY <1>1, <1>2, <2>1, <2>3, <2>6, <2>7 DEF PageKept, RequestsKept
  <2> QED
    BY <1>1, <1>5, <2>2, <2>4, <2>5, <2>8 DEF PageKept
<1> QED
  BY <1>3, <1>4, <1>5

(* A handler that lets go of a request of its own, or gives it on.         *)
LEMMA DecidesKept ==
    ASSUME PageKept, NEW q \in PageRequests, rest[q] # <<>>, NEW decision \in {"sent", "stopped"},
           Decides(q, decision), UNCHANGED <<installed, masters, intercepts, onDelete>>
    PROVE  PageKept'
<1>1. /\ Deleted(q) /\ inProgress' = inProgress \ {q} /\ sharing' = sharing \ {q}
      /\ rest' = [rest EXCEPT ![q] = <<>>]
  BY DEF Decides, Deleted
<1>2. q \in inProgress /\ intercepts
  BY DEF PageKept, RequestsKept
<1>3. fate' = [fate EXCEPT ![q] = decision] /\ UNCHANGED crashed
  BY <1>2 DEF Decides
<1>4. /\ calls' \in Seq(PageCalls)
      /\ inProgress' # {} => intercepts /\ calls' = <<>>
      /\ installed # <<>> => TurnedOn'
      /\ installed = <<>> => (inProgress' = {} /\ TurnedOff') \/ WillTurnOff'
  BY <1>1, DeletedKept
<1>5. rest' \in [PageRequests -> Seq(Handlers)] /\ \A p \in PageRequests : p # q => rest'[p] = rest[p]
  <2>1. <<>> \in Seq(Handlers)
    OBVIOUS
  <2> QED
    BY <1>1, <2>1 DEF PageKept, InterceptionTypeOK
<1>6. rest'[q] = <<>>
  BY <1>1 DEF PageKept, InterceptionTypeOK
<1>7. fate' \in [PageRequests -> Fates] /\ \A p \in PageRequests : p # q => fate'[p] = fate[p]
  BY <1>3 DEF PageKept, InterceptionTypeOK, Fates
<1>8. InterceptionTypeOK'
  BY <1>1, <1>4, <1>5, <1>7 DEF PageKept, InterceptionTypeOK
<1>9. RequestsKept'
  <2>1. \A p \in PageRequests : rest'[p] # <<>> => p \in inProgress'
    BY <1>1, <1>5, <1>6 DEF PageKept, RequestsKept
  <2>2. \A p \in inProgress' : fate'[p] # "unsent"
    BY <1>1, <1>7 DEF PageKept, RequestsKept, InterceptionTypeOK
  <2> QED
    BY <1>1, <1>2, <1>4, <2>1, <2>2 DEF PageKept, RequestsKept
<1> QED
  BY <1>3, <1>4, <1>8, <1>9 DEF PageKept

(* The next handler gets the request, or it is sent.                       *)
LEMMA ContinuesKept ==
    ASSUME PageInv, NEW q \in PageRequests, HandlerContinues(q)
    PROVE  PageInv'
<1> SUFFICES ASSUME ~overtaken'
             PROVE  PageKept'
  BY DEF PageInv
<1>1. PageKept /\ rest[q] # <<>> /\ UNCHANGED <<installed, masters, intercepts, onDelete>>
  BY DEF PageInv, HandlerContinues
<1>2. CASE Len(rest[q]) > 1
  <2>1. rest' = [rest EXCEPT ![q] = Tail(@)] /\ UNCHANGED <<sharing, inProgress, calls, fate, crashed>>
    BY <1>2 DEF HandlerContinues
  <2>2. Tail(rest[q]) \in Seq(Handlers)
    BY <1>1 DEF PageKept, InterceptionTypeOK
  <2>3. /\ rest' \in [PageRequests -> Seq(Handlers)]
        /\ \A p \in PageRequests : rest'[p] # <<>> => rest[p] # <<>>
    BY <1>1, <2>1, <2>2 DEF PageKept, InterceptionTypeOK
  <2>4. InterceptionTypeOK'
    BY <1>1, <2>1, <2>3 DEF PageKept, InterceptionTypeOK
  <2>5. RequestsKept'
    BY <1>1, <2>1, <2>3 DEF PageKept, RequestsKept
  <2> QED
    BY <1>1, <2>1, <2>4, <2>5 DEF PageKept, TurnedOn, TurnedOff, WillTurnOff
<1>3. CASE ~(Len(rest[q]) > 1)
  BY <1>1, <1>3, DecidesKept DEF HandlerContinues
<1> QED
  BY <1>2, <1>3

(* A handler aborts the request or responds to it.                         *)
LEMMA StopsKept ==
    ASSUME PageInv, NEW q \in PageRequests, HandlerStops(q)
    PROVE  PageInv'
<1> SUFFICES ASSUME ~overtaken'
             PROVE  PageKept'
  BY DEF PageInv
<1>1. PageKept /\ rest[q] # <<>> /\ UNCHANGED <<installed, masters, intercepts, onDelete>>
  BY DEF PageInv, HandlerStops
<1> QED
  BY <1>1, DecidesKept DEF HandlerStops

(* Nothing else touches the page, but to replace it by a new one.          *)
LEMMA SamePage ==
    ASSUME PageInv, UNCHANGED interceptionVars
    PROVE  PageInv'
BY DEF interceptionVars, pageVars, PageInv, PageKept, InterceptionTypeOK, RequestsKept, TurnedOn,
   TurnedOff, WillTurnOff

(* What happens on the page of a task.                                     *)
LEMMA StepKept ==
    ASSUME PageInv, NEW t \in Tasks, PageStep(t)
    PROVE  PageInv'
<1>1. CASE PageDoesCall
  BY <1>1, DoesCallKept
<1>2. CASE \E q \in PageRequests : PageSends(q)
  BY <1>2, SendsKept
<1>3. CASE \E q \in PageRequests : HandlerDecides(q)
  BY <1>3, ContinuesKept, StopsKept DEF HandlerDecides
<1>4. CASE AddsHandler
  BY <1>4, AddKept, ClickAssumption DEF AddsHandler
<1>5. CASE RemovesHandler
  BY <1>5, RemoveKept, ClickAssumption DEF RemovesHandler
<1>6. CASE StartsClicking \/ PageIdle \/ \E q \in Navigations : TargetCreated(q)
  BY <1>6, SamePage DEF StartsClicking, PageIdle, TargetCreated
<1> QED
  BY <1>1, <1>2, <1>3, <1>4, <1>5, <1>6 DEF PageStep

(* The page is closed with its task.                                       *)
LEMMA CloseKept ==
    ASSUME PageInv, NEW t \in Tasks, ClosePage(t)
    PROVE  PageInv'
<1>1. FreshPage \/ UNCHANGED interceptionVars
  BY DEF ClosePage, page
<1> QED
  BY <1>1, FreshKept, SamePage DEF PageInv

(* No step of the scrapers breaks it.                                      *)
LEMMA PageInvKept ==
    ASSUME PageInv, [ScraperNext]_vars
    PROVE  PageInv'
<1>1. CASE UNCHANGED page
  BY <1>1, SamePage DEF page
<1>2. ASSUME NEW h \in Slots, HandlerStep(h)
      PROVE  UNCHANGED page
  BY <1>2 DEF HandlerStep, PageFunction, EnqueueRequest, PushData, CountPage
<1>3. ASSUME NEW t \in Tasks, TaskStep(t)
      PROVE  PageInv'
  <2>1. CASE StartTask(t) \/ HandleMaxResultsPerCrawl(t) \/ HandleClicks(t)
    BY <1>1, <2>1 DEF StartTask, HandleMaxResultsPerCrawl, HandleClicks
  <2>2. CASE MarkHandled(t)
    BY <2>2, CloseKept DEF MarkHandled
  <2>3. CASE UserHandles(t)
    BY <2>3, AddKept, RemoveKept DEF UserHandles
  <2>4. CASE PageStep(t)
    BY <2>4, StepKept
  <2>5. CASE HandlerThrows(t)
    BY <2>5, CloseKept DEF HandlerThrows, RequestFails
  <2>6. CASE \E l \in Lates : HandlerTimesOut(t, l)
    BY <2>6, CloseKept DEF HandlerTimesOut, RequestFails
  <2>7. CASE ErrorPushFails(t)
    BY <1>1, <2>7 DEF ErrorPushFails
  <2> QED
    BY <1>3, <2>1, <2>2, <2>3, <2>4, <2>5, <2>6, <2>7 DEF TaskStep
<1>4. ASSUME NEW l \in Lates, LateEnds(l)
      PROVE  UNCHANGED page
  BY <1>4 DEF LateEnds
<1>5. CASE Restart
  BY <1>5, FreshKept DEF Restart, PageInv
<1>6. CASE UNCHANGED vars
  BY <1>1, <1>6 DEF vars
<1> QED
  BY <1>1, <1>2, <1>3, <1>4, <1>5, <1>6 DEF ScraperNext

(* For every set of handlers, requests and tasks: no handler decides on a  *)
(* request that the page does not hold, and what is left when all handlers *)
(* are gone and done is a page that holds nothing and listens to nothing.  *)
THEOREM InterceptionKeptHolds == ScraperSpec => []InterceptionKept
<1>1. ScraperInit => PageInv
  BY InitKept DEF ScraperInit, PageInv
<1>2. PageInv /\ [ScraperNext]_vars => PageInv'
  BY PageInvKept
<1>3. PageInv => InterceptionKept
  <2> SUFFICES ASSUME PageKept, installed = <<>>, inProgress = {}, calls = <<>>
               PROVE  ~intercepts /\ masters = {} /\ onDelete = {} /\ \A q \in PageRequests : fate[q] # "held"
    BY DEF PageInv, InterceptionKept, PageKept
  <2>1. TurnedOff
    BY DEF PageKept, WillTurnOff
  <2>2. ~intercepts /\ onDelete = {}
    BY <2>1 DEF TurnedOff
  <2> QED
    BY <2>2 DEF PageKept, InterceptionTypeOK, RequestsKept
<1> QED
  BY <1>1, <1>2, <1>3, PTL DEF ScraperSpec

-----------------------------------------------------------------------------
(* The requests.                                                           *)
QueueStates == {"absent", "pending", "running", "handled"}
Stages == {"idle", "loading", "function", "clicks", "push", "error", "count", "countError", "over"}
SlotStates == [stage : Stages, url : Urls \cup {Unset}]

ScraperTypeOK ==
    /\ queue \in [Urls -> QueueStates]
    /\ slot \in [Slots -> SlotStates]
    /\ items \subseteq Urls
    /\ {itemCount, pagesOutputted, results, lost} \subseteq Nat

(* Where a handler is, and what the queue has of its request.  A handler   *)
(* that outlived its task does not click.                                  *)
SlotsKept ==
    /\ \A h \in Slots : slot[h].stage = "idle" => slot[h] = Idle
    /\ \A h \in Slots : slot[h].stage # "idle" =>
          slot[h].url \in Urls /\ queue[slot[h].url] # "absent"
    /\ \A l \in Lates : slot[l].stage \in {"idle", "function", "push", "count"}
    /\ \A t \in Tasks :
          /\ slot[t].stage \in {"loading", "function", "clicks", "push", "count"} =>
                queue[slot[t].url] = "running"
          /\ slot[t].stage = "over" => queue[slot[t].url] \in {"running", "handled"}
          /\ slot[t].stage \in {"error", "countError"} => queue[slot[t].url] = "handled"
    /\ \A s, t \in Tasks :
          (slot[s].stage # "idle" /\ slot[t].stage # "idle" /\ slot[s].url = slot[t].url) => s = t

(* Records that are in the dataset and not counted yet.                    *)
Counting == {h \in Slots : slot[h].stage \in {"count", "countError"}}

(* Handlers that passed the check of the limit and have no record yet.     *)
Active == {h \in Slots : slot[h].stage \in {"function", "clicks", "push"}}

(* What each page, each handler and each lost push may add to the results. *)
Counted == pagesOutputted + lost + Cardinality(Counting)
Allowed == MaxResults - 1 + Cardinality(Slots) + lost

ResultsKept ==
    /\ results <= itemCount
    /\ results <= PageRecords * Counted
    /\ MaxResults # 0 => results + PageRecords * Cardinality(Active) <= PageRecords * Allowed

(* What is about to be marked has a record, or it is known why not.        *)
RecordsKept ==
    /\ \A h \in Slots : slot[h].stage \in {"count", "countError"} => slot[h].url \in items \cup recordless
    /\ \A t \in Tasks : slot[t].stage = "over" => slot[t].url \in items \cup recordless \/ MaxResultsReached
    /\ OutputComplete

ScraperInv == ScraperTypeOK /\ SlotsKept /\ ResultsKept /\ RecordsKept

-----------------------------------------------------------------------------
(* A set that changes in one element only.                                 *)
LEMMA OneChanged ==
    ASSUME NEW S, IsFiniteSet(S), NEW A \in SUBSET S, NEW B \in SUBSET S, NEW h,
           \A g \in S : g # h => (g \in A <=> g \in B)
    PROVE  /\ Cardinality(A) \in Nat /\ Cardinality(B) \in Nat
           /\ Cardinality(B) = Cardinality(A) - (IF h \in A THEN 1 ELSE 0) + (IF h \in B THEN 1 ELSE 0)
<1>1. IsFiniteSet(A) /\ IsFiniteSet(B)
  BY FS_Subset
<1>2. Cardinality(A) \in Nat /\ Cardinality(B) \in Nat
  BY <1>1, FS_CardinalityType
<1>3. CASE h \in A /\ h \notin B
  <2>1. B = A \ {h}
    BY <1>3
  <2>2. Cardinality(A \ {h}) = Cardinality(A) - 1
    BY <1>1, <1>3, FS_RemoveElement
  <2>3. Cardinality(B) = Cardinality(A) - 1
    BY <2>1, <2>2
  <2> QED
    BY <1>2, <1>3, <2>3
<1>4. CASE h \notin A /\ h \in B
  <2>1. B = A \cup {h}
    BY <1>4
  <2>2. Cardinality(A \cup {h}) = Cardinality(A) + 1
    BY <1>1, <1>4, FS_AddElement
  <2>3. Cardinality(B) = Cardinality(A) + 1
    BY <2>1, <2>2
  <2> QED
    BY <1>2, <1>4, <2>3
<1>5. CASE h \in A <=> h \in B
  <2>1. A = B
    BY <1>5
  <2> QED
    BY <1>2, <1>5, <2>1
<1> QED
  BY <1>3, <1>4, <1>5

(* There are finitely many handlers.                                       *)
LEMMA Finite == IsFiniteSet(Slots) /\ Cardinality(Slots) \in Nat
<1>1. IsFiniteSet(Tasks) /\ IsFiniteSet(Lates)
  BY ScraperAssumption
<1>2. IsFiniteSet(Tasks \cup Lates)
  BY <1>1, FS_Union
<1> QED
  BY <1>2, FS_CardinalityType DEF Slots

(* The limit is a number, and a page that has a result may have a record.  *)
LEMMA LimitType == MaxResults \in Nat /\ PageRecords \in Nat /\ PageRecords >= 1
BY ScraperAssumption

(* Records of some pages and of some more.                                 *)
LEMMA PagesAdd ==
    ASSUME NEW a \in Nat, NEW b \in Nat
    PROVE  /\ PageRecords * a \in Nat
           /\ PageRecords * (a + b) = PageRecords * a + PageRecords * b
           /\ a <= b => PageRecords * a <= PageRecords * b
<1>1. PageRecords \in Nat
  BY LimitType
<1> QED
  BY <1>1

(* How a step that changes one handler changes the counts.                 *)
LEMMA CountsChanged ==
    ASSUME NEW h, \A g \in Slots : g # h => slot'[g] = slot[g]
    PROVE  /\ Cardinality(Counting) \in Nat /\ Cardinality(Counting') \in Nat
           /\ Cardinality(Active) \in Nat /\ Cardinality(Active') \in Nat
           /\ Cardinality(Counting') = Cardinality(Counting) - (IF h \in Counting THEN 1 ELSE 0)
                                          + (IF h \in Counting' THEN 1 ELSE 0)
           /\ Cardinality(Active') = Cardinality(Active) - (IF h \in Active THEN 1 ELSE 0)
                                          + (IF h \in Active' THEN 1 ELSE 0)
<1>1. /\ Counting \in SUBSET Slots /\ Counting' \in SUBSET Slots
      /\ Active \in SUBSET Slots /\ Active' \in SUBSET Slots
  BY DEF Counting, Active
<1>2. \A g \in Slots : g # h => (g \in Counting <=> g \in Counting')
  BY DEF Counting
<1>3. \A g \in Slots : g # h => (g \in Active <=> g \in Active')
  BY DEF Active
<1>4. IsFiniteSet(Slots)
  BY Finite
<1>5. /\ Cardinality(Counting) \in Nat /\ Cardinality(Counting') \in Nat
      /\ Cardinality(Counting') = Cardinality(Counting) - (IF h \in Counting THEN 1 ELSE 0)
                                     + (IF h \in Counting' THEN 1 ELSE 0)
  BY <1>1, <1>2, <1>4, OneChanged
<1>6. /\ Cardinality(Active) \in Nat /\ Cardinality(Active') \in Nat
      /\ Cardinality(Active') = Cardinality(Active) - (IF h \in Active THEN 1 ELSE 0)
                                     + (IF h \in Active' THEN 1 ELSE 0)
  BY <1>1, <1>3, <1>4, OneChanged
<1> QED
  BY <1>5, <1>6

(* A handler that changes, or goes on to another stage.                    *)
LEMMA SlotChanges ==
    ASSUME ScraperTypeOK, NEW h \in Slots, NEW r \in SlotStates, slot' = [slot EXCEPT ![h] = r]
    PROVE  /\ slot' \in [Slots -> SlotStates] /\ slot'[h] = r
           /\ \A g \in Slots : g # h => slot'[g] = slot[g]
BY DEF ScraperTypeOK

(* A handler goes to another stage with the request it has.                *)
LEMMA StageChanges ==
    ASSUME ScraperTypeOK, NEW h \in Slots, NEW s \in Stages, Goes(h, s)
    PROVE  /\ slot' \in [Slots -> SlotStates]
           /\ slot'[h].stage = s /\ slot'[h].url = slot[h].url
           /\ \A g \in Slots : g # h => slot'[g] = slot[g]
<1>1. slot[h] \in SlotStates
  BY DEF ScraperTypeOK
<1>2. slot' = [slot EXCEPT ![h] = [slot[h] EXCEPT !.stage = s]]
  BY DEF Goes
<1>3. /\ [slot[h] EXCEPT !.stage = s] \in SlotStates
      /\ [slot[h] EXCEPT !.stage = s].stage = s
      /\ [slot[h] EXCEPT !.stage = s].url = slot[h].url
  BY <1>1 DEF SlotStates
<1> QED
  BY <1>2, <1>3, SlotChanges

(* An idle handler has no request.                                         *)
LEMMA IdleType == Idle \in SlotStates /\ Idle.stage = "idle"
BY DEF Idle, SlotStates, Stages

(* A handler that pushes nothing, or whose push is lost.                   *)
NoneCounted(h) == UNCHANGED outputVars \/ (PushLost(h) /\ UNCHANGED recordless)

(* What that leaves of the output.                                         *)
LEMMA NoneCountedType ==
    ASSUME ScraperInv, NEW h \in Slots, NoneCounted(h)
    PROVE  /\ items \subseteq items' /\ items' \subseteq Urls
           /\ pagesOutputted' = pagesOutputted /\ recordless' = recordless
           /\ {itemCount', results', lost'} \subseteq Nat
           /\ \E n \in Nat, w \in {0, 1} :
                 /\ results' = results + n /\ itemCount' >= itemCount + n
                 /\ lost' = lost + w /\ n <= PageRecords * w
<1>1. {itemCount, pagesOutputted, results, lost} \subseteq Nat /\ items \subseteq Urls
  BY DEF ScraperInv, ScraperTypeOK
<1>2. CASE UNCHANGED outputVars
  <2>1. UNCHANGED <<items, itemCount, pagesOutputted, results, lost, recordless>>
    BY <1>2 DEF outputVars
  <2>2. /\ results' = results + 0 /\ itemCount' >= itemCount + 0
        /\ lost' = lost + 0 /\ 0 <= PageRecords * 0
    BY <1>1, <2>1, LimitType
  <2> QED
    BY <1>1, <2>1, <2>2
<1>3. CASE PushLost(h) /\ UNCHANGED recordless
  <2>1. PICK m \in Payloads(h) \ {0} : Saves(h, m)
    BY <1>3 DEF PushLost
  <2>2. m \in Nat /\ m <= PageRecords
    BY <2>1, LimitType, ScraperAssumption DEF Payloads
  <2>3. slot[h].url \in Urls
    BY <1>3 DEF PushLost, ScraperInv, SlotsKept
  <2>4. /\ items' = items \cup {slot[h].url} /\ itemCount' = itemCount + m
        /\ results' = IF At(h, "error") THEN results ELSE results + m
    BY <2>1 DEF Saves
  <2>5. lost' = lost + 1 /\ pagesOutputted' = pagesOutputted /\ recordless' = recordless
    BY <1>3 DEF PushLost
  <2>6. PICK n \in {0, m} : results' = results + n
    <3>1. CASE At(h, "error")
      BY <1>1, <2>4, <3>1
    <3>2. CASE ~At(h, "error")
      BY <2>4, <3>2
    <3> QED
      BY <3>1, <3>2
  <2>7. n \in Nat /\ n <= PageRecords * 1 /\ itemCount' >= itemCount + n
    BY <1>1, <2>2, <2>4, <2>6, LimitType
  <2> QED
    BY <1>1, <2>2, <2>3, <2>4, <2>5, <2>6, <2>7
<1> QED
  BY <1>2, <1>3 DEF NoneCounted

(* Results that a page or a lost push accounts for stay within the limit.  *)
LEMMA ResultsAccounted ==
    ASSUME ScraperInv, {itemCount', pagesOutputted', lost'} \subseteq Nat,
           NEW n \in Nat, NEW w \in {0, 1}, n <= PageRecords * w,
           results' = results + n, itemCount' >= itemCount + n,
           lost' >= lost,
           Cardinality(Counting) \in Nat, Cardinality(Counting') \in Nat,
           Cardinality(Active) \in Nat, Cardinality(Active') \in Nat,
           Counted + w <= Counted',
           Cardinality(Active') + w <= Cardinality(Active) + (lost' - lost)
    PROVE  ResultsKept'
<1> DEFINE counted == Counted
           countedNext == Counted'
           allowed == Allowed
           allowedNext == Allowed'
           active == Cardinality(Active)
           activeNext == Cardinality(Active')
<1>1. /\ {itemCount, pagesOutputted, results, lost} \subseteq Nat
      /\ results <= itemCount /\ results <= PageRecords * counted
      /\ MaxResults # 0 => results + PageRecords * active <= PageRecords * allowed
  BY DEF ScraperInv, ScraperTypeOK, ResultsKept
<1>2. counted \in Nat /\ countedNext \in Nat
  BY <1>1 DEF Counted
<1>3. MaxResults # 0 => /\ allowed \in Nat /\ allowedNext \in Nat
                        /\ activeNext + w + allowed <= active + allowedNext
  BY <1>1, Finite, LimitType DEF Allowed
<1>4. active \in Nat /\ activeNext \in Nat /\ w \in Nat /\ counted + w <= countedNext
  OBVIOUS
<1> HIDE DEF counted, countedNext, allowed, allowedNext, active, activeNext
<1>5. results' <= itemCount'
  BY <1>1
<1>6. results' <= PageRecords * countedNext
  <2>1. /\ PageRecords * counted \in Nat /\ PageRecords * w \in Nat
        /\ PageRecords * (counted + w) = PageRecords * counted + PageRecords * w
    BY <1>2, <1>4, PagesAdd
  <2>2. PageRecords * (counted + w) <= PageRecords * countedNext
    <3>1. counted + w \in Nat
      BY <1>2
    <3> QED
      BY <1>2, <1>4, <3>1, PagesAdd
  <2>3. PageRecords * countedNext \in Nat
    BY <1>2, PagesAdd
  <2> DEFINE x == PageRecords * counted
             y == PageRecords * w
             z == PageRecords * countedNext
  <2>4. x \in Nat /\ y \in Nat /\ z \in Nat /\ x + y <= z /\ results <= x /\ n <= y
    BY <1>1, <2>1, <2>2, <2>3
  <2> HIDE DEF x, y, z
  <2>5. results' <= z
    BY <1>1, <2>4
  <2> QED
    BY <2>5 DEF z
<1>7. ASSUME MaxResults # 0
      PROVE  results' + PageRecords * activeNext <= PageRecords * allowedNext
  <2>1. /\ PageRecords * active \in Nat /\ PageRecords * allowed \in Nat
        /\ PageRecords * activeNext \in Nat /\ PageRecords * allowedNext \in Nat
        /\ PageRecords * w \in Nat
    BY <1>3, <1>4, <1>7, PagesAdd
  <2>2. PageRecords * ((activeNext + w) + allowed) =
            PageRecords * activeNext + PageRecords * w + PageRecords * allowed
    <3>1. activeNext + w \in Nat
      BY <1>4
    <3>2. PageRecords * (activeNext + w) = PageRecords * activeNext + PageRecords * w
      BY <1>4, PagesAdd
    <3>3. PageRecords * ((activeNext + w) + allowed) = PageRecords * (activeNext + w) + PageRecords * allowed
      BY <1>3, <1>7, <3>1, PagesAdd
    <3> QED
      BY <3>2, <3>3
  <2>3. PageRecords * (active + allowedNext) = PageRecords * active + PageRecords * allowedNext
    BY <1>3, <1>4, <1>7, PagesAdd
  <2>4. PageRecords * ((activeNext + w) + allowed) <= PageRecords * (active + allowedNext)
    <3>1. (activeNext + w) + allowed \in Nat /\ active + allowedNext \in Nat
      BY <1>3, <1>4, <1>7
    <3> QED
      BY <1>3, <1>7, <3>1, PagesAdd
  <2> DEFINE x == PageRecords * active
             y == PageRecords * w
             z == PageRecords * allowed
             u == PageRecords * activeNext
             v == PageRecords * allowedNext
  <2>5. /\ {x, y, z, u, v} \subseteq Nat /\ u + y + z <= x + v
        /\ results + x <= z /\ n <= y
    BY <1>1, <1>7, <2>1, <2>2, <2>3, <2>4
  <2> HIDE DEF x, y, z, u, v
  <2>6. results' + u <= v
    BY <1>1, <2>5
  <2> QED
    BY <2>6 DEF u, v
<1> QED
  BY <1>5, <1>6, <1>7 DEF ResultsKept, counted, countedNext, allowed, allowedNext, active, activeNext

(* What the limit says does not depend on the handlers that went on.       *)
LEMMA ResultsAsBefore ==
    ASSUME ScraperInv, NEW h \in Slots, NoneCounted(h),
           Cardinality(Counting) \in Nat,
           Cardinality(Counting') = Cardinality(Counting),
           Cardinality(Active') <= Cardinality(Active),
           Cardinality(Active') \in Nat, Cardinality(Active) \in Nat
    PROVE  ResultsKept'
<1>1. PICK n \in Nat, w \in {0, 1} :
          /\ results' = results + n /\ itemCount' >= itemCount + n
          /\ lost' = lost + w /\ n <= PageRecords * w
  BY NoneCountedType
<1>2. pagesOutputted' = pagesOutputted /\ {itemCount', lost'} \subseteq Nat
  BY NoneCountedType
<1>3. {itemCount, pagesOutputted, results, lost} \subseteq Nat
  BY DEF ScraperInv, ScraperTypeOK
<1>4. lost' >= lost /\ Cardinality(Active') + w <= Cardinality(Active) + (lost' - lost)
  BY <1>1, <1>3
<1>5. Counted + w <= Counted'
  BY <1>1, <1>2, <1>3 DEF Counted
<1>6. Cardinality(Counting') \in Nat /\ pagesOutputted' \in Nat
  BY <1>2, <1>3
<1> QED
  BY <1>1, <1>2, <1>4, <1>5, <1>6, ResultsAccounted

(* Nothing pushed is nothing lost.                                         *)
LEMMA NothingPushed ==
    ASSUME UNCHANGED outputVars, NEW h
    PROVE  NoneCounted(h)
BY DEF NoneCounted

-----------------------------------------------------------------------------
(* Requests that join the queue, and a handler that goes on with its page. *)
Grows ==
    /\ queue' \in [Urls -> QueueStates]
    /\ \A url \in Urls : queue[url] # "absent" => queue'[url] = queue[url]
    /\ \A url \in Urls : queue[url] = "absent" => queue'[url] \in {"absent", "pending"}

(* Adding to the queue leaves alone what it has already.                   *)
LEMMA AddGrows ==
    ASSUME ScraperTypeOK, NEW parent, NEW requests, NEW hop, AddToQueue(parent, requests, hop)
    PROVE  Grows
<1>1. PICK new \in SUBSET {url \in Urls : queue[url] = "absent"} :
          queue' = [url \in Urls |-> IF url \in new THEN "pending" ELSE queue[url]]
  BY DEF AddToQueue
<1> QED
  BY <1>1 DEF Grows, ScraperTypeOK, QueueStates

(* Going on with the page moves no records.                                *)
LEMMA GoesOnKept ==
    ASSUME ScraperInv, Grows, NEW h \in Slots, slot[h].stage \in {"function", "clicks"},
           NEW s \in {"function", "clicks", "push"}, s = "clicks" => h \in Tasks, Goes(h, s),
           UNCHANGED <<outputVars, reached>>
    PROVE  ScraperInv'
<1>1. UNCHANGED <<items, itemCount, pagesOutputted, results, lost, recordless>>
  BY DEF outputVars
<1>2. /\ slot' \in [Slots -> SlotStates]
      /\ slot'[h].stage = s /\ slot'[h].url = slot[h].url
      /\ \A g \in Slots : g # h => slot'[g] = slot[g]
  BY StageChanges DEF ScraperInv, Stages
<1>3. ScraperTypeOK'
  BY <1>1, <1>2 DEF ScraperInv, ScraperTypeOK, Grows
<1>4. slot[h].url \in Urls /\ queue[slot[h].url] # "absent"
  BY DEF ScraperInv, SlotsKept
<1>5. SlotsKept'
  <2>1. \A g \in Slots : slot'[g].stage = "idle" => slot'[g] = Idle
    BY <1>2 DEF ScraperInv, SlotsKept
  <2>2. \A g \in Slots : slot'[g].stage # "idle" => slot'[g].url \in Urls /\ queue'[slot'[g].url] # "absent"
    BY <1>2, <1>4 DEF ScraperInv, SlotsKept, Grows
  <2>3. \A l \in Lates : slot'[l].stage \in {"idle", "function", "push", "count"}
    BY <1>2, ScraperAssumption DEF ScraperInv, SlotsKept, Slots
  <2>4. \A t \in Tasks : slot[t].stage # "idle" => queue'[slot[t].url] = queue[slot[t].url]
    BY DEF ScraperInv, SlotsKept, Grows, Slots
  <2>5. \A t \in Tasks :
          /\ slot'[t].stage \in {"loading", "function", "clicks", "push", "count"} =>
                queue'[slot'[t].url] = "running"
          /\ slot'[t].stage = "over" => queue'[slot'[t].url] \in {"running", "handled"}
          /\ slot'[t].stage \in {"error", "countError"} => queue'[slot'[t].url] = "handled"
    BY <1>2, <2>4 DEF ScraperInv, SlotsKept, Slots
  <2>6. \A g \in Slots : slot'[g].url = slot[g].url /\ (slot'[g].stage = "idle" <=> slot[g].stage = "idle")
    BY <1>2
  <2>7. \A t, u \in Tasks :
          (slot'[t].stage # "idle" /\ slot'[u].stage # "idle" /\ slot'[t].url = slot'[u].url) => t = u
    BY <2>6 DEF ScraperInv, SlotsKept, Slots
  <2> QED
    BY <2>1, <2>2, <2>3, <2>5, <2>7 DEF SlotsKept
<1>7. ResultsKept'
  <2>1. h \notin Counting /\ h \notin Counting' /\ h \in Active /\ h \in Active'
    BY <1>2 DEF Counting, Active
  <2>2. Cardinality(Counting') = Cardinality(Counting) /\ Cardinality(Active') = Cardinality(Active)
    BY <1>2, <2>1, CountsChanged
  <2>3. /\ Cardinality(Active') \in Nat /\ Cardinality(Active) \in Nat
        /\ Cardinality(Counting) \in Nat
    BY <1>2, CountsChanged
  <2> QED
    BY <2>2, <2>3, ResultsAsBefore, NothingPushed
<1>8. RecordsKept'
  <2>1. \A g \in Slots : slot'[g].stage \in {"count", "countError"} => slot'[g].url \in items' \cup recordless'
    BY <1>1, <1>2 DEF ScraperInv, RecordsKept
  <2>2. \A t \in Tasks : slot'[t].stage = "over" => slot'[t].url \in items' \cup recordless' \/ MaxResultsReached'
    BY <1>1, <1>2 DEF ScraperInv, RecordsKept, MaxResultsReached, Slots
  <2>3. \A url \in Urls : queue'[url] = "handled" => queue[url] = "handled"
    BY DEF Grows, ScraperInv, ScraperTypeOK
  <2>4. \A url : \A t \in Tasks : slot[t] = [stage |-> "error", url |-> url] => slot'[t] = slot[t]
    BY <1>2 DEF Slots
  <2>5. OutputComplete'
    BY <1>1, <2>3, <2>4 DEF ScraperInv, RecordsKept, OutputComplete
  <2> QED
    BY <2>1, <2>2, <2>5 DEF RecordsKept
<1> QED
  BY <1>3, <1>5, <1>7, <1>8 DEF ScraperInv

(* A pending request is in no other task, and has no error record.         *)
LEMMA StartKept ==
    ASSUME ScraperInv, NEW t \in Tasks, StartTask(t)
    PROVE  ScraperInv'
<1>1. /\ UNCHANGED <<items, itemCount, pagesOutputted, results, lost, recordless, reached>>
      /\ UNCHANGED outputVars
  BY DEF StartTask, outputVars, runVars
<1>2. PICK url \in Urls : /\ queue[url] = "pending"
                          /\ queue' = [queue EXCEPT ![url] = "running"]
                          /\ slot' = [slot EXCEPT ![t] = [stage |-> "loading", url |-> url]]
  BY DEF StartTask
<1>3. t \in Slots /\ [stage |-> "loading", url |-> url] \in SlotStates
  BY DEF Slots, SlotStates, Stages
<1>4. /\ slot' \in [Slots -> SlotStates]
      /\ slot'[t].stage = "loading" /\ slot'[t].url = url
      /\ \A g \in Slots : g # t => slot'[g] = slot[g]
  BY <1>2, <1>3, SlotChanges DEF ScraperInv
<1>5. /\ queue' \in [Urls -> QueueStates] /\ queue'[url] = "running"
      /\ \A u \in Urls : u # url => queue'[u] = queue[u]
  BY <1>2 DEF ScraperInv, ScraperTypeOK, QueueStates
<1>6. slot[t].stage = "idle"
  BY IdleType DEF StartTask
<1>7. ScraperTypeOK'
  BY <1>1, <1>4, <1>5 DEF ScraperInv, ScraperTypeOK
<1>8. \A s \in Tasks : slot[s].stage # "idle" => slot[s].url # url
  <2> SUFFICES ASSUME NEW s \in Tasks, slot[s].stage # "idle"
               PROVE  queue[slot[s].url] \in {"running", "handled"}
    BY <1>2
  <2>1. slot[s].stage \in Stages
    BY DEF ScraperInv, ScraperTypeOK, SlotStates, Slots
  <2> QED
    BY <2>1 DEF ScraperInv, SlotsKept, Stages
<1>9. SlotsKept'
  <2>1. \A g \in Slots : slot'[g].stage = "idle" => slot'[g] = Idle
    BY <1>4 DEF ScraperInv, SlotsKept
  <2>2. \A g \in Slots : slot'[g].stage # "idle" => slot'[g].url \in Urls /\ queue'[slot'[g].url] # "absent"
    BY <1>4, <1>5 DEF ScraperInv, SlotsKept
  <2>3. \A l \in Lates : slot'[l].stage \in {"idle", "function", "push", "count"}
    BY <1>4, ScraperAssumption DEF ScraperInv, SlotsKept, Slots
  <2>4. \A s \in Tasks :
          /\ slot'[s].stage \in {"loading", "function", "clicks", "push", "count"} =>
                queue'[slot'[s].url] = "running"
          /\ slot'[s].stage = "over" => queue'[slot'[s].url] \in {"running", "handled"}
          /\ slot'[s].stage \in {"error", "countError"} => queue'[slot'[s].url] = "handled"
    BY <1>4, <1>5, <1>8 DEF ScraperInv, SlotsKept, Slots
  <2>5. \A s, u \in Tasks :
          (slot'[s].stage # "idle" /\ slot'[u].stage # "idle" /\ slot'[s].url = slot'[u].url) => s = u
    BY <1>4, <1>8 DEF ScraperInv, SlotsKept, Slots
  <2> QED
    BY <2>1, <2>2, <2>3, <2>4, <2>5 DEF SlotsKept
<1>11. ResultsKept'
  <2>1. t \notin Counting /\ t \notin Counting' /\ t \notin Active /\ t \notin Active'
    BY <1>4, <1>6 DEF Counting, Active
  <2>2. Cardinality(Counting') = Cardinality(Counting) /\ Cardinality(Active') = Cardinality(Active)
    BY <1>4, <2>1, CountsChanged
  <2>3. /\ Cardinality(Active') \in Nat /\ Cardinality(Active) \in Nat
        /\ Cardinality(Counting) \in Nat
    BY <1>4, CountsChanged
  <2> QED
    BY <1>1, <1>3, <2>2, <2>3, ResultsAsBefore, NothingPushed
<1>12. RecordsKept'
  <2>1. \A g \in Slots : slot'[g].stage \in {"count", "countError"} => slot'[g].url \in items' \cup recordless'
    BY <1>1, <1>4 DEF ScraperInv, RecordsKept
  <2>2. \A s \in Tasks : slot'[s].stage = "over" => slot'[s].url \in items' \cup recordless' \/ MaxResultsReached'
    BY <1>1, <1>4 DEF ScraperInv, RecordsKept, MaxResultsReached, Slots
  <2>3. \A u \in Urls : queue'[u] = "handled" => queue[u] = "handled"
    BY <1>5
  <2>4. \A u : \A s \in Tasks : slot[s] = [stage |-> "error", url |-> u] => slot'[s] = slot[s]
    BY <1>4, <1>6 DEF Slots
  <2>5. OutputComplete'
    BY <1>1, <2>3, <2>4 DEF ScraperInv, RecordsKept, OutputComplete
  <2> QED
    BY <2>1, <2>2, <2>5 DEF RecordsKept
<1> QED
  BY <1>7, <1>9, <1>11, <1>12 DEF ScraperInv

(* Whoever passes the check of the limit found fewer pages than the limit: *)
(* what is not counted yet is in the hands of the handlers.                *)
LEMMA CheckKept ==
    ASSUME ScraperInv, NEW t \in Tasks, HandleMaxResultsPerCrawl(t)
    PROVE  ScraperInv'
<1>1. UNCHANGED <<queue, items, itemCount, pagesOutputted, results, lost, recordless, reached>> /\ UNCHANGED outputVars
  BY DEF HandleMaxResultsPerCrawl, outputVars, crawlVars
<1>2. PICK s \in {"over", "function"} : Goes(t, s) /\ s = IF MaxResultsReached THEN "over" ELSE "function"
  BY DEF HandleMaxResultsPerCrawl
<1>3. t \in Slots /\ slot[t].stage = "loading"
  BY DEF Slots, HandleMaxResultsPerCrawl, At
<1>4. /\ slot' \in [Slots -> SlotStates]
      /\ slot'[t].stage = s /\ slot'[t].url = slot[t].url
      /\ \A g \in Slots : g # t => slot'[g] = slot[g]
  BY <1>2, <1>3, StageChanges DEF ScraperInv, Stages
<1>5. ScraperTypeOK'
  BY <1>1, <1>4 DEF ScraperInv, ScraperTypeOK
<1>6. SlotsKept'
  <2>1. \A g \in Slots : slot'[g].stage = "idle" => slot'[g] = Idle
    BY <1>4 DEF ScraperInv, SlotsKept
  <2>2. \A g \in Slots : slot'[g].stage # "idle" => slot'[g].url \in Urls /\ queue'[slot'[g].url] # "absent"
    BY <1>1, <1>3, <1>4 DEF ScraperInv, SlotsKept
  <2>3. \A l \in Lates : slot'[l].stage \in {"idle", "function", "push", "count"}
    BY <1>4, ScraperAssumption DEF ScraperInv, SlotsKept, Slots
  <2>4. \A u \in Tasks :
          /\ slot'[u].stage \in {"loading", "function", "clicks", "push", "count"} =>
                queue'[slot'[u].url] = "running"
          /\ slot'[u].stage = "over" => queue'[slot'[u].url] \in {"running", "handled"}
          /\ slot'[u].stage \in {"error", "countError"} => queue'[slot'[u].url] = "handled"
    BY <1>1, <1>3, <1>4 DEF ScraperInv, SlotsKept, Slots
  <2>5. \A g \in Slots : slot'[g].url = slot[g].url /\ (slot'[g].stage = "idle" <=> slot[g].stage = "idle")
    BY <1>3, <1>4
  <2>6. \A r, u \in Tasks :
          (slot'[r].stage # "idle" /\ slot'[u].stage # "idle" /\ slot'[r].url = slot'[u].url) => r = u
    BY <2>5 DEF ScraperInv, SlotsKept, Slots
  <2> QED
    BY <2>1, <2>2, <2>3, <2>4, <2>6 DEF SlotsKept
<1>8. ResultsKept'
  <2>1. t \notin Counting /\ t \notin Counting' /\ t \notin Active /\ (t \in Active' <=> s = "function")
    BY <1>3, <1>4 DEF Counting, Active
  <2>2. CASE MaxResultsReached
    <3>1. Cardinality(Counting') = Cardinality(Counting) /\ Cardinality(Active') = Cardinality(Active)
      BY <1>2, <1>4, <2>1, <2>2, CountsChanged
    <3>2. /\ Cardinality(Active') \in Nat /\ Cardinality(Active) \in Nat
          /\ Cardinality(Counting) \in Nat
      BY <1>4, CountsChanged
    <3> QED
      BY <1>1, <1>3, <3>1, <3>2, ResultsAsBefore, NothingPushed
  <2>3. CASE ~MaxResultsReached
    <3> DEFINE counting == Cardinality(Counting')
               active == Cardinality(Active')
               slots == Cardinality(Slots)
               counted == Counted'
               allowed == Allowed'
    <3>1. counting = Cardinality(Counting) /\ counting \in Nat /\ active \in Nat
      BY <1>4, <2>1, CountsChanged
    <3>2. slots \in Nat /\ counting + active <= slots
      <4>1. Counting' \in SUBSET Slots /\ Active' \in SUBSET Slots /\ Counting' \cap Active' = {}
        BY DEF Counting, Active
      <4>2. /\ IsFiniteSet(Slots) /\ IsFiniteSet(Counting') /\ IsFiniteSet(Active')
            /\ IsFiniteSet(Counting' \cup Active')
        BY <4>1, Finite, FS_Subset
      <4>3. Cardinality(Counting' \cup Active') = counting + active - Cardinality(Counting' \cap Active')
        BY <4>2, FS_Union
      <4>4. Cardinality(Counting' \cap Active') = 0
        BY <4>1, FS_EmptySet
      <4>5. Cardinality(Counting' \cup Active') <= slots
        <5>1. Counting' \cup Active' \in SUBSET Slots
          BY <4>1
        <5> QED
          BY <4>2, <5>1, FS_Subset
      <4>6. slots \in Nat
        BY Finite
      <4> QED
        BY <3>1, <4>3, <4>4, <4>5, <4>6
    <3>3. /\ {pagesOutputted', lost', results', itemCount'} \subseteq Nat
          /\ results' <= itemCount'
      BY <1>1 DEF ScraperInv, ResultsKept, ScraperTypeOK
    <3>4. counted = pagesOutputted' + lost' + counting /\ counted \in Nat
      BY <3>1, <3>3 DEF Counted
    <3>5. results' <= PageRecords * counted
      <4>1. Counted' = Counted
        BY <1>1, <3>1 DEF Counted
      <4>2. results <= PageRecords * Counted
        BY DEF ScraperInv, ResultsKept
      <4> QED
        BY <1>1, <4>1, <4>2
    <3>6. MaxResults # 0 => pagesOutputted' < MaxResults
      BY <1>1, <2>3, LimitType DEF MaxResultsReached, ScraperInv, ScraperTypeOK
    <3>7. allowed = MaxResults - 1 + slots + lost'
      BY DEF Allowed
    <3> HIDE DEF counting, active, slots, counted, allowed
    <3>8. ASSUME MaxResults # 0
          PROVE  results' + PageRecords * active <= PageRecords * allowed
      <4>1. allowed \in Nat /\ counted + active \in Nat /\ counted + active <= allowed
        BY <3>1, <3>2, <3>3, <3>4, <3>6, <3>7, <3>8, LimitType
      <4>2. /\ PageRecords * (counted + active) = PageRecords * counted + PageRecords * active
            /\ PageRecords * counted \in Nat /\ PageRecords * active \in Nat
        BY <3>1, <3>4, PagesAdd
      <4>3. PageRecords * (counted + active) <= PageRecords * allowed /\ PageRecords * allowed \in Nat
        BY <4>1, PagesAdd
      <4> DEFINE x == PageRecords * counted
                 y == PageRecords * active
                 z == PageRecords * allowed
      <4>4. x \in Nat /\ y \in Nat /\ z \in Nat /\ x + y <= z /\ results' <= x
        BY <3>5, <4>2, <4>3
      <4> HIDE DEF x, y, z
      <4>5. results' + y <= z
        BY <3>3, <4>4
      <4> QED
        BY <4>5 DEF y, z
    <3> QED
      BY <3>3, <3>5, <3>8 DEF ResultsKept, active, counted, allowed
  <2> QED
    BY <2>2, <2>3
<1>9. RecordsKept'
  <2>1. \A g \in Slots : slot'[g].stage \in {"count", "countError"} => slot'[g].url \in items' \cup recordless'
    BY <1>1, <1>4 DEF ScraperInv, RecordsKept
  <2>2. \A u \in Tasks : slot'[u].stage = "over" => slot'[u].url \in items' \cup recordless' \/ MaxResultsReached'
    BY <1>1, <1>2, <1>4 DEF ScraperInv, RecordsKept, MaxResultsReached, Slots
  <2>3. \A url : \A u \in Tasks : slot[u] = [stage |-> "error", url |-> url] => slot'[u] = slot[u]
    BY <1>3, <1>4 DEF Slots
  <2>4. OutputComplete'
    BY <1>1, <2>3 DEF ScraperInv, RecordsKept, OutputComplete
  <2> QED
    BY <2>1, <2>2, <2>4 DEF RecordsKept
<1> QED
  BY <1>5, <1>6, <1>8, <1>9 DEF ScraperInv

(* A result uses up the place that its handler had, and is one of a page   *)
(* that will be counted.                                                   *)
LEMMA PushKept ==
    ASSUME ScraperInv, NEW h \in Slots, PushData(h)
    PROVE  ScraperInv'
<1> DEFINE failing == slot[h].stage = "error"
           url == slot[h].url
<1>1. /\ UNCHANGED <<queue, pagesOutputted, lost, reached>>
      /\ slot[h].stage \in {"push", "error"}
  BY DEF PushData, crawlVars, runVars
<1>2. PICK s \in {"count", "countError"} : Goes(h, s) /\ s = IF failing THEN "countError" ELSE "count"
  BY DEF PushData, At
<1>3. /\ slot' \in [Slots -> SlotStates]
      /\ slot'[h].stage = s /\ slot'[h].url = url
      /\ \A g \in Slots : g # h => slot'[g] = slot[g]
  BY <1>2, StageChanges DEF ScraperInv, Stages
<1>4. url \in Urls
  BY <1>1 DEF ScraperInv, SlotsKept
<1>5. PICK n \in Payloads(h) :
         /\ items' = IF n = 0 THEN items ELSE items \cup {url}
         /\ itemCount' = itemCount + n
         /\ results' = IF failing THEN results ELSE results + n
         /\ recordless' = IF n = 0 THEN recordless \cup {url} ELSE recordless
  BY DEF PushData, Saves, At
<1>6. failing => h \in Tasks /\ queue[url] = "handled"
  BY DEF ScraperInv, SlotsKept, Slots
<1>7. n \in Nat /\ n <= PageRecords /\ (failing => n = 1)
  BY <1>5, LimitType, ScraperAssumption DEF Payloads, At
<1>8. /\ items \subseteq items' /\ recordless \subseteq recordless'
      /\ url \in items' \cup recordless' /\ (failing => url \in items')
  BY <1>5, <1>7
<1>9. ScraperTypeOK'
  BY <1>1, <1>3, <1>4, <1>5, <1>7 DEF ScraperInv, ScraperTypeOK
<1>10. SlotsKept'
  <2>1. \A g \in Slots : slot'[g].stage = "idle" => slot'[g] = Idle
    BY <1>3 DEF ScraperInv, SlotsKept
  <2>2. \A g \in Slots : slot'[g].stage # "idle" => slot'[g].url \in Urls /\ queue'[slot'[g].url] # "absent"
    BY <1>1, <1>3 DEF ScraperInv, SlotsKept
  <2>3. \A l \in Lates : slot'[l].stage \in {"idle", "function", "push", "count"}
    BY <1>2, <1>3, <1>6, ScraperAssumption DEF ScraperInv, SlotsKept, Slots
  <2>4. \A u \in Tasks :
          /\ slot'[u].stage \in {"loading", "function", "clicks", "push", "count"} =>
                queue'[slot'[u].url] = "running"
          /\ slot'[u].stage = "over" => queue'[slot'[u].url] \in {"running", "handled"}
          /\ slot'[u].stage \in {"error", "countError"} => queue'[slot'[u].url] = "handled"
    BY <1>1, <1>2, <1>3, <1>6 DEF ScraperInv, SlotsKept, Slots
  <2>5. \A g \in Slots : slot'[g].url = slot[g].url /\ (slot'[g].stage = "idle" <=> slot[g].stage = "idle")
    BY <1>1, <1>3
  <2>6. \A r, u \in Tasks :
          (slot'[r].stage # "idle" /\ slot'[u].stage # "idle" /\ slot'[r].url = slot'[u].url) => r = u
    BY <2>5 DEF ScraperInv, SlotsKept, Slots
  <2> QED
    BY <2>1, <2>2, <2>3, <2>4, <2>6 DEF SlotsKept
<1>11. ResultsKept'
  <2> DEFINE counting == Cardinality(Counting)
             active == Cardinality(Active)
             got == IF failing THEN 0 ELSE n
             w == IF failing THEN 0 ELSE 1
  <2>1. /\ h \notin Counting /\ h \in Counting' /\ h \notin Active'
        /\ h \in Active <=> ~failing
    BY <1>1, <1>3 DEF Counting, Active
  <2>2. /\ counting \in Nat /\ active \in Nat
        /\ Cardinality(Counting') = counting + 1 /\ Cardinality(Counting') \in Nat
        /\ Cardinality(Active') \in Nat
        /\ Cardinality(Active') = active - w
    BY <1>3, <2>1, CountsChanged
  <2>3. {itemCount, pagesOutputted, results, lost} \subseteq Nat
    BY DEF ScraperInv, ScraperTypeOK
  <2>4. /\ got \in Nat /\ w \in {0, 1}
        /\ results' = results + got /\ itemCount' >= itemCount + got
    BY <1>5, <1>7, <2>3
  <2>5. got <= PageRecords * w
    <3>1. CASE failing
      BY <3>1, LimitType
    <3>2. CASE ~failing
      BY <1>7, <3>2, LimitType
    <3> QED
      BY <3>1, <3>2
  <2>6. lost' >= lost /\ {itemCount', pagesOutputted', lost'} \subseteq Nat
    BY <1>1, <1>5, <1>7, <2>3
  <2>7. Counted + w <= Counted'
    BY <1>1, <2>2, <2>3, <2>4 DEF Counted
  <2>8. Cardinality(Active') + w <= active + (lost' - lost)
    BY <1>1, <2>2, <2>3, <2>4
  <2> HIDE DEF got, w
  <2> QED
    BY <2>2, <2>4, <2>5, <2>6, <2>7, <2>8, ResultsAccounted
<1>12. RecordsKept'
  <2>1. \A g \in Slots : slot'[g].stage \in {"count", "countError"} => slot'[g].url \in items' \cup recordless'
    BY <1>3, <1>8 DEF ScraperInv, RecordsKept
  <2>2. \A u \in Tasks : slot'[u].stage = "over" => slot'[u].url \in items' \cup recordless' \/ MaxResultsReached'
    BY <1>1, <1>2, <1>3, <1>8 DEF ScraperInv, RecordsKept, MaxResultsReached, Slots
  <2>3. \A v \in Urls : \A u \in Tasks : slot[u] = [stage |-> "error", url |-> v] =>
           slot'[u] = slot[u] \/ v \in items'
    BY <1>3, <1>8 DEF Slots
  <2>4. OutputComplete'
    BY <1>1, <1>8, <2>3 DEF ScraperInv, RecordsKept, OutputComplete
  <2> QED
    BY <2>1, <2>2, <2>4 DEF RecordsKept
<1> QED
  BY <1>9, <1>10, <1>11, <1>12 DEF ScraperInv

(* What was in the dataset is counted.                                     *)
LEMMA CountKept ==
    ASSUME ScraperInv, NEW h \in Slots, CountPage(h)
    PROVE  ScraperInv'
<1>1. /\ UNCHANGED <<queue, items, itemCount, results, lost, recordless, reached>>
      /\ pagesOutputted' = pagesOutputted + 1
      /\ slot[h].stage \in {"count", "countError"}
  BY DEF CountPage, crawlVars, runVars
<1>2. PICK r \in SlotStates :
         /\ slot' = [slot EXCEPT ![h] = r]
         /\ h \in Tasks => r = [slot[h] EXCEPT !.stage = "over"]
         /\ h \notin Tasks => r = Idle
  <2>1. [slot[h] EXCEPT !.stage = "over"] \in SlotStates /\ Idle \in SlotStates
    BY IdleType DEF ScraperInv, ScraperTypeOK, SlotStates, Stages
  <2>2. slot' = [slot EXCEPT ![h] = IF h \in Tasks THEN [slot[h] EXCEPT !.stage = "over"] ELSE Idle]
    BY DEF CountPage
  <2> QED
    BY <2>1, <2>2
<1>3. /\ slot' \in [Slots -> SlotStates] /\ slot'[h] = r
      /\ \A g \in Slots : g # h => slot'[g] = slot[g]
  BY <1>2, SlotChanges DEF ScraperInv
<1>4. /\ h \in Tasks => r.stage = "over" /\ r.url = slot[h].url
      /\ h \notin Tasks => r.stage = "idle"
  BY <1>2, IdleType DEF ScraperInv, ScraperTypeOK, SlotStates
<1>5. slot[h].url \in Urls /\ slot[h].url \in items \cup recordless /\ queue[slot[h].url] # "absent"
  BY <1>1 DEF ScraperInv, SlotsKept, RecordsKept
<1>6. ScraperTypeOK'
  BY <1>1, <1>3 DEF ScraperInv, ScraperTypeOK
<1>7. SlotsKept'
  <2>1. \A g \in Slots : slot'[g].stage = "idle" => slot'[g] = Idle
    BY <1>2, <1>3, <1>4 DEF ScraperInv, SlotsKept
  <2>2. \A g \in Slots : slot'[g].stage # "idle" => slot'[g].url \in Urls /\ queue'[slot'[g].url] # "absent"
    BY <1>1, <1>3, <1>4, <1>5 DEF ScraperInv, SlotsKept
  <2>3. \A l \in Lates : slot'[l].stage \in {"idle", "function", "push", "count"}
    BY <1>3, <1>4, ScraperAssumption DEF ScraperInv, SlotsKept, Slots
  <2>4. \A u \in Tasks :
          /\ slot'[u].stage \in {"loading", "function", "clicks", "push", "count"} =>
                queue'[slot'[u].url] = "running"
          /\ slot'[u].stage = "over" => queue'[slot'[u].url] \in {"running", "handled"}
          /\ slot'[u].stage \in {"error", "countError"} => queue'[slot'[u].url] = "handled"
    BY <1>1, <1>3, <1>4 DEF ScraperInv, SlotsKept, Slots
  <2>5. \A u \in Tasks : slot'[u].url = slot[u].url /\ (slot'[u].stage = "idle" <=> slot[u].stage = "idle")
    BY <1>1, <1>3, <1>4 DEF Slots
  <2>6. \A s, u \in Tasks :
          (slot'[s].stage # "idle" /\ slot'[u].stage # "idle" /\ slot'[s].url = slot'[u].url) => s = u
    BY <2>5 DEF ScraperInv, SlotsKept
  <2> QED
    BY <2>1, <2>2, <2>3, <2>4, <2>6 DEF SlotsKept
<1>9. ResultsKept'
  <2>1. h \in Counting /\ h \notin Counting' /\ h \notin Active /\ h \notin Active'
    BY <1>1, <1>3, <1>4 DEF Counting, Active
  <2>2. /\ Cardinality(Counting) \in Nat /\ Cardinality(Counting') \in Nat
        /\ Cardinality(Counting') = Cardinality(Counting) - 1
        /\ Cardinality(Active') = Cardinality(Active)
        /\ Cardinality(Active') \in Nat /\ Cardinality(Active) \in Nat
    BY <1>3, <2>1, CountsChanged
  <2>3. {itemCount, pagesOutputted, results, lost} \subseteq Nat
    BY DEF ScraperInv, ScraperTypeOK
  <2>4. Counted + 0 <= Counted'
    BY <1>1, <2>2, <2>3 DEF Counted
  <2>5. /\ results' = results + 0 /\ itemCount' >= itemCount + 0 /\ lost' >= lost
        /\ {itemCount', pagesOutputted', lost'} \subseteq Nat /\ 0 <= PageRecords * 0
    BY <1>1, <2>3, LimitType
  <2>6. Cardinality(Active') + 0 <= Cardinality(Active) + (lost' - lost)
    BY <1>1, <2>2, <2>3
  <2> QED
    BY <2>2, <2>4, <2>5, <2>6, ResultsAccounted
<1>10. MaxResultsReached => MaxResultsReached'
  BY <1>1, LimitType DEF MaxResultsReached, ScraperInv, ScraperTypeOK
<1>11. RecordsKept'
  <2>1. \A g \in Slots : slot'[g].stage \in {"count", "countError"} => slot'[g].url \in items' \cup recordless'
    BY <1>1, <1>3, <1>4 DEF ScraperInv, RecordsKept
  <2>2. \A u \in Tasks : slot'[u].stage = "over" => slot'[u].url \in items' \cup recordless' \/ MaxResultsReached'
    BY <1>1, <1>3, <1>4, <1>5, <1>10 DEF ScraperInv, RecordsKept, Slots
  <2>3. \A url \in Urls : \A u \in Tasks : slot[u] = [stage |-> "error", url |-> url] => slot'[u] = slot[u]
    BY <1>1, <1>3 DEF Slots
  <2>4. OutputComplete'
    BY <1>1, <1>10, <2>3 DEF ScraperInv, RecordsKept, OutputComplete, MaxResultsReached
  <2> QED
    BY <2>1, <2>2, <2>4 DEF RecordsKept
<1> QED
  BY <1>6, <1>7, <1>9, <1>11 DEF ScraperInv

(* What is marked handled has a record, or the limit was reached.          *)
LEMMA MarkKept ==
    ASSUME ScraperInv, NEW t \in Tasks, MarkHandled(t)
    PROVE  ScraperInv'
<1> DEFINE url == slot[t].url
<1>1. /\ UNCHANGED <<items, itemCount, pagesOutputted, results, lost, recordless, reached>> /\ UNCHANGED outputVars
      /\ queue' = [queue EXCEPT ![url] = "handled"]
      /\ slot' = [slot EXCEPT ![t] = Idle]
      /\ slot[t].stage = "over" /\ t \in Slots
  BY DEF MarkHandled, outputVars, runVars, At, Slots
<1>2. url \in Urls /\ (url \in items \cup recordless \/ MaxResultsReached)
  BY <1>1 DEF ScraperInv, SlotsKept, RecordsKept
<1>3. /\ slot' \in [Slots -> SlotStates] /\ slot'[t] = Idle /\ slot'[t].stage = "idle"
      /\ \A g \in Slots : g # t => slot'[g] = slot[g]
  BY <1>1, IdleType, SlotChanges DEF ScraperInv
<1>4. /\ queue' \in [Urls -> QueueStates] /\ queue'[url] = "handled"
      /\ \A u \in Urls : u # url => queue'[u] = queue[u]
  BY <1>1, <1>2 DEF ScraperInv, ScraperTypeOK, QueueStates
<1>5. \A s \in Tasks : s # t /\ slot[s].stage # "idle" => slot[s].url # url
  BY <1>1 DEF ScraperInv, SlotsKept
<1> HIDE DEF url
<1>6. ScraperTypeOK'
  BY <1>1, <1>3, <1>4 DEF ScraperInv, ScraperTypeOK
<1>7. SlotsKept'
  <2>1. \A g \in Slots : slot'[g].stage = "idle" => slot'[g] = Idle
    BY <1>3 DEF ScraperInv, SlotsKept
  <2>2. \A g \in Slots : slot'[g].stage # "idle" => slot'[g].url \in Urls /\ queue'[slot'[g].url] # "absent"
    BY <1>3, <1>4 DEF ScraperInv, SlotsKept
  <2>3. \A l \in Lates : slot'[l].stage \in {"idle", "function", "push", "count"}
    BY <1>3, ScraperAssumption DEF ScraperInv, SlotsKept, Slots
  <2>4. \A u \in Tasks :
          /\ slot'[u].stage \in {"loading", "function", "clicks", "push", "count"} =>
                queue'[slot'[u].url] = "running"
          /\ slot'[u].stage = "over" => queue'[slot'[u].url] \in {"running", "handled"}
          /\ slot'[u].stage \in {"error", "countError"} => queue'[slot'[u].url] = "handled"
    BY <1>3, <1>4, <1>5 DEF ScraperInv, SlotsKept, Slots
  <2>5. \A s, u \in Tasks :
          (slot'[s].stage # "idle" /\ slot'[u].stage # "idle" /\ slot'[s].url = slot'[u].url) => s = u
    BY <1>3 DEF ScraperInv, SlotsKept, Slots
  <2> QED
    BY <2>1, <2>2, <2>3, <2>4, <2>5 DEF SlotsKept
<1>9. ResultsKept'
  <2>1. t \notin Counting /\ t \notin Counting' /\ t \notin Active /\ t \notin Active'
    BY <1>1, <1>3 DEF Counting, Active
  <2>2. Cardinality(Counting') = Cardinality(Counting) /\ Cardinality(Active') = Cardinality(Active)
    BY <1>3, <2>1, CountsChanged
  <2>3. /\ Cardinality(Active') \in Nat /\ Cardinality(Active) \in Nat
        /\ Cardinality(Counting) \in Nat
    BY <1>3, CountsChanged
  <2> QED
    BY <1>1, <1>3, <2>2, <2>3, ResultsAsBefore, NothingPushed
<1>10. RecordsKept'
  <2>1. \A g \in Slots : slot'[g].stage \in {"count", "countError"} => slot'[g].url \in items' \cup recordless'
    BY <1>1, <1>3 DEF ScraperInv, RecordsKept
  <2>2. \A u \in Tasks : slot'[u].stage = "over" => slot'[u].url \in items' \cup recordless' \/ MaxResultsReached'
    BY <1>1, <1>3 DEF ScraperInv, RecordsKept, MaxResultsReached, Slots
  <2>3. \A v \in Urls : \A u \in Tasks : slot[u] = [stage |-> "error", url |-> v] => slot'[u] = slot[u]
    BY <1>1, <1>3 DEF Slots
  <2>4. OutputComplete'
    BY <1>1, <1>2, <1>4, <2>3 DEF ScraperInv, RecordsKept, OutputComplete, MaxResultsReached
  <2> QED
    BY <2>1, <2>2, <2>4 DEF RecordsKept
<1> QED
  BY <1>6, <1>7, <1>9, <1>10 DEF ScraperInv

(* A handler that failed, alone (l = t) or while it goes on as late.       *)
LEMMA FailsKept ==
    ASSUME ScraperInv, NEW t \in Tasks, NEW l \in Slots, RequestFails(t), NoneCounted(t),
           slot[t].stage \in {"loading", "function", "clicks", "push", "count"},
           \/ l = t /\ slot[t].stage # "count"
           \/ /\ l \in Lates /\ slot[l] = Idle /\ slot'[l] = slot[t]
              /\ slot[t].stage \in {"function", "push", "count"},
           slot' \in [Slots -> SlotStates], slot'[t] = AfterFailure(t),
           \A g \in Slots : g # t /\ g # l => slot'[g] = slot[g]
    PROVE  ScraperInv'
<1> DEFINE url == slot[t].url
<1>1. /\ t \in Slots /\ items \subseteq items' /\ items' \subseteq Urls
      /\ UNCHANGED <<pagesOutputted, recordless, reached>>
      /\ {itemCount', results', lost'} \subseteq Nat
  BY NoneCountedType DEF RequestFails, runVars, Slots
<1>2. PICK again \in BOOLEAN :
         /\ slot'[t] = IF again THEN Idle ELSE [slot[t] EXCEPT !.stage = "error"]
         /\ queue' = [queue EXCEPT ![url] = IF again THEN "pending" ELSE "handled"]
  <2> DEFINE retried == retryCount[url] < MaxRequestRetries
  <2>1. /\ slot'[t] = IF retried THEN Idle ELSE [slot[t] EXCEPT !.stage = "error"]
        /\ queue' = [queue EXCEPT ![url] = IF retried THEN "pending" ELSE "handled"]
    BY DEF RequestFails, AfterFailure
  <2> HIDE DEF retried
  <2>2. CASE retried
    BY <2>1, <2>2
  <2>3. CASE ~retried
    BY <2>1, <2>3
  <2> QED
    BY <2>2, <2>3
<1>3. t \in Slots /\ slot[t] \in SlotStates /\ url \in Urls /\ queue[url] = "running"
  BY DEF ScraperInv, ScraperTypeOK, SlotsKept, Slots
<1>4. /\ again => slot'[t] = Idle /\ slot'[t].stage = "idle"
      /\ ~again => slot'[t] = [stage |-> "error", url |-> url]
      /\ ~again => slot'[t].stage = "error" /\ slot'[t].url = url
  BY <1>2, <1>3, IdleType DEF SlotStates
<1>5. /\ queue' \in [Urls -> QueueStates]
      /\ queue'[url] = IF again THEN "pending" ELSE "handled"
      /\ \A u \in Urls : u # url => queue'[u] = queue[u]
  BY <1>2, <1>3 DEF ScraperInv, ScraperTypeOK, QueueStates
<1>6. \A s \in Tasks : s # t /\ slot[s].stage # "idle" => slot[s].url # url
  BY DEF ScraperInv, SlotsKept
<1>7. /\ l # t => l \in Lates /\ l \notin Tasks /\ slot[l].stage = "idle" /\ slot'[l] = slot[t]
      /\ l = t => slot[t].stage # "count"
      /\ \A s \in Tasks : s # t => slot'[s] = slot[s]
  BY ScraperAssumption, IdleType DEF Slots
<1>8. ScraperTypeOK'
  BY <1>1, <1>5 DEF ScraperInv, ScraperTypeOK
<1> HIDE DEF url
<1>9. SlotsKept'
  <2>1. \A g \in Slots : slot'[g].stage = "idle" => slot'[g] = Idle
    BY <1>4, <1>7 DEF ScraperInv, SlotsKept
  <2>2. \A g \in Slots : slot'[g].stage # "idle" => slot'[g].url \in Urls /\ queue'[slot'[g].url] # "absent"
    <3> SUFFICES ASSUME NEW g \in Slots, slot'[g].stage # "idle"
                 PROVE  slot'[g].url \in Urls /\ queue'[slot'[g].url] # "absent"
      OBVIOUS
    <3>1. CASE g = t \/ g = l
      <4>1. slot'[g].url = url
        BY <1>4, <1>7, <3>1 DEF url
      <4> QED
        BY <1>3, <1>5, <4>1
    <3>2. CASE g # t /\ g # l
      BY <1>5, <3>2 DEF ScraperInv, SlotsKept
    <3> QED
      BY <3>1, <3>2
  <2>3. \A k \in Lates : slot'[k].stage \in {"idle", "function", "push", "count"}
    BY <1>7, ScraperAssumption DEF ScraperInv, SlotsKept, Slots
  <2>4. \A u \in Tasks :
          /\ slot'[u].stage \in {"loading", "function", "clicks", "push", "count"} =>
                queue'[slot'[u].url] = "running"
          /\ slot'[u].stage = "over" => queue'[slot'[u].url] \in {"running", "handled"}
          /\ slot'[u].stage \in {"error", "countError"} => queue'[slot'[u].url] = "handled"
    <3> SUFFICES ASSUME NEW u \in Tasks, slot'[u].stage # "idle"
                 PROVE  /\ slot'[u].stage \in {"loading", "function", "clicks", "push", "count"} =>
                              queue'[slot'[u].url] = "running"
                        /\ slot'[u].stage = "over" => queue'[slot'[u].url] \in {"running", "handled"}
                        /\ slot'[u].stage \in {"error", "countError"} => queue'[slot'[u].url] = "handled"
      OBVIOUS
    <3>1. CASE u = t
      BY <1>4, <1>5, <3>1
    <3>2. CASE u # t
      <4>1. slot'[u] = slot[u] /\ u \in Slots
        BY <1>7, <3>2 DEF Slots
      <4>2. slot[u].url \in Urls /\ slot[u].url # url
        BY <1>6, <3>2, <4>1 DEF ScraperInv, SlotsKept
      <4>3. queue'[slot'[u].url] = queue[slot[u].url]
        BY <1>5, <4>1, <4>2
      <4> QED
        BY <4>1, <4>3 DEF ScraperInv, SlotsKept
    <3> QED
      BY <3>1, <3>2
  <2>5. \A s, u \in Tasks :
          (slot'[s].stage # "idle" /\ slot'[u].stage # "idle" /\ slot'[s].url = slot'[u].url) => s = u
    BY <1>4, <1>6, <1>7 DEF ScraperInv, SlotsKept
  <2> QED
    BY <2>1, <2>2, <2>3, <2>4, <2>5 DEF SlotsKept
<1>12. ResultsKept'
  <2>1. IsFiniteSet(Slots)
    BY Finite
  <2>2. /\ Counting \in SUBSET Slots /\ Counting \ {t} \in SUBSET Slots /\ Counting' \in SUBSET Slots
        /\ Active \in SUBSET Slots /\ Active \ {t} \in SUBSET Slots /\ Active' \in SUBSET Slots
    BY DEF Counting, Active
  <2>3. /\ \A g \in Slots : g # t => (g \in Counting <=> g \in Counting \ {t})
        /\ \A g \in Slots : g # t => (g \in Active <=> g \in Active \ {t})
    OBVIOUS
  <2>4. t \notin Counting' /\ t \notin Active'
    BY <1>4 DEF Counting, Active
  <2>5. /\ \A g \in Slots : g # l => (g \in Counting \ {t} <=> g \in Counting')
        /\ \A g \in Slots : g # l => (g \in Active \ {t} <=> g \in Active')
    BY <2>4 DEF Counting, Active
  <2>6. /\ l \notin Counting \ {t} /\ l \notin Active \ {t}
        /\ l \in Counting' <=> t \in Counting
        /\ l \in Active' => t \in Active
    BY <1>3, <1>7, <2>4 DEF Counting, Active
  <2>7. /\ Cardinality(Counting) \in Nat /\ Cardinality(Counting \ {t}) \in Nat
        /\ Cardinality(Counting \ {t}) = Cardinality(Counting) - (IF t \in Counting THEN 1 ELSE 0)
    BY <2>1, <2>2, <2>3, OneChanged
  <2>8. Cardinality(Counting') = Cardinality(Counting \ {t}) + (IF l \in Counting' THEN 1 ELSE 0)
    BY <2>1, <2>2, <2>5, <2>6, <2>7, OneChanged
  <2>9. /\ Cardinality(Active) \in Nat /\ Cardinality(Active \ {t}) \in Nat
        /\ Cardinality(Active \ {t}) = Cardinality(Active) - (IF t \in Active THEN 1 ELSE 0)
    BY <2>1, <2>2, <2>3, OneChanged
  <2>10. /\ Cardinality(Active') \in Nat
         /\ Cardinality(Active') = Cardinality(Active \ {t}) + (IF l \in Active' THEN 1 ELSE 0)
    BY <2>1, <2>2, <2>5, <2>6, <2>9, OneChanged
  <2>11. Cardinality(Counting') = Cardinality(Counting)
    BY <2>6, <2>7, <2>8
  <2>12. Cardinality(Active') <= Cardinality(Active)
    BY <2>6, <2>9, <2>10
  <2> QED
    BY <1>1, <2>7, <2>9, <2>10, <2>11, <2>12, ResultsAsBefore
<1>13. RecordsKept'
  <2>1. \A g \in Slots : slot'[g].stage \in {"count", "countError"} => slot'[g].url \in items' \cup recordless'
    BY <1>1, <1>3, <1>4, <1>7 DEF ScraperInv, RecordsKept
  <2>2. \A u \in Tasks : slot'[u].stage = "over" => slot'[u].url \in items' \cup recordless' \/ MaxResultsReached'
    BY <1>1, <1>4, <1>7 DEF ScraperInv, RecordsKept, MaxResultsReached
  <2>3. \A v \in Urls : \A u \in Tasks : slot[u] = [stage |-> "error", url |-> v] => slot'[u] = slot[u]
    BY <1>7
  <2>4. OutputComplete'
    <3> SUFFICES ASSUME NEW u \in Urls, queue'[u] = "handled", u \notin items'
                 PROVE  \/ reached' \/ (MaxResults # 0 /\ pagesOutputted' >= MaxResults)
                        \/ u \in recordless'
                        \/ \E s \in Tasks : slot'[s] = [stage |-> "error", url |-> u]
      BY DEF OutputComplete
    <3>1. CASE u = url
      BY <1>4, <1>5, <3>1
    <3>2. CASE u # url
      BY <1>1, <1>5, <2>3, <3>2 DEF ScraperInv, RecordsKept, OutputComplete
    <3> QED
      BY <3>1, <3>2
  <2> QED
    BY <2>1, <2>2, <2>4 DEF RecordsKept
<1> QED
  BY <1>8, <1>9, <1>12, <1>13 DEF ScraperInv

(* After a failure the task is idle or about to push an error record.      *)
LEMMA AfterFailureType ==
    ASSUME ScraperInv, NEW t \in Tasks
    PROVE  AfterFailure(t) \in SlotStates
<1>1. slot[t] \in SlotStates
  BY DEF ScraperInv, ScraperTypeOK, Slots
<1>2. [slot[t] EXCEPT !.stage = "error"] \in SlotStates
  BY <1>1 DEF SlotStates, Stages
<1> QED
  BY <1>2, IdleType DEF AfterFailure

(* The handler fails with its task ...                                     *)
LEMMA ThrowsKept ==
    ASSUME ScraperInv, NEW t \in Tasks, HandlerThrows(t)
    PROVE  ScraperInv'
<1>1. t \in Slots /\ RequestFails(t) /\ slot[t].stage \in {"loading", "function", "clicks", "push"}
  BY DEF HandlerThrows, Slots
<1>2. /\ slot' \in [Slots -> SlotStates] /\ slot'[t] = AfterFailure(t)
      /\ \A g \in Slots : g # t => slot'[g] = slot[g]
  BY <1>1, AfterFailureType, SlotChanges DEF HandlerThrows, ScraperInv
<1>3. NoneCounted(t)
  BY DEF HandlerThrows, NoneCounted
<1> QED
  BY <1>1, <1>2, <1>3, FailsKept

(* ... or outlives it.                                                     *)
LEMMA TimesOutKept ==
    ASSUME ScraperInv, NEW t \in Tasks, NEW l \in Lates, HandlerTimesOut(t, l)
    PROVE  ScraperInv'
<1>1. /\ t \in Slots /\ l \in Slots /\ t # l /\ RequestFails(t)
      /\ slot[t].stage \in {"function", "push", "count"} /\ slot[l] = Idle
  BY ScraperAssumption DEF HandlerTimesOut, Slots
<1>2. slot' = [slot EXCEPT ![t] = AfterFailure(t), ![l] = slot[t]]
  BY DEF HandlerTimesOut
<1>3. slot \in [Slots -> SlotStates] /\ slot[t] \in SlotStates /\ AfterFailure(t) \in SlotStates
  BY <1>1, AfterFailureType DEF ScraperInv, ScraperTypeOK
<1>4. /\ slot' \in [Slots -> SlotStates] /\ slot'[t] = AfterFailure(t) /\ slot'[l] = slot[t]
      /\ \A g \in Slots : g # t /\ g # l => slot'[g] = slot[g]
  BY <1>1, <1>2, <1>3
<1>5. NoneCounted(t)
  BY NothingPushed DEF HandlerTimesOut
<1> QED
  BY <1>1, <1>4, <1>5, FailsKept

(* A late handler that fails leaves no trace but what it pushed.           *)
LEMMA LateKept ==
    ASSUME ScraperInv, NEW l \in Lates, LateEnds(l)
    PROVE  ScraperInv'
<1>1. /\ UNCHANGED <<queue, pagesOutputted, recordless, reached>>
      /\ items \subseteq items' /\ items' \subseteq Urls
      /\ {itemCount', results', lost'} \subseteq Nat
      /\ NoneCounted(l)
      /\ slot' = [slot EXCEPT ![l] = Idle]
      /\ slot[l].stage \in {"function", "push"} /\ l \in Slots /\ l \notin Tasks
  <2>1. NoneCounted(l) /\ l \in Slots /\ l \notin Tasks
    BY ScraperAssumption DEF LateEnds, NoneCounted, Slots
  <2> QED
    BY <2>1, NoneCountedType DEF LateEnds, crawlVars, runVars
<1>2. /\ slot' \in [Slots -> SlotStates] /\ slot'[l] = Idle /\ slot'[l].stage = "idle"
      /\ \A g \in Slots : g # l => slot'[g] = slot[g]
  BY <1>1, IdleType, SlotChanges DEF ScraperInv
<1>3. \A t \in Tasks : slot'[t] = slot[t]
  BY <1>1, <1>2 DEF Slots
<1>4. ScraperTypeOK'
  BY <1>1, <1>2 DEF ScraperInv, ScraperTypeOK
<1>5. SlotsKept'
  <2>1. \A g \in Slots : slot'[g].stage = "idle" => slot'[g] = Idle
    BY <1>2 DEF ScraperInv, SlotsKept
  <2>2. \A g \in Slots : slot'[g].stage # "idle" => slot'[g].url \in Urls /\ queue'[slot'[g].url] # "absent"
    BY <1>1, <1>2 DEF ScraperInv, SlotsKept
  <2>3. \A k \in Lates : slot'[k].stage \in {"idle", "function", "push", "count"}
    BY <1>2 DEF ScraperInv, SlotsKept, Slots
  <2> QED
    BY <1>1, <1>3, <2>1, <2>2, <2>3 DEF ScraperInv, SlotsKept
<1>7. ResultsKept'
  <2>1. l \notin Counting /\ l \notin Counting' /\ l \notin Active'
    BY <1>1, <1>2 DEF Counting, Active
  <2>2. /\ Cardinality(Counting') = Cardinality(Counting)
        /\ Cardinality(Active') \in Nat /\ Cardinality(Active) \in Nat
        /\ Cardinality(Active') <= Cardinality(Active) /\ Cardinality(Counting) \in Nat
    BY <1>2, <2>1, CountsChanged
  <2> QED
    BY <1>1, <2>2, ResultsAsBefore
<1>8. RecordsKept'
  <2>1. \A g \in Slots : slot'[g].stage \in {"count", "countError"} => slot'[g].url \in items' \cup recordless'
    BY <1>1, <1>2 DEF ScraperInv, RecordsKept
  <2>2. OutputComplete'
    BY <1>1, <1>3 DEF ScraperInv, RecordsKept, OutputComplete
  <2>3. \A t \in Tasks : slot'[t].stage = "over" => slot'[t].url \in items' \cup recordless' \/ MaxResultsReached'
    BY <1>1, <1>3 DEF ScraperInv, RecordsKept, MaxResultsReached
  <2> QED
    BY <2>1, <2>2, <2>3 DEF RecordsKept
<1> QED
  BY <1>4, <1>5, <1>7, <1>8 DEF ScraperInv

(* The error record is still to be pushed, or the crawl was given up.      *)
LEMMA ErrorPushKept ==
    ASSUME ScraperInv, NEW t \in Tasks, ErrorPushFails(t)
    PROVE  ScraperInv'
<1> DEFINE url == slot[t].url
<1>1. /\ t \in Slots /\ slot[t].stage = "error"
      /\ UNCHANGED <<queue, reached>>
  BY DEF ErrorPushFails, crawlVars, At, Slots
<1>2. PICK gives \in BOOLEAN :
         /\ slot' = IF gives THEN [slot EXCEPT ![t] = Idle] ELSE slot
         /\ recordless' = IF gives THEN recordless \cup {url} ELSE recordless
  <2>1. CASE UNCHANGED <<slot, aborted, recordless>>
    <3> WITNESS FALSE \in BOOLEAN
    <3> QED
      BY <2>1
  <2>2. CASE slot' = [slot EXCEPT ![t] = Idle] /\ recordless' = recordless \cup {url}
    <3> WITNESS TRUE \in BOOLEAN
    <3> QED
      BY <2>2
  <2> QED
    BY <2>1, <2>2 DEF ErrorPushFails
<1>3. /\ slot' \in [Slots -> SlotStates]
      /\ \A g \in Slots : g # t => slot'[g] = slot[g]
      /\ slot'[t] = slot[t] \/ (gives /\ slot'[t] = Idle /\ slot'[t].stage = "idle")
  <2>1. CASE gives
    BY <1>1, <1>2, <2>1, IdleType, SlotChanges DEF ScraperInv
  <2>2. CASE ~gives
    BY <1>2, <2>2 DEF ScraperInv, ScraperTypeOK
  <2> QED
    BY <2>1, <2>2
<1>4. PICK n \in Nat, w \in {0, 1} :
         /\ results' = results + n /\ itemCount' >= itemCount + n
         /\ lost' = lost + w /\ n <= PageRecords * w
         /\ items \subseteq items' /\ items' \subseteq Urls
         /\ pagesOutputted' = pagesOutputted
         /\ {itemCount', results', lost'} \subseteq Nat
  <2>1. CASE PushLost(t)
    <3>1. {itemCount, pagesOutputted, results, lost} \subseteq Nat /\ items \subseteq Urls /\ url \in Urls
      BY <1>1 DEF ScraperInv, ScraperTypeOK, SlotsKept
    <3>2. PICK m \in Payloads(t) : /\ items' \in {items, items \cup {url}}
                                    /\ itemCount' = itemCount + m /\ results' = results
      BY <1>1, <2>1 DEF PushLost, Saves, At
    <3>3. m = 1
      BY <1>1, <3>2 DEF Payloads, At
    <3>4. lost' = lost + 1 /\ pagesOutputted' = pagesOutputted
      BY <2>1 DEF PushLost
    <3>5. results' = results + 0 /\ itemCount' >= itemCount + 0 /\ 0 <= PageRecords * 1
      BY <3>1, <3>2, <3>3, LimitType
    <3> QED
      BY <3>1, <3>2, <3>3, <3>4, <3>5
  <2>2. CASE UNCHANGED <<items, itemCount, pagesOutputted, results, lost>>
    <3>1. {itemCount, pagesOutputted, results, lost} \subseteq Nat /\ items \subseteq Urls
      BY DEF ScraperInv, ScraperTypeOK
    <3>2. results' = results + 0 /\ itemCount' >= itemCount + 0 /\ lost' = lost + 0 /\ 0 <= PageRecords * 0
      BY <2>2, <3>1, LimitType
    <3> QED
      BY <2>2, <3>1, <3>2
  <2> QED
    BY <2>1, <2>2 DEF ErrorPushFails
<1>5. ScraperTypeOK'
  BY <1>1, <1>3, <1>4 DEF ScraperInv, ScraperTypeOK
<1>6. SlotsKept'
  BY <1>1, <1>3 DEF ScraperInv, SlotsKept, Slots
<1>7. ResultsKept'
  <2>1. t \notin Counting /\ t \notin Counting' /\ t \notin Active /\ t \notin Active'
    BY <1>1, <1>3 DEF Counting, Active
  <2>2. /\ Cardinality(Counting) \in Nat /\ Cardinality(Counting') \in Nat
        /\ Cardinality(Active) \in Nat /\ Cardinality(Active') \in Nat
        /\ Cardinality(Counting') = Cardinality(Counting)
        /\ Cardinality(Active') = Cardinality(Active)
    BY <1>3, <2>1, CountsChanged
  <2>3. {itemCount, pagesOutputted, results, lost} \subseteq Nat
    BY DEF ScraperInv, ScraperTypeOK
  <2>4. /\ lost' >= lost /\ {itemCount', pagesOutputted', lost'} \subseteq Nat
        /\ Cardinality(Active') + w <= Cardinality(Active) + (lost' - lost)
    BY <1>4, <2>2, <2>3
  <2>5. Counted + w <= Counted'
    BY <1>4, <2>2, <2>3 DEF Counted
  <2> QED
    BY <1>4, <2>2, <2>4, <2>5, ResultsAccounted
<1>8. RecordsKept'
  <2>1. recordless \subseteq recordless'
    BY <1>2
  <2>2. \A g \in Slots : slot'[g].stage \in {"count", "countError"} => slot'[g].url \in items' \cup recordless'
    BY <1>3, <1>4, <2>1 DEF ScraperInv, RecordsKept
  <2>3. \A u \in Tasks : slot'[u].stage = "over" => slot'[u].url \in items' \cup recordless' \/ MaxResultsReached'
    BY <1>3, <1>4, <2>1 DEF ScraperInv, RecordsKept, MaxResultsReached, Slots
  <2>4. \A v \in Urls : \A u \in Tasks : slot[u] = [stage |-> "error", url |-> v] =>
           slot'[u] = slot[u] \/ v \in recordless'
    <3> SUFFICES ASSUME NEW v \in Urls, NEW u \in Tasks, slot[u] = [stage |-> "error", url |-> v]
                 PROVE  slot'[u] = slot[u] \/ v \in recordless'
      OBVIOUS
    <3>1. CASE u # t
      BY <1>3, <3>1 DEF Slots
    <3>2. CASE u = t
      BY <1>2, <1>3, <3>2
    <3> QED
      BY <3>1, <3>2
  <2>5. OutputComplete'
    BY <1>1, <1>4, <2>1, <2>4 DEF ScraperInv, RecordsKept, OutputComplete
  <2> QED
    BY <2>2, <2>3, <2>5 DEF RecordsKept
<1> QED
  BY <1>5, <1>6, <1>7, <1>8 DEF ScraperInv

(* The restarted actor trusts the itemCount of the dataset.                *)
LEMMA RestartKept ==
    ASSUME ScraperInv, Restart
    PROVE  ScraperInv'
<1>1. /\ UNCHANGED <<items, itemCount, results, lost>>
      /\ pagesOutputted' = itemCount
      /\ reached' = (reached \/ MaxResultsReached)
      /\ recordless' = recordless \cup {slot[t].url : t \in {t \in Tasks : At(t, "error")}}
      /\ slot' = [h \in Slots |-> Idle]
      /\ queue' = [url \in Urls |-> IF queue[url] = "running" THEN "pending" ELSE queue[url]]
  BY DEF Restart, MaxResultsReached
<1>2. \A h \in Slots : slot'[h] = Idle /\ slot'[h].stage = "idle"
  BY <1>1, IdleType
<1>3. Tasks \subseteq Slots /\ Lates \subseteq Slots
  BY DEF Slots
<1>4. \A url \in Urls : queue'[url] = "handled" <=> queue[url] = "handled"
  BY <1>1
<1>5. ScraperTypeOK'
  BY <1>1, IdleType DEF ScraperInv, ScraperTypeOK, QueueStates
<1>6. SlotsKept'
  BY <1>2, <1>3 DEF SlotsKept
<1>9. ResultsKept'
  <2>1. Counting' = {} /\ Active' = {}
    BY <1>2 DEF Counting, Active
  <2>2. Cardinality(Counting') = 0 /\ Cardinality(Active') = 0
    BY <2>1, FS_EmptySet
  <2>3. /\ {itemCount, pagesOutputted, results, lost} \subseteq Nat
        /\ MaxResults \in Nat /\ Cardinality(Slots) \in Nat
    BY Finite, LimitType DEF ScraperInv, ScraperTypeOK
  <2>4. results' <= itemCount'
    BY <1>1 DEF ScraperInv, ResultsKept
  <2>5. results' <= PageRecords * Counted'
    <3>1. Counted' = itemCount + lost /\ Counted' \in Nat
      BY <1>1, <2>2, <2>3 DEF Counted
    <3>2. itemCount <= PageRecords * itemCount
      BY <2>3, LimitType
    <3>3. PageRecords * itemCount <= PageRecords * Counted' /\ PageRecords * Counted' \in Nat
      BY <2>3, <3>1, PagesAdd
    <3>4. PageRecords * itemCount \in Nat
      BY <2>3, PagesAdd
    <3> QED
      BY <1>1, <2>3, <2>4, <3>2, <3>3, <3>4
  <2>6. ASSUME MaxResults # 0
        PROVE  results' + PageRecords * Cardinality(Active') <= PageRecords * Allowed'
    <3>1. Allowed' = Allowed
      BY <1>1 DEF Allowed
    <3>2. Cardinality(Active) \in Nat
      <4>1. Active \in SUBSET Slots /\ IsFiniteSet(Slots)
        BY Finite DEF Active
      <4> QED
        BY <4>1, FS_Subset, FS_CardinalityType
    <3>3. results + PageRecords * Cardinality(Active) <= PageRecords * Allowed
      BY <2>6 DEF ScraperInv, ResultsKept
    <3>4. PageRecords * Cardinality(Active) \in Nat
      BY <3>2, PagesAdd
    <3>5. Allowed \in Nat
      BY <2>3, <2>6 DEF Allowed
    <3>6. PageRecords * Allowed \in Nat
      BY <3>5, PagesAdd
    <3>7. results' + PageRecords * 0 <= PageRecords * Allowed'
      <4>1. PageRecords * 0 = 0
        BY LimitType
      <4>2. results <= PageRecords * Allowed
        BY <2>3, <3>3, <3>4, <3>6
      <4>3. results + 0 = results
        BY <2>3
      <4> QED
        BY <1>1, <3>1, <4>1, <4>2, <4>3
    <3> QED
      BY <2>2, <3>7
  <2> QED
    BY <2>4, <2>5, <2>6 DEF ResultsKept
<1>10. RecordsKept'
  <2>2. OutputComplete'
    <3> SUFFICES ASSUME NEW u \in Urls, queue'[u] = "handled", u \notin items'
                 PROVE  reached' \/ u \in recordless'
      BY DEF OutputComplete
    <3>1. \/ reached \/ MaxResultsReached
          \/ u \in recordless
          \/ \E t \in Tasks : slot[t] = [stage |-> "error", url |-> u]
      BY <1>1, <1>4 DEF ScraperInv, RecordsKept, OutputComplete, MaxResultsReached
    <3>2. CASE reached \/ MaxResultsReached
      BY <1>1, <3>2
    <3>3. CASE u \in recordless
      BY <1>1, <3>3
    <3>4. CASE \E t \in Tasks : slot[t] = [stage |-> "error", url |-> u]
      <4>1. PICK t \in Tasks : slot[t] = [stage |-> "error", url |-> u]
        BY <3>4
      <4>2. At(t, "error") /\ slot[t].url = u
        BY <4>1 DEF At
      <4> QED
        BY <1>1, <4>2
    <3> QED
      BY <3>1, <3>2, <3>3, <3>4
  <2> QED
    BY <1>2, <1>3, <2>2 DEF RecordsKept
<1> QED
  BY <1>5, <1>6, <1>9, <1>10 DEF ScraperInv

(* What happens beside the handlers and their requests.                    *)
LEMMA SameScraper ==
    ASSUME ScraperInv, Grows \/ UNCHANGED queue, UNCHANGED <<outputVars, slot, reached>>
    PROVE  ScraperInv'
<1>1. UNCHANGED <<items, itemCount, pagesOutputted, results, lost, recordless>>
  BY DEF outputVars
<1>2. Grows
  BY DEF Grows, ScraperInv, ScraperTypeOK, QueueStates
<1>3. Counting' = Counting /\ Active' = Active
  BY DEF Counting, Active
<1>4. ScraperTypeOK'
  BY <1>1, <1>2 DEF ScraperInv, ScraperTypeOK, Grows
<1>5. \A h \in Slots : slot[h].stage # "idle" => queue'[slot[h].url] = queue[slot[h].url]
  BY <1>2 DEF ScraperInv, SlotsKept, Grows
<1>6. Tasks \subseteq Slots
  BY DEF Slots
<1>7. SlotsKept'
  BY <1>5, <1>6 DEF ScraperInv, SlotsKept
<1>9. ResultsKept'
  BY <1>1, <1>3 DEF ScraperInv, ResultsKept, Counted, Allowed
<1>10. RecordsKept'
  <2>1. \A url \in Urls : queue'[url] = "handled" => queue[url] = "handled"
    BY <1>2 DEF Grows, ScraperInv, ScraperTypeOK
  <2>2. OutputComplete'
    BY <1>1, <2>1 DEF ScraperInv, RecordsKept, OutputComplete
  <2> QED
    BY <1>1, <2>2 DEF ScraperInv, RecordsKept, MaxResultsReached
<1> QED
  BY <1>4, <1>7, <1>9, <1>10 DEF ScraperInv

(* The page function returns.                                              *)
LEMMA PageFunctionKept ==
    ASSUME ScraperInv, NEW h \in Slots, PageFunction(h)
    PROVE  ScraperInv'
<1>1. UNCHANGED <<outputVars, reached>> /\ slot[h].stage = "function"
  BY DEF PageFunction, runVars, At
<1>2. UNCHANGED queue => Grows
  BY DEF Grows, ScraperInv, ScraperTypeOK, QueueStates
<1>3. CASE Goes(h, "push") /\ UNCHANGED <<queue, metadata, way>>
  BY <1>1, <1>2, <1>3, GoesOnKept
<1>4. CASE HandleLinks(h)
  <2>1. Grows
    BY <1>2, <1>4, AddGrows DEF HandleLinks, ScraperInv
  <2>2. Goes(h, "push") \/ (HasPage(h) /\ Goes(h, "clicks"))
    BY <1>4 DEF HandleLinks
  <2> QED
    BY <1>1, <2>1, <2>2, GoesOnKept DEF HasPage
<1> QED
  BY <1>3, <1>4 DEF PageFunction

(* No step of the scrapers breaks it.                                      *)
LEMMA ScraperInvKept ==
    ASSUME ScraperInv, [ScraperNext]_vars
    PROVE  ScraperInv'
<1>1. ASSUME NEW h \in Slots, HandlerStep(h)
      PROVE  ScraperInv'
  <2>1. CASE EnqueueRequest(h)
    <3>1. Grows
      BY <2>1, AddGrows DEF EnqueueRequest, ScraperInv
    <3> QED
      BY <2>1, <3>1, SameScraper DEF EnqueueRequest, runVars
  <2> QED
    BY <1>1, <2>1, PageFunctionKept, PushKept, CountKept DEF HandlerStep
<1>2. ASSUME NEW t \in Tasks, TaskStep(t)
      PROVE  ScraperInv'
  <2>1. CASE HandleClicks(t)
    <3>1. Grows
      BY <2>1, AddGrows DEF HandleClicks, ScraperInv
    <3>2. /\ t \in Slots /\ slot[t].stage = "clicks" /\ Goes(t, "push")
          /\ UNCHANGED <<outputVars, reached>>
      BY <2>1 DEF HandleClicks, Slots, At, runVars
    <3> QED
      BY <3>1, <3>2, GoesOnKept
  <2>2. CASE UserHandles(t) \/ PageStep(t)
    BY <2>2, SameScraper DEF UserHandles, PageStep, crawlVars, runVars
  <2>3. CASE \E l \in Lates : HandlerTimesOut(t, l)
    BY <2>3, TimesOutKept
  <2> QED
    BY <1>2, <2>1, <2>2, <2>3, StartKept, CheckKept, MarkKept, ThrowsKept, ErrorPushKept DEF TaskStep
<1>3. CASE \E l \in Lates : LateEnds(l)
  BY <1>3, LateKept
<1>4. CASE Restart
  BY <1>4, RestartKept
<1>5. CASE UNCHANGED vars
  BY <1>5, SameScraper DEF vars, crawlVars, runVars
<1> QED
  BY <1>1, <1>2, <1>3, <1>4, <1>5 DEF ScraperNext

(* At the start there is nothing to keep.                                  *)
LEMMA ScraperStarts == ScraperInit => ScraperInv
<1> SUFFICES ASSUME ScraperInit
             PROVE  ScraperInv
  OBVIOUS
<1>1. /\ queue = [url \in Urls |-> IF url \in StartUrls THEN "pending" ELSE "absent"]
      /\ slot = [h \in Slots |-> Idle]
      /\ items = {} /\ itemCount = 0 /\ pagesOutputted = 0 /\ results = 0 /\ lost = 0
  BY DEF ScraperInit
<1>2. \A h \in Slots : slot[h] = Idle /\ slot[h].stage = "idle"
  BY <1>1, IdleType
<1>3. Tasks \subseteq Slots /\ Lates \subseteq Slots
  BY DEF Slots
<1>4. ScraperTypeOK
  BY <1>1, IdleType DEF ScraperTypeOK, QueueStates
<1>5. SlotsKept
  BY <1>1, <1>2, <1>3 DEF SlotsKept
<1>6. ResultsKept
  <2>1. Counting = {} /\ Active = {}
    BY <1>2 DEF Counting, Active
  <2>2. Cardinality(Counting) = 0 /\ Cardinality(Active) = 0
    BY <2>1, FS_EmptySet
  <2>3. Counted = 0 /\ (MaxResults # 0 => Allowed \in Nat)
    BY <1>1, <2>2, Finite, LimitType DEF Counted, Allowed
  <2>4. PageRecords * 0 = 0 /\ (MaxResults # 0 => PageRecords * Allowed \in Nat)
    BY <2>3, LimitType, PagesAdd
  <2>5. results <= itemCount /\ results <= PageRecords * Counted
    BY <1>1, <2>3, <2>4
  <2>6. MaxResults # 0 => results + PageRecords * Cardinality(Active) <= PageRecords * Allowed
    BY <1>1, <2>2, <2>4
  <2> QED
    BY <2>5, <2>6 DEF ResultsKept
<1>7. RecordsKept
  BY <1>1, <1>2, <1>3 DEF RecordsKept, OutputComplete
<1> QED
  BY <1>4, <1>5, <1>6, <1>7 DEF ScraperInv

(* Every handler is where the queue and the dataset say, whatever failed,  *)
(* was late or was cut off by a restart.                                   *)
THEOREM ScraperInvHolds == ScraperSpec => []ScraperInv
<1>1. ScraperInv /\ [ScraperNext]_vars => ScraperInv'
  BY ScraperInvKept
<1> QED
  BY <1>1, ScraperStarts, PTL DEF ScraperSpec

(* For every number of tasks and late handlers, every limit and every size *)
(* of results: the records of pages exceed those of maxResultsPerCrawl     *)
(* pages at most by the results of the handlers that can run at once, less *)
(* one, and those of the pushes that failed after their effect.            *)
THEOREM ResultsBoundedHolds == ScraperSpec => []ResultsBounded
<1>1. ScraperInv => ResultsBounded
  <2> SUFFICES ASSUME ScraperInv, MaxResults # 0
               PROVE  results <= PageRecords * Allowed
    BY DEF ResultsBounded, Allowed
  <2>1. Active \in SUBSET Slots /\ IsFiniteSet(Slots)
    BY Finite DEF Active
  <2>2. Cardinality(Active) \in Nat
    BY <2>1, FS_Subset, FS_CardinalityType
  <2>3. {results, lost} \subseteq Nat /\ Allowed \in Nat
    BY Finite, LimitType DEF ScraperInv, ScraperTypeOK, Allowed
  <2>4. PageRecords * Cardinality(Active) \in Nat /\ PageRecords * Allowed \in Nat
    BY <2>2, <2>3, PagesAdd
  <2>5. results + PageRecords * Cardinality(Active) <= PageRecords * Allowed
    BY DEF ScraperInv, ResultsKept
  <2> QED
    BY <2>3, <2>4, <2>5
<1> QED
  BY <1>1, ScraperInvHolds, PTL

(* Whatever is handled has its record, of its result or its error, unless  *)
(* the limit, an empty result, or an error record that was given up or cut *)
(* off by a restart explains why it has not.                               *)
THEOREM OutputCompleteHolds == ScraperSpec => []OutputComplete
<1>1. ScraperInv => OutputComplete
  BY DEF ScraperInv, RecordsKept
<1> QED
  BY <1>1, ScraperInvHolds, PTL

-----------------------------------------------------------------------------
(* Of numbers there is a least one ...                                     *)
LEMMA Smallest ==
    ASSUME NEW T, T \subseteq Nat, T # {}
    PROVE  \E m \in T : \A k \in T : m <= k
<1>1. PICK m \in T : \A k \in T : ~(<<k, m>> \in OpToRel(<, Nat))
  BY WFMin, NatLessThanWellFounded
<1>2. \A k \in T : <<k, m>> \in Nat \X Nat
  OBVIOUS
<1>3. \A k \in T : ~(k < m)
  BY <1>1, <1>2 DEF OpToRel
<1> QED
  BY <1>3

(* ... so that what holds at 0 and goes on to n holds at n.                *)
LEMMA Induction ==
    ASSUME NEW n \in Nat, NEW T, 0 \in T, \A k \in 0 .. n - 1 : k \in T => k + 1 \in T
    PROVE  n \in T
<1> SUFFICES ASSUME n \notin T
             PROVE  FALSE
  OBVIOUS
<1> DEFINE bad == (0 .. n) \ T
<1>1. bad \subseteq Nat /\ n \in bad
  OBVIOUS
<1>2. PICK m \in bad : \A k \in bad : m <= k
  BY <1>1, Smallest
<1>3. m \in 1 .. n /\ m \notin T /\ m - 1 \in 0 .. n - 1
  BY <1>2
<1>4. m - 1 \in T
  BY <1>2, <1>3
<1> QED
  BY <1>3, <1>4

(* What FlattenSeq puts together of the first k of the sequences ...       *)
Flattens(g, seqs, k) == \A i \in 1 .. k : g[i] = IF i = 1 THEN seqs[i] ELSE g[i - 1] \o seqs[i]

(* ... goes on from one to the next ...                                    *)
LEMMA FlattenExtends ==
    ASSUME NEW S, NEW seqs \in Seq(Seq(S)), NEW k \in Nat, k < Len(seqs),
           NEW g \in [1 .. k -> Seq(S)], Flattens(g, seqs, k)
    PROVE  \E h \in [1 .. k + 1 -> Seq(S)] : Flattens(h, seqs, k + 1)
<1> DEFINE last == IF k = 0 THEN seqs[k + 1] ELSE g[k] \o seqs[k + 1]
           h == [i \in 1 .. k + 1 |-> IF i <= k THEN g[i] ELSE last]
<1>1. last \in Seq(S)
  <2>1. seqs[k + 1] \in Seq(S)
    OBVIOUS
  <2>2. k # 0 => g[k] \in Seq(S)
    OBVIOUS
  <2> QED
    BY <2>1, <2>2
<1>2. \A i \in 1 .. k : g[i] = IF i = 1 THEN seqs[i] ELSE g[i - 1] \o seqs[i]
  BY DEF Flattens
<1>3. last = IF k + 1 = 1 THEN seqs[k + 1] ELSE g[k + 1 - 1] \o seqs[k + 1]
  OBVIOUS
<1> HIDE DEF last
<1>4. h \in [1 .. k + 1 -> Seq(S)]
  BY <1>1
<1>5. /\ \A i \in 1 .. k : h[i] = g[i]
      /\ h[k + 1] = last
  OBVIOUS
<1> HIDE DEF h
<1>6. Flattens(h, seqs, k + 1)
  <2> SUFFICES ASSUME NEW i \in 1 .. k + 1
               PROVE  h[i] = IF i = 1 THEN seqs[i] ELSE h[i - 1] \o seqs[i]
    BY DEF Flattens
  <2>1. i # 1 => i - 1 \in 1 .. k
    OBVIOUS
  <2>2. CASE i = k + 1
    BY <1>3, <1>5, <2>1, <2>2
  <2>3. CASE i # k + 1
    <3>1. i \in 1 .. k
      BY <2>3
    <3> QED
      BY <1>2, <1>5, <2>1, <3>1
  <2> QED
    BY <2>2, <2>3
<1> QED
  BY <1>4, <1>6

(* ... to the last one ...                                                *)
LEMMA FlattenExists ==
    ASSUME NEW S, NEW seqs \in Seq(Seq(S))
    PROVE  \E g \in [1 .. Len(seqs) -> Seq(S)] : Flattens(g, seqs, Len(seqs))
<1> DEFINE Done == {k \in Nat : \E g \in [1 .. k -> Seq(S)] : Flattens(g, seqs, k)}
<1>1. Len(seqs) \in Nat
  OBVIOUS
<1>2. 0 \in Done
  <2>1. [i \in 1 .. 0 |-> <<>>] \in [1 .. 0 -> Seq(S)]
    OBVIOUS
  <2>2. Flattens([i \in 1 .. 0 |-> <<>>], seqs, 0)
    BY DEF Flattens
  <2> QED
    BY <2>1, <2>2
<1>3. ASSUME NEW k \in 0 .. Len(seqs) - 1, k \in Done
      PROVE  k + 1 \in Done
  <2>1. k \in Nat /\ k < Len(seqs) /\ k + 1 \in Nat
    BY <1>1
  <2>2. PICK g \in [1 .. k -> Seq(S)] : Flattens(g, seqs, k)
    BY <1>3
  <2>3. \E h \in [1 .. k + 1 -> Seq(S)] : Flattens(h, seqs, k + 1)
    BY <2>1, <2>2, FlattenExtends
  <2> QED
    BY <2>1, <2>3
<1> HIDE DEF Done
<1>4. Len(seqs) \in Done
  BY <1>1, <1>2, <1>3, Induction
<1> QED
  BY <1>4 DEF Done

(* ... hence the flattened sequence has their elements.                   *)
LEMMA FlattenType ==
    ASSUME NEW S, NEW seqs \in Seq(Seq(S))
    PROVE  FlattenSeq(seqs) \in Seq(S)
<1> DEFINE n == Len(seqs)
           IsFlatten(g) == g = [i \in 1 .. n |-> IF i = 1 THEN seqs[i] ELSE g[i - 1] \o seqs[i]]
           flatten == CHOOSE g : IsFlatten(g)
<1>1. n \in Nat /\ \A i \in 1 .. n : seqs[i] \in Seq(S)
  OBVIOUS
<1>2. IsFlatten(flatten)
  <2>1. PICK g \in [1 .. n -> Seq(S)] : Flattens(g, seqs, n)
    BY FlattenExists
  <2>2. IsFlatten(g)
    BY <2>1 DEF Flattens
  <2> HIDE DEF IsFlatten
  <2> QED
    BY <2>2
<1>3. CASE n = 0
  BY <1>3 DEF FlattenSeq
<1>4. CASE n # 0
  <2>1. FlattenSeq(seqs) = flatten[n]
    BY <1>4 DEF FlattenSeq
  <2> HIDE DEF flatten
  <2>2. \A i \in 1 .. n : flatten[i] = IF i = 1 THEN seqs[i] ELSE flatten[i - 1] \o seqs[i]
    <3> DEFINE image == [i \in 1 .. n |-> IF i = 1 THEN seqs[i] ELSE flatten[i - 1] \o seqs[i]]
    <3>1. flatten = image
      BY <1>2
    <3>2. \A i \in 1 .. n : image[i] = IF i = 1 THEN seqs[i] ELSE flatten[i - 1] \o seqs[i]
      OBVIOUS
    <3> HIDE DEF image
    <3> QED
      BY <3>1, <3>2
  <2> DEFINE Typed == {k \in Nat : k = 0 \/ flatten[k] \in Seq(S)}
  <2>3. 0 \in Typed
    OBVIOUS
  <2>4. ASSUME NEW k \in 0 .. n - 1, k \in Typed
        PROVE  k + 1 \in Typed
    <3>1. k + 1 \in 1 .. n /\ seqs[k + 1] \in Seq(S) /\ k + 1 \in Nat
      BY <1>1
    <3>2. k + 1 - 1 = k
      BY <1>1
    <3>3. flatten[k + 1] = IF k = 0 THEN seqs[k + 1] ELSE flatten[k] \o seqs[k + 1]
      BY <2>2, <3>1, <3>2
    <3>4. k # 0 => flatten[k] \in Seq(S)
      BY <2>4
    <3>5. flatten[k + 1] \in Seq(S)
      BY <3>1, <3>3, <3>4
    <3> QED
      BY <3>1, <3>5
  <2> HIDE DEF Typed
  <2>5. n \in Typed
    BY <1>1, <2>3, <2>4, Induction
  <2> QED
    BY <1>1, <1>4, <2>1, <2>5 DEF Typed
<1> QED
  BY <1>3, <1>4
-----------------------------------------------------------------------------
(* The requests that links become: each with the depth it is given, or     *)
(* none if a pattern has userData of its own.                              *)
Options(depth) == [url : Urls, userData : {depth, Unset}]

(* The sequence of a finite set has its elements.                          *)
LEMMA SetToSeqType ==
    ASSUME NEW S, IsFiniteSet(S)
    PROVE  SetToSeq(S) \in Seq(S)
<1> DEFINE n == Cardinality(S)
           Lists(f) == f \in [1 .. n -> S] /\ IsInjective(f)
<1>1. n \in Nat /\ ExistsBijection(1 .. n, S)
  BY FS_CardinalityType
<1>2. PICK f : Lists(f)
  <2>1. PICK f \in Bijection(1 .. n, S) : TRUE
    BY <1>1 DEF ExistsBijection
  <2>2. f \in [1 .. n -> S] /\ \A i, j \in 1 .. n : f[i] = f[j] => i = j
    BY <2>1 DEF Bijection, Injection, IsInjective
  <2>3. DOMAIN f = 1 .. n
    BY <2>2
  <2> QED
    BY <2>2, <2>3 DEF IsInjective
<1>3. Lists(SetToSeq(S))
  BY <1>2 DEF SetToSeq
<1> QED
  BY <1>1, <1>3

(* What a pattern makes of an option.                                      *)
LEMMA MadeType ==
    ASSUME NEW d, NEW option \in Options(d), NEW p \in Patterns
    PROVE  Made(option, p) \in Seq(Options(d))
<1>1. [option EXCEPT !.userData = Unset] \in Options(d)
  BY DEF Options
<1> QED
  BY <1>1 DEF Made

(* What all the patterns make of all the options.                          *)
LEMMA CreateType ==
    ASSUME NEW d, NEW options \in Seq(Options(d)), NEW patterns \in Seq(Patterns)
    PROVE  CreateRequests(options, patterns) \in Seq(Options(d))
<1> DEFINE of(i) == [j \in DOMAIN options |-> Made(options[j], patterns[i])]
           all == [i \in DOMAIN patterns |-> FlattenSeq(of(i))]
<1>1. \A i \in DOMAIN patterns : patterns[i] \in Patterns
  OBVIOUS
<1>2. \A j \in DOMAIN options : options[j] \in Options(d)
  OBVIOUS
<1>3. \A i \in DOMAIN patterns : of(i) \in Seq(Seq(Options(d)))
  <2> SUFFICES ASSUME NEW i \in DOMAIN patterns
               PROVE  of(i) \in Seq(Seq(Options(d)))
    OBVIOUS
  <2>1. \A j \in DOMAIN options : Made(options[j], patterns[i]) \in Seq(Options(d))
    BY <1>1, <1>2, MadeType
  <2>2. DOMAIN options = 1 .. Len(options) /\ Len(options) \in Nat
    OBVIOUS
  <2> QED
    BY <2>1, <2>2
<1>4. \A i \in DOMAIN patterns : FlattenSeq(of(i)) \in Seq(Options(d))
  <2> HIDE DEF of
  <2> QED
    BY <1>3, FlattenType
<1>5. DOMAIN patterns = 1 .. Len(patterns) /\ Len(patterns) \in Nat
  OBVIOUS
<1> HIDE DEF of
<1>6. all \in Seq(Seq(Options(d)))
  BY <1>4, <1>5
<1> HIDE DEF all
<1>7. FlattenSeq(all) \in Seq(Options(d))
  BY <1>6, FlattenType
<1> QED
  BY <1>7 DEF CreateRequests, all, of

(* The patterns of the input and of the strategy.                          *)
LEMMA PatternsType ==
    ASSUME NEW given \in Seq(Patterns), NEW strategy, NEW base
    PROVE  UrlPatterns(given, strategy, base) \in Seq(Patterns)
<1>1. ASSUME NEW s
      PROVE  StrategyPatterns(s, base) \in Seq(Patterns)
  <2>1. \A urls \in SUBSET Urls : Pattern(urls) \in Patterns
    BY DEF Pattern, Patterns
  <2> QED
    BY <2>1 DEF StrategyPatterns
<1> QED
  BY <1>1 DEF UrlPatterns

(* The links that are added to the queue when the page function is done.   *)
LEMMA LinksType ==
    ASSUME NEW d, NEW options \in Seq(Options(d)), NEW given \in Seq(Patterns), NEW base
    PROVE  LinksToAdd(options, given, Unset, base, 0) \in Seq(Options(d))
<1>1. UrlPatterns(given, Unset, base) \in Seq(Patterns)
  BY PatternsType
<1> QED
  BY <1>1, CreateType DEF LinksToAdd, Limited
-----------------------------------------------------------------------------
(* The depth in userData bounds the links followed since the count started *)
(* again for the last time, and it never passes the limit.                 *)
DepthTypeOK ==
    /\ pseudoUrls \in Seq(Patterns)
    /\ metadata \in [Urls -> Nat \cup {Unset}]
    /\ way \in [Urls -> [links : Nat, resets : Nat]]
    /\ uniqueRequests \subseteq Navigations

DepthKept ==
    MaxCrawlingDepth # 0 =>
        \A url \in Urls :
            /\ EnsureMetaData(url) <= MaxCrawlingDepth
            /\ way[url].links <= EnsureMetaData(url) + MaxCrawlingDepth * way[url].resets

(* Who clicks has a page whose links may be followed.                      *)
ClicksKept == \A h \in Slots : slot[h].stage = "clicks" => ~ReachedMaxDepth(slot[h].url)

DepthInv == DepthTypeOK /\ DepthKept /\ ClicksKept

(* One reset more is one more time the limit.                              *)
LEMMA OneMore ==
    ASSUME NEW m \in Nat, NEW r \in Nat
    PROVE  m * (r + 1) = m * r + m /\ m * r \in Nat
OBVIOUS

(* The depth limit is a number.                                            *)
LEMMA DepthLimitType == MaxCrawlingDepth \in Nat
BY ScraperAssumption

(* The depth of a request is a number, whatever its userData is.           *)
LEMMA DepthType ==
    ASSUME DepthTypeOK, NEW url \in Urls
    PROVE  EnsureMetaData(url) \in Nat
BY DEF DepthTypeOK, EnsureMetaData

(* What joins the queue has the depth it was given, or starts again at 0.  *)
LEMMA AddChanges ==
    ASSUME ScraperInv, DepthTypeOK, NEW parent \in Urls, NEW hop \in Nat, NEW d \in Nat,
           NEW requests \in Seq(Options(d)), AddToQueue(parent, requests, hop)
    PROVE  /\ metadata' \in [Urls -> Nat \cup {Unset}]
           /\ way' \in [Urls -> [links : Nat, resets : Nat]]
           /\ \A url \in Urls : queue[url] # "absent" => metadata'[url] = metadata[url]
           /\ \A url \in Urls :
                 \/ metadata'[url] = metadata[url] /\ way'[url] = way[url]
                 \/ /\ metadata'[url] \in {d, Unset}
                    /\ way'[url].links = way[parent].links + hop
                    /\ way'[url].resets = way[parent].resets + IF metadata'[url] = Unset THEN 1 ELSE 0
<1> DEFINE new == {requests[i].url : i \in DOMAIN requests} \cap {url \in Urls : queue[url] = "absent"}
           First(url, i) == i \in DOMAIN requests /\ requests[i].url = url
                            /\ \A j \in 1 .. i - 1 : requests[j].url # url
           first(url) == CHOOSE i \in DOMAIN requests :
                             requests[i].url = url /\ \A j \in 1 .. i - 1 : requests[j].url # url
           data(url) == requests[first(url)].userData
<1>1. /\ metadata' = [url \in Urls |-> IF url \in new THEN data(url) ELSE metadata[url]]
      /\ way' = [url \in Urls |->
                    IF url \in new
                    THEN [links |-> way[parent].links + hop,
                          resets |-> way[parent].resets + IF data(url) = Unset THEN 1 ELSE 0]
                    ELSE way[url]]
  BY DEF AddToQueue
<1>2. \A i \in DOMAIN requests : requests[i] \in Options(d)
  OBVIOUS
<1>3. ASSUME NEW url \in new
      PROVE  data(url) \in {d, Unset}
  <2> DEFINE places == {i \in DOMAIN requests : requests[i].url = url}
  <2>1. DOMAIN requests = 1 .. Len(requests) /\ Len(requests) \in Nat
    OBVIOUS
  <2>2. places \subseteq Nat /\ places # {}
    BY <1>3, <2>1
  <2>3. PICK m \in places : \A k \in places : m <= k
    BY <2>2, Smallest
  <2>4. m \in DOMAIN requests /\ requests[m].url = url /\ \A j \in 1 .. m - 1 : requests[j].url # url
    BY <2>1, <2>3
  <2>5. first(url) \in DOMAIN requests
    BY <2>4
  <2> HIDE DEF first
  <2> QED
    BY <1>2, <2>5 DEF Options
<1>4. way[parent].links \in Nat /\ way[parent].resets \in Nat
  BY DEF DepthTypeOK
<1> HIDE DEF data
<1>5. \A url \in Urls : queue[url] # "absent" => url \notin new
  OBVIOUS
<1> HIDE DEF new
<1>6. \A url \in Urls : url \notin new => metadata'[url] = metadata[url] /\ way'[url] = way[url]
  BY <1>1
<1>7. \A url \in Urls : url \in new =>
         /\ metadata'[url] = data(url)
         /\ way'[url].links = way[parent].links + hop
         /\ way'[url].resets = way[parent].resets + IF data(url) = Unset THEN 1 ELSE 0
  BY <1>1
<1>8. metadata' \in [Urls -> Nat \cup {Unset}]
  BY <1>1, <1>3 DEF DepthTypeOK
<1>9. way' \in [Urls -> [links : Nat, resets : Nat]]
  <2>1. \A url \in Urls : [links |-> way[parent].links + hop,
                           resets |-> way[parent].resets + IF data(url) = Unset THEN 1 ELSE 0]
                             \in [links : Nat, resets : Nat]
    BY <1>4
  <2> QED
    BY <1>1, <2>1 DEF DepthTypeOK
<1> QED
  BY <1>3, <1>5, <1>6, <1>7, <1>8, <1>9

(* A depth within the limit keeps the bound.                               *)
LEMMA AddDepth ==
    ASSUME ScraperInv, DepthTypeOK, DepthKept, NEW parent \in Urls, NEW hop \in Nat,
           MaxCrawlingDepth # 0 => EnsureMetaData(parent) + hop <= MaxCrawlingDepth,
           NEW requests \in Seq(Options(EnsureMetaData(parent) + hop)),
           AddToQueue(parent, requests, hop)
    PROVE  /\ metadata' \in [Urls -> Nat \cup {Unset}]
           /\ way' \in [Urls -> [links : Nat, resets : Nat]]
           /\ \A url \in Urls : queue[url] # "absent" => metadata'[url] = metadata[url]
           /\ DepthKept'
<1> DEFINE d == EnsureMetaData(parent) + hop
<1>1. EnsureMetaData(parent) \in Nat /\ d \in Nat
  BY DepthType
<1>2. /\ metadata' \in [Urls -> Nat \cup {Unset}]
      /\ way' \in [Urls -> [links : Nat, resets : Nat]]
      /\ \A url \in Urls : queue[url] # "absent" => metadata'[url] = metadata[url]
      /\ \A url \in Urls :
            \/ metadata'[url] = metadata[url] /\ way'[url] = way[url]
            \/ /\ metadata'[url] \in {d, Unset}
               /\ way'[url].links = way[parent].links + hop
               /\ way'[url].resets = way[parent].resets + IF metadata'[url] = Unset THEN 1 ELSE 0
  BY <1>1, AddChanges
<1>3. DepthKept'
  <2> SUFFICES ASSUME MaxCrawlingDepth # 0, NEW url \in Urls
               PROVE  /\ EnsureMetaData(url)' <= MaxCrawlingDepth
                      /\ way'[url].links <= EnsureMetaData(url)' + MaxCrawlingDepth * way'[url].resets
    BY DEF DepthKept
  <2>1. CASE metadata'[url] = metadata[url] /\ way'[url] = way[url]
    BY <2>1 DEF DepthKept, EnsureMetaData
  <2>2. CASE /\ metadata'[url] \in {d, Unset}
             /\ way'[url].links = way[parent].links + hop
             /\ way'[url].resets = way[parent].resets + IF metadata'[url] = Unset THEN 1 ELSE 0
    <3> DEFINE max == MaxCrawlingDepth
               depth == EnsureMetaData(parent)
               far == way[parent].links
               r == way[parent].resets
               all == max * r
    <3>1. /\ max \in Nat /\ depth \in Nat /\ far \in Nat /\ r \in Nat /\ all \in Nat
          /\ max * (r + 1) = all + max /\ depth + hop <= max
      <4>1. max \in Nat /\ far \in Nat /\ r \in Nat
        BY DepthLimitType DEF DepthTypeOK
      <4> HIDE DEF max, r
      <4>2. max * (r + 1) = all + max /\ all \in Nat
        BY <4>1, OneMore
      <4> QED
        BY <1>1, <4>1, <4>2 DEF max
    <3>2. far <= depth + all
      BY DEF DepthKept
    <3>3. CASE metadata'[url] = Unset
      <4>1. EnsureMetaData(url)' = 0
        BY <3>3 DEF EnsureMetaData
      <4>2. way'[url].resets = r + 1 /\ way'[url].links = far + hop
        BY <2>2, <3>3
      <4>3. MaxCrawlingDepth * way'[url].resets = all + max
        BY <3>1, <4>2
      <4> HIDE DEF max, depth, far, r, all
      <4>4. 0 <= max /\ far + hop <= 0 + (all + max)
        BY <3>1, <3>2
      <4> QED
        BY <4>1, <4>2, <4>3, <4>4 DEF max
    <3>4. CASE metadata'[url] # Unset
      <4>1. EnsureMetaData(url)' = depth + hop
        BY <2>2, <3>4 DEF EnsureMetaData
      <4>2. way'[url].resets = r + 0 /\ way'[url].links = far + hop
        BY <2>2, <3>4
      <4>3. MaxCrawlingDepth * way'[url].resets = all
        BY <3>1, <4>2
      <4> HIDE DEF max, depth, far, r, all
      <4>4. depth + hop <= max /\ far + hop <= (depth + hop) + all
        BY <3>1, <3>2
      <4> QED
        BY <4>1, <4>2, <4>3, <4>4 DEF max
    <3> QED
      BY <3>3, <3>4
  <2> QED
    BY <1>2, <2>1, <2>2
<1> QED
  BY <1>2, <1>3

(* Nobody starts to click in a step.                                       *)
NoneClicks ==
    \A h \in Slots : slot'[h].stage = "clicks" => slot[h].stage = "clicks" /\ slot'[h].url = slot[h].url

(* Who clicks goes on with the same page, whose depth does not change.     *)
LEMMA ClicksSame ==
    ASSUME ScraperInv, ClicksKept, NoneClicks,
           \A url \in Urls : queue[url] # "absent" => metadata'[url] = metadata[url]
    PROVE  ClicksKept'
<1> SUFFICES ASSUME NEW h \in Slots, slot'[h].stage = "clicks"
             PROVE  ~ReachedMaxDepth(slot[h].url)'
  BY DEF ClicksKept
<1>1. slot[h].stage = "clicks" /\ slot'[h].url = slot[h].url
  BY DEF NoneClicks
<1>2. slot[h].url \in Urls /\ queue[slot[h].url] # "absent"
  BY <1>1 DEF ScraperInv, SlotsKept
<1>3. metadata'[slot'[h].url] = metadata[slot[h].url] /\ ~ReachedMaxDepth(slot[h].url)
  BY <1>1, <1>2 DEF ClicksKept
<1> QED
  BY <1>1, <1>3 DEF ReachedMaxDepth, EnsureMetaData

(* A step that adds nothing to the queue.                                  *)
LEMMA SameDepth ==
    ASSUME ScraperInv, DepthInv, NoneClicks, UNCHANGED <<metadata, way, pseudoUrls>>,
           uniqueRequests' \subseteq Navigations
    PROVE  DepthInv'
<1>1. DepthTypeOK'
  BY DEF DepthInv, DepthTypeOK
<1>2. DepthKept'
  BY DEF DepthInv, DepthKept, EnsureMetaData
<1>3. ClicksKept'
  BY ClicksSame DEF DepthInv
<1> QED
  BY <1>1, <1>2, <1>3 DEF DepthInv

(* A step that does.                                                       *)
LEMMA AddedDepth ==
    ASSUME ScraperInv, DepthInv, NoneClicks, UNCHANGED <<pseudoUrls, uniqueRequests>>,
           NEW parent \in Urls, NEW hop \in Nat,
           MaxCrawlingDepth # 0 => EnsureMetaData(parent) + hop <= MaxCrawlingDepth,
           NEW requests \in Seq(Options(EnsureMetaData(parent) + hop)),
           AddToQueue(parent, requests, hop)
    PROVE  DepthInv'
<1>1. /\ metadata' \in [Urls -> Nat \cup {Unset}]
      /\ way' \in [Urls -> [links : Nat, resets : Nat]]
      /\ \A url \in Urls : queue[url] # "absent" => metadata'[url] = metadata[url]
      /\ DepthKept'
  BY AddDepth DEF DepthInv
<1>2. DepthTypeOK'
  BY <1>1 DEF DepthInv, DepthTypeOK
<1>3. ClicksKept'
  BY <1>1, ClicksSame DEF DepthInv
<1> QED
  BY <1>1, <1>2, <1>3 DEF DepthInv

(* One handler goes on to another stage than clicking.                     *)
LEMMA GoesNoneClicks ==
    ASSUME ScraperInv, NEW h \in Slots, NEW s \in Stages \ {"clicks"}, Goes(h, s)
    PROVE  NoneClicks
<1>1. slot'[h].stage = s /\ \A g \in Slots : g # h => slot'[g] = slot[g]
  BY StageChanges DEF ScraperInv
<1> QED
  BY <1>1 DEF NoneClicks

(* The request that is added by the page function has the depth of its     *)
(* parent.                                                                 *)
LEMMA EnqueueDepth ==
    ASSUME ScraperInv, DepthInv, NEW h \in Slots, EnqueueRequest(h)
    PROVE  DepthInv'
<1> DEFINE parent == slot[h].url
           depth == EnsureMetaData(parent)
<1>1. slot[h].stage = "function" /\ parent \in Urls
  BY DEF EnqueueRequest, At, ScraperInv, SlotsKept
<1>2. depth \in Nat
  BY <1>1, DepthType DEF DepthInv
<1>3. PICK url \in Urls : AddToQueue(parent, <<[url |-> url, userData |-> depth]>>, 0)
  BY DEF EnqueueRequest
<1>4. MaxCrawlingDepth # 0 => depth + 0 <= MaxCrawlingDepth
  <2>1. MaxCrawlingDepth # 0 => depth <= MaxCrawlingDepth
    BY <1>1 DEF DepthInv, DepthKept
  <2> HIDE DEF depth
  <2> QED
    BY <1>2, <2>1
<1>5. <<[url |-> url, userData |-> depth]>> \in Seq(Options(depth + 0))
  <2>1. depth + 0 = depth
    BY <1>2
  <2>2. [url |-> url, userData |-> depth] \in Options(depth)
    BY DEF Options
  <2> HIDE DEF depth
  <2> QED
    BY <2>1, <2>2
<1>6. NoneClicks /\ UNCHANGED <<pseudoUrls, uniqueRequests>>
  BY DEF EnqueueRequest, NoneClicks, runVars, page, clickVars
<1> QED
  BY <1>1, <1>3, <1>4, <1>5, <1>6, AddedDepth

(* Links are followed only from where one more is within the limit.        *)
LEMMA NotReached ==
    ASSUME DepthTypeOK, NEW url \in Urls, ~ReachedMaxDepth(url)
    PROVE  /\ MaxCrawlingDepth # 0 => EnsureMetaData(url) + 1 <= MaxCrawlingDepth
           /\ Deeper(url) = EnsureMetaData(url) + 1
BY DepthType, DepthLimitType DEF ReachedMaxDepth, Deeper

(* An option that a link of a page becomes.                                *)
LEMMA LinkedType ==
    ASSUME NEW parent \in Urls, NEW url \in Urls
    PROVE  Linked(parent, url) \in Options(Deeper(parent))
BY DEF Linked, Options

(* The links of a page, when its function has returned.                    *)
LEMMA LinksDepth ==
    ASSUME ScraperInv, DepthInv, NEW h \in Slots, PageFunction(h)
    PROVE  DepthInv'
<1> DEFINE parent == slot[h].url
           options == [i \in DOMAIN Links[parent] |-> Linked(parent, Links[parent][i])]
           links == LinksToAdd(options, pseudoUrls, Unset, Origin[parent], 0)
<1>1. slot[h].stage = "function" /\ parent \in Urls /\ queue[parent] # "absent"
  BY DEF PageFunction, At, ScraperInv, SlotsKept
<1>2. UNCHANGED <<pseudoUrls, uniqueRequests>>
  BY DEF PageFunction, runVars, page, clickVars
<1>3. Goes(h, "push") => NoneClicks
  BY GoesNoneClicks DEF Stages
<1>4. CASE Goes(h, "push") /\ UNCHANGED <<queue, metadata, way>>
  BY <1>2, <1>3, <1>4, SameDepth DEF DepthInv, DepthTypeOK
<1>5. CASE ~ReachedMaxDepth(parent) /\ AddToQueue(parent, links, 1) /\ (Goes(h, "push") \/ Goes(h, "clicks"))
  <2>1. /\ MaxCrawlingDepth # 0 => EnsureMetaData(parent) + 1 <= MaxCrawlingDepth
        /\ Deeper(parent) = EnsureMetaData(parent) + 1
    BY <1>1, <1>5, NotReached DEF DepthInv
  <2>2. options \in Seq(Options(Deeper(parent)))
    <3>1. Links[parent] \in Seq(Urls)
      BY <1>1, ScraperAssumption
    <3>2. DOMAIN Links[parent] = 1 .. Len(Links[parent]) /\ Len(Links[parent]) \in Nat
      BY <3>1
    <3>3. \A i \in DOMAIN Links[parent] : Linked(parent, Links[parent][i]) \in Options(Deeper(parent))
      BY <1>1, <3>1, LinkedType
    <3> QED
      BY <3>2, <3>3
  <2> HIDE DEF options
  <2>3. links \in Seq(Options(Deeper(parent)))
    BY <2>2, LinksType DEF DepthInv, DepthTypeOK
  <2> HIDE DEF links
  <2>4. links \in Seq(Options(EnsureMetaData(parent) + 1))
    BY <2>1, <2>3
  <2>5. /\ metadata' \in [Urls -> Nat \cup {Unset}]
        /\ way' \in [Urls -> [links : Nat, resets : Nat]]
        /\ \A url \in Urls : queue[url] # "absent" => metadata'[url] = metadata[url]
        /\ DepthKept'
    BY <1>1, <1>5, <2>1, <2>4, AddDepth DEF DepthInv
  <2>6. DepthTypeOK'
    BY <1>2, <2>5 DEF DepthInv, DepthTypeOK
  <2>7. ClicksKept'
    <3> SUFFICES ASSUME NEW g \in Slots, slot'[g].stage = "clicks"
                 PROVE  ~ReachedMaxDepth(slot[g].url)'
      BY DEF ClicksKept
    <3>1. slot'[h].url = parent /\ \A k \in Slots : k # h => slot'[k] = slot[k]
      BY <1>5, StageChanges DEF ScraperInv, Stages
    <3>2. slot'[g].url \in Urls /\ queue[slot'[g].url] # "absent" /\ ~ReachedMaxDepth(slot'[g].url)
      BY <1>1, <1>5, <3>1 DEF ClicksKept, DepthInv, ScraperInv, SlotsKept
    <3>3. metadata'[slot'[g].url] = metadata[slot'[g].url]
      BY <2>5, <3>2
    <3> QED
      BY <3>2, <3>3 DEF ReachedMaxDepth, EnsureMetaData
  <2> QED
    BY <2>5, <2>6, <2>7 DEF DepthInv
<1> QED
  BY <1>4, <1>5 DEF PageFunction, HandleLinks

(* What was behind the clicks.                                             *)
LEMMA ClickedDepth ==
    ASSUME ScraperInv, DepthInv, NEW t \in Tasks, HandleClicks(t)
    PROVE  DepthInv'
<1> DEFINE parent == slot[t].url
           noted == {Linked(parent, url) : url \in uniqueRequests}
           requests == CreateRequests(SetToSeq(noted), pseudoUrls)
<1>1. t \in Slots /\ slot[t].stage = "clicks"
  BY DEF HandleClicks, At, Slots
<1>2. parent \in Urls /\ ~ReachedMaxDepth(parent)
  BY <1>1 DEF DepthInv, ClicksKept, ScraperInv, SlotsKept
<1>3. NoneClicks /\ UNCHANGED <<pseudoUrls, uniqueRequests>>
  <2>1. Goes(t, "push")
    BY DEF HandleClicks
  <2> QED
    BY <1>1, <2>1, GoesNoneClicks DEF HandleClicks, runVars, page, clickVars, Stages
<1>4. /\ MaxCrawlingDepth # 0 => EnsureMetaData(parent) + 1 <= MaxCrawlingDepth
      /\ Deeper(parent) = EnsureMetaData(parent) + 1
  BY <1>2, NotReached DEF DepthInv
<1>5. uniqueRequests \subseteq Urls /\ IsFiniteSet(uniqueRequests)
  <2>1. uniqueRequests \in SUBSET Urls /\ IsFiniteSet(Urls)
    BY ScraperAssumption DEF DepthInv, DepthTypeOK
  <2> QED
    BY <2>1, FS_Subset
<1>6. noted \subseteq Options(Deeper(parent))
  BY <1>2, <1>5, LinkedType
<1>7. IsFiniteSet(noted)
  <2> DEFINE becomes == [url \in uniqueRequests |-> Linked(parent, url)]
  <2>1. becomes \in Surjection(uniqueRequests, noted)
    BY DEF Surjection
  <2> HIDE DEF becomes, noted
  <2> QED
    BY <1>5, <2>1, FS_Surjection
<1> HIDE DEF noted
<1>8. SetToSeq(noted) \in Seq(noted)
  BY <1>7, SetToSeqType
<1>9. SetToSeq(noted) \in Seq(Options(Deeper(parent)))
  BY <1>6, <1>8
<1>10. requests \in Seq(Options(EnsureMetaData(parent) + 1))
  BY <1>4, <1>9, CreateType DEF DepthInv, DepthTypeOK
<1>11. AddToQueue(parent, requests, 1)
  BY DEF HandleClicks, noted
<1> HIDE DEF requests
<1> QED
  BY <1>2, <1>3, <1>4, <1>10, <1>11, AddedDepth

(* What is noted when the elements of a page are clicked.                  *)
LEMMA NotedKept ==
    ASSUME uniqueRequests \subseteq Navigations, NEW t \in Tasks, PageStep(t)
    PROVE  uniqueRequests' \subseteq Navigations
<1>1. CASE PageDoesCall /\ UNCHANGED clickVars
  BY <1>1 DEF clickVars
<1>2. CASE \E q \in PageRequests : PageSends(q) /\ UNCHANGED clickVars
  BY <1>2 DEF clickVars
<1>3. CASE \E q \in PageRequests : HandlerDecides(q)
  BY <1>3 DEF HandlerDecides
<1>4. CASE AddsHandler \/ StartsClicking \/ PageIdle \/ RemovesHandler
  BY <1>4 DEF AddsHandler, StartsClicking, PageIdle, RemovesHandler
<1>5. CASE \E q \in Navigations : TargetCreated(q)
  BY <1>5 DEF TargetCreated
<1> QED
  BY <1>1, <1>2, <1>3, <1>4, <1>5 DEF PageStep

(* A page that is closed or kept.                                          *)
LEMMA CloseNoted ==
    ASSUME uniqueRequests \subseteq Navigations, NEW t \in Tasks, ClosePage(t)
    PROVE  uniqueRequests' \subseteq Navigations
BY DEF ClosePage, FreshClicks, page, clickVars

(* A slot that is changed to another stage than clicking.                  *)
LEMMA OtherNoneClicks ==
    ASSUME ScraperInv, NEW h \in Slots, NEW v, v.stage # "clicks", slot' = [slot EXCEPT ![h] = v]
    PROVE  NoneClicks
<1>1. slot'[h] = v /\ \A g \in Slots : g # h => slot'[g] = slot[g]
  BY DEF ScraperInv, ScraperTypeOK
<1> QED
  BY <1>1 DEF NoneClicks

(* Failures, late ones among them, do not change any depth.                *)
LEMMA FailsDepth ==
    ASSUME ScraperInv, DepthInv, NEW t \in Tasks,
           HandlerThrows(t) \/ (\E l \in Lates : HandlerTimesOut(t, l))
    PROVE  DepthInv'
<1>1. t \in Slots /\ AfterFailure(t).stage # "clicks"
  <2>1. slot[t] \in SlotStates /\ t \in Slots
    BY DEF ScraperInv, ScraperTypeOK, Slots
  <2> QED
    BY <2>1, IdleType DEF AfterFailure, SlotStates
<1>2. RequestFails(t)
  BY DEF HandlerThrows, HandlerTimesOut
<1>3. UNCHANGED <<metadata, way, pseudoUrls>> /\ ClosePage(t)
  BY <1>2 DEF RequestFails, runVars
<1>4. uniqueRequests' \subseteq Navigations
  BY <1>3, CloseNoted DEF DepthInv, DepthTypeOK
<1>5. CASE HandlerThrows(t)
  <2>1. slot' = [slot EXCEPT ![t] = AfterFailure(t)]
    BY <1>5 DEF HandlerThrows
  <2>2. NoneClicks
    BY <1>1, <2>1, OtherNoneClicks
  <2> QED
    BY <1>3, <1>4, <2>2, SameDepth
<1>6. ASSUME NEW l \in Lates, HandlerTimesOut(t, l)
      PROVE  DepthInv'
  <2>1. /\ slot' = [slot EXCEPT ![t] = AfterFailure(t), ![l] = slot[t]]
        /\ slot[t].stage \in {"function", "push", "count"} /\ l \in Slots /\ t # l
    BY <1>6, ScraperAssumption DEF HandlerTimesOut, Slots
  <2>2. /\ slot'[t] = AfterFailure(t) /\ slot'[l] = slot[t]
        /\ \A g \in Slots : g # t /\ g # l => slot'[g] = slot[g]
    BY <1>1, <2>1 DEF ScraperInv, ScraperTypeOK
  <2>3. NoneClicks
    BY <1>1, <2>1, <2>2 DEF NoneClicks
  <2> QED
    BY <1>3, <1>4, <2>3, SameDepth
<1> QED
  BY <1>5, <1>6

(* No step of the scrapers breaks the bound on the depth.                  *)
LEMMA DepthInvKept ==
    ASSUME ScraperInv, DepthInv, [ScraperNext]_vars
    PROVE  DepthInv'
<1>1. uniqueRequests \subseteq Navigations
  BY DEF DepthInv, DepthTypeOK
<1>2. ASSUME NEW h \in Slots, PushData(h) \/ CountPage(h)
      PROVE  DepthInv'
  <2>1. UNCHANGED <<metadata, way, pseudoUrls, uniqueRequests>>
    BY <1>2 DEF PushData, CountPage, crawlVars, runVars, page, clickVars
  <2>2. CASE PushData(h)
    <3>1. Goes(h, "countError") \/ Goes(h, "count")
      BY <2>2 DEF PushData
    <3>2. NoneClicks
      BY <3>1, GoesNoneClicks DEF Stages
    <3> QED
      BY <1>1, <2>1, <3>2, SameDepth
  <2>3. CASE CountPage(h)
    <3>1. slot' = [slot EXCEPT ![h] = IF h \in Tasks THEN [@ EXCEPT !.stage = "over"] ELSE Idle]
      BY <2>3 DEF CountPage
    <3>2. slot[h] \in SlotStates
      BY DEF ScraperInv, ScraperTypeOK
    <3>3. (IF h \in Tasks THEN [slot[h] EXCEPT !.stage = "over"] ELSE Idle).stage # "clicks"
      BY <3>2, IdleType DEF SlotStates
    <3>4. NoneClicks
      BY <3>1, <3>3, OtherNoneClicks
    <3> QED
      BY <1>1, <2>1, <3>4, SameDepth
  <2> QED
    BY <1>2, <2>2, <2>3
<1>3. ASSUME NEW t \in Tasks, StartTask(t)
      PROVE  DepthInv'
  <2>1. UNCHANGED <<metadata, way, pseudoUrls, uniqueRequests>>
    BY <1>3 DEF StartTask, runVars, page, clickVars
  <2>2. PICK url \in Urls : slot' = [slot EXCEPT ![t] = [stage |-> "loading", url |-> url]]
    BY <1>3 DEF StartTask
  <2>3. NoneClicks
    BY <2>2, OtherNoneClicks DEF Slots
  <2> QED
    BY <1>1, <2>1, <2>3, SameDepth
<1>4. ASSUME NEW t \in Tasks, HandleMaxResultsPerCrawl(t)
      PROVE  DepthInv'
  <2>1. UNCHANGED <<metadata, way, pseudoUrls, uniqueRequests>> /\ (Goes(t, "over") \/ Goes(t, "function"))
    BY <1>4 DEF HandleMaxResultsPerCrawl, crawlVars, page, clickVars
  <2>2. NoneClicks
    BY <2>1, GoesNoneClicks DEF Stages, Slots
  <2> QED
    BY <1>1, <2>1, <2>2, SameDepth
<1>5. ASSUME NEW t \in Tasks, MarkHandled(t)
      PROVE  DepthInv'
  <2>1. UNCHANGED <<metadata, way, pseudoUrls>> /\ ClosePage(t) /\ slot' = [slot EXCEPT ![t] = Idle]
    BY <1>5 DEF MarkHandled, runVars
  <2>2. NoneClicks
    BY <2>1, IdleType, OtherNoneClicks DEF Slots
  <2>3. uniqueRequests' \subseteq Navigations
    BY <1>1, <2>1, CloseNoted
  <2> QED
    BY <2>1, <2>2, <2>3, SameDepth
<1>6. ASSUME NEW t \in Tasks, UserHandles(t) \/ PageStep(t)
      PROVE  DepthInv'
  <2>1. UNCHANGED <<metadata, way, pseudoUrls, slot>>
    BY <1>6 DEF UserHandles, PageStep, crawlVars, runVars
  <2>2. uniqueRequests' \subseteq Navigations
    BY <1>1, <1>6, NotedKept DEF UserHandles, clickVars
  <2>3. NoneClicks
    BY <2>1 DEF NoneClicks
  <2> QED
    BY <2>1, <2>2, <2>3, SameDepth
<1>7. ASSUME NEW l \in Lates, LateEnds(l)
      PROVE  DepthInv'
  <2>1. UNCHANGED <<metadata, way, pseudoUrls, uniqueRequests>> /\ slot' = [slot EXCEPT ![l] = Idle]
    BY <1>7 DEF LateEnds, crawlVars, runVars, page, clickVars
  <2>2. NoneClicks
    BY <2>1, IdleType, OtherNoneClicks DEF Slots
  <2> QED
    BY <1>1, <2>1, <2>2, SameDepth
<1>8. CASE Restart
  <2>1. /\ UNCHANGED <<metadata, way, pseudoUrls>> /\ slot' = [h \in Slots |-> Idle]
        /\ uniqueRequests' = {}
    BY <1>8 DEF Restart, FreshClicks
  <2>2. NoneClicks
    BY <2>1, IdleType DEF NoneClicks
  <2> QED
    BY <2>1, <2>2, SameDepth
<1>9. CASE UNCHANGED vars
  <2>1. UNCHANGED <<metadata, way, pseudoUrls, uniqueRequests, slot>>
    BY <1>9 DEF vars, crawlVars, runVars, page, clickVars
  <2>2. NoneClicks
    BY <2>1 DEF NoneClicks
  <2> QED
    BY <1>1, <2>1, <2>2, SameDepth
<1>10. ASSUME NEW t \in Tasks, ErrorPushFails(t)
       PROVE  DepthInv'
  <2>1. /\ UNCHANGED <<metadata, way, pseudoUrls, uniqueRequests>>
        /\ UNCHANGED slot \/ slot' = [slot EXCEPT ![t] = Idle]
    BY <1>10 DEF ErrorPushFails, crawlVars, page, clickVars
  <2>2. NoneClicks
    <3>1. CASE UNCHANGED slot
      BY <3>1 DEF NoneClicks
    <3>2. CASE slot' = [slot EXCEPT ![t] = Idle]
      BY <3>2, IdleType, OtherNoneClicks DEF Slots
    <3> QED
      BY <2>1, <3>1, <3>2
  <2> QED
    BY <1>1, <2>1, <2>2, SameDepth
<1>11. ASSUME NEW h \in Slots, HandlerStep(h)
       PROVE  DepthInv'
  BY <1>2, <1>11, LinksDepth, EnqueueDepth DEF HandlerStep
<1>12. ASSUME NEW t \in Tasks, TaskStep(t)
       PROVE  DepthInv'
  BY <1>3, <1>4, <1>5, <1>6, <1>10, <1>12, ClickedDepth, FailsDepth DEF TaskStep
<1> QED
  BY <1>7, <1>8, <1>9, <1>11, <1>12 DEF ScraperNext

(* At the start no link has been followed.                                 *)
LEMMA DepthStarts == ScraperInit => DepthInv
<1> SUFFICES ASSUME ScraperInit
             PROVE  DepthInv
  OBVIOUS
<1>1. /\ metadata = [url \in Urls |-> Unset]
      /\ way = [url \in Urls |-> [links |-> 0, resets |-> 0]]
      /\ slot = [h \in Slots |-> Idle]
      /\ pseudoUrls \in PatternChoices /\ uniqueRequests = {}
  BY DEF ScraperInit, ClickInit
<1>2. DepthTypeOK
  BY <1>1, ScraperAssumption DEF DepthTypeOK
<1>3. DepthKept
  <2>1. MaxCrawlingDepth * 0 = 0 /\ 0 <= MaxCrawlingDepth
    BY DepthLimitType
  <2>2. \A url \in Urls : EnsureMetaData(url) = 0 /\ way[url].links = 0 /\ way[url].resets = 0
    BY <1>1 DEF EnsureMetaData
  <2> QED
    BY <2>1, <2>2 DEF DepthKept
<1>4. ClicksKept
  BY <1>1, IdleType DEF ClicksKept
<1> QED
  BY <1>2, <1>3, <1>4 DEF DepthInv

(* For every crawl and every choice of patterns: no request is more links  *)
(* away from a start URL than maxCrawlingDepth allows, counted anew from   *)
(* wherever a pattern replaced the userData.                               *)
THEOREM DepthLimitedHolds == ScraperSpec => []DepthLimited
<1>1. ScraperInv /\ DepthInv /\ [ScraperNext]_vars => DepthInv'
  BY DepthInvKept
<1>2. DepthInv => DepthLimited
  <2> SUFFICES ASSUME DepthInv, MaxCrawlingDepth # 0, NEW url \in Urls
               PROVE  way[url].links <= MaxCrawlingDepth * (1 + way[url].resets)
    BY DEF DepthLimited
  <2> DEFINE max == MaxCrawlingDepth
             depth == EnsureMetaData(url)
             far == way[url].links
             r == way[url].resets
             all == max * r
  <2>1. max \in Nat /\ depth \in Nat /\ far \in Nat /\ r \in Nat
    BY DepthLimitType, DepthType DEF DepthInv, DepthTypeOK
  <2>2. depth <= max /\ far <= depth + all
    BY DEF DepthInv, DepthKept
  <2> HIDE DEF max, depth, far, r
  <2>3. max * (r + 1) = all + max /\ all \in Nat /\ r + 1 = 1 + r
    BY <2>1, OneMore
  <2> HIDE DEF all
  <2>4. far <= max * (1 + r)
    BY <2>1, <2>2, <2>3
  <2> QED
    BY <2>4 DEF max, far, r
<1> QED
  BY <1>1, <1>2, ScraperInvHolds, DepthStarts, PTL DEF ScraperSpec
=============================================================================
