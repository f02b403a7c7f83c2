----------------------------- MODULE ActorProofs -----------------------------
(***************************************************************************)
(* What the statistics of a crawler have saved is not lost again, whatever *)
(* ends the process, and all of it is saved when run() has returned.       *)
(***************************************************************************)
EXTENDS Actor, TLAPS

Counts == [ended : Nat]
Records == Counts \cup {NoRecord}
Saves == {NoWrite} \cup [pc : {"sent", "landed"}, value : Counts]

ActorTypeOK ==
    /\ atHome \in BOOLEAN /\ opened \in BOOLEAN /\ unsure \in BOOLEAN
    /\ filing \in BOOLEAN /\ left \in BOOLEAN
    /\ stats \in Counts /\ store \in Records /\ file \in Records /\ acked \in Nat
    /\ writes \in [Callers -> Saves]

(* run() has the store once it has waited for it, and it waits for the     *)
(* last state as long as that is on its way.                               *)
RunKept ==
    /\ opened <=> crawl \notin {"idle", "opening"}
    /\ writes["stop"].pc # "none" <=> crawl = "stopping"

(* A record on its way to the remote store is alone, and newer than the    *)
(* one there.                                                              *)
OneOnItsWay ==
    \A c \in Callers :
        /\ writes[c].pc = "sent" => atHome /\ store.ended <= writes[c].value.ended
        /\ atHome /\ writes[c].pc # "none" => \A d \in Callers : writes[d].pc # "none" => c = d

(* What has been answered, or is about to be, is in the store.             *)
AnsweredInStore ==
    /\ acked <= store.ended
    /\ \A c \in Callers : writes[c].pc = "landed" => writes[c].value.ended <= store.ended

(* Off the platform it is in the file too, once the worker has written it. *)
AnsweredInFile ==
    /\ atHome => ~filing
    /\ ~atHome /\ ~filing =>
          /\ acked <= file.ended
          /\ \A c \in Callers : writes[c].pc = "landed" => writes[c].value.ended <= file.ended

(* Statistics that are not waiting to be loaded are as new as the store    *)
(* and as what is on its way there.                                        *)
NewerThanStore ==
    opened /\ ~Loading =>
        /\ store.ended <= stats.ended
        /\ \A c \in Callers : writes[c].pc = "sent" => writes[c].value.ended <= stats.ended

(* From the last save on nothing else is saved, nor counted, unless tasks  *)
(* were left.                                                              *)
LastSaved ==
    crawl \in {"stopping", "returned"} /\ ~left =>
        /\ \A c \in Callers : writes[c].pc = "sent" => writes[c].value = stats
        /\ crawl = "returned" \/ writes["stop"].pc = "landed" => store = stats

SavesKept == OneOnItsWay /\ AnsweredInStore /\ AnsweredInFile /\ NewerThanStore /\ LastSaved

ActorInv == ActorTypeOK /\ RunKept /\ (unsure \/ SavesKept)

-----------------------------------------------------------------------------
(* What a record on its way looks like.                                    *)
LEMMA SaveFacts ==
    /\ \A s \in Saves : /\ s.pc \in {"none", "sent", "landed"}
                        /\ s.pc = "none" <=> s = NoWrite
                        /\ s # NoWrite => s.value \in Counts
    /\ NoWrite \in Saves /\ NoWrite.pc = "none"
    /\ \A v \in Counts : /\ v.ended \in Nat
                         /\ \A p \in {"sent", "landed"} :
                               LET s == [pc |-> p, value |-> v]
                               IN s \in Saves /\ s.pc = p /\ s.value = v
<1>1. NoWrite.pc = "none"
  BY DEF NoWrite
<1>2. \A s \in [pc : {"sent", "landed"}, value : Counts] : s.pc \in {"sent", "landed"} /\ s.value \in Counts
  OBVIOUS
<1> QED
  BY <1>1, <1>2 DEF Saves, Counts

(* The record that is saved, if there is one, counts some jobs.            *)
LEMMA RecordFacts ==
    /\ \A r \in Records : r.ended \in Nat
    /\ Counts \subseteq Records /\ NoRecord \in Records /\ NoRecord.ended = 0
    /\ Pristine \in Counts /\ Pristine.ended = 0
BY DEF Records, Counts, NoRecord, Pristine

(* A state is saved under a name that nobody waits for.                    *)
LEMMA SavedUnder ==
    ASSUME ActorInv, NEW by \in Callers, PersistState(by, Loading), opened
    PROVE  /\ writes[by].pc = "none"
           /\ writes' \in [Callers -> Saves]
           /\ writes'[by].pc = IF atHome THEN "sent" ELSE "landed"
           /\ writes'[by].value = stats
           /\ \A c \in Callers : c # by => writes'[c] = writes[c]
           /\ store' = IF atHome THEN store ELSE stats
           /\ filing' = ~atHome
           /\ unsure' = (unsure \/ Overlaps \/ Loading)
           /\ ~unsure' /\ atHome => \A c \in Callers : writes[c].pc = "none"
<1>1. /\ writes[by] = NoWrite
      /\ writes' = [writes EXCEPT ![by] = [pc |-> IF atHome THEN "sent" ELSE "landed", value |-> stats]]
      /\ store' = IF atHome THEN store ELSE stats
      /\ filing' = ~atHome
      /\ unsure' = (unsure \/ Overlaps \/ Loading)
  BY DEF PersistState
<1>2. writes \in [Callers -> Saves] /\ stats \in Counts
  BY DEF ActorInv, ActorTypeOK
<1>3. /\ [pc |-> IF atHome THEN "sent" ELSE "landed", value |-> stats] \in Saves
      /\ writes[by].pc = "none"
  BY <1>1, <1>2, SaveFacts
<1>4. ~unsure' /\ atHome => \A c \in Callers : writes[c].pc = "none"
  BY <1>1, SaveFacts DEF Overlaps, Sending, OnTheirWay
<1> QED
  BY <1>1, <1>2, <1>3, <1>4

(* Saving keeps what was saved, unless another save was on its way.        *)
LEMMA PersistKept ==
    ASSUME ActorInv, NEW by \in Callers, PersistState(by, Loading),
           UNCHANGED <<atHome, stats, opened, file, acked, left>>,
           \/ by # "stop" /\ UNCHANGED crawl
           \/ by = "stop" /\ crawl = "tearing" /\ crawl' = "stopping"
    PROVE  ActorInv'
<1>1. CASE ~opened
  <2>1. UNCHANGED <<store, filing, writes, unsure>>
    BY <1>1 DEF PersistState, saveVars
  <2>2. UNCHANGED crawl
    BY <1>1 DEF ActorInv, RunKept
  <2> QED
    BY <2>1, <2>2 DEF ActorInv, ActorTypeOK, RunKept, SavesKept, OneOnItsWay, AnsweredInStore,
       AnsweredInFile, NewerThanStore, LastSaved, Loading
<1>2. CASE opened
  <2>1. /\ writes[by].pc = "none"
        /\ writes' \in [Callers -> Saves]
        /\ writes'[by].pc = IF atHome THEN "sent" ELSE "landed"
        /\ writes'[by].value = stats
        /\ \A c \in Callers : c # by => writes'[c] = writes[c]
        /\ store' = IF atHome THEN store ELSE stats
        /\ filing' = ~atHome
        /\ unsure' = (unsure \/ Overlaps \/ Loading)
        /\ ~unsure' /\ atHome => \A c \in Callers : writes[c].pc = "none"
    BY <1>2, SavedUnder
  <2>2. ActorTypeOK'
    BY <2>1, RecordFacts DEF ActorInv, ActorTypeOK
  <2>3. "stop" \in Callers
    BY DEF Callers
  <2>4. RunKept'
    BY <1>2, <2>1, <2>3 DEF ActorInv, RunKept
  <2>5. ASSUME ~unsure'
        PROVE  SavesKept'
    <3>1. SavesKept /\ ~Loading
      BY <2>1, <2>5 DEF ActorInv
    <3>2. stats.ended \in Nat /\ store.ended \in Nat /\ acked \in Nat
      BY RecordFacts DEF ActorInv, ActorTypeOK, Counts
    <3>8. AnsweredInFile'
      BY <2>1 DEF AnsweredInFile
    <3>3. store.ended <= stats.ended
      BY <1>2, <3>1 DEF SavesKept, NewerThanStore
    <3>4. \A c \in Callers : writes[c] \in Saves /\ writes'[c] \in Saves
      BY <2>1 DEF ActorInv, ActorTypeOK
    <3>5. \A c \in Callers : writes[c].pc = "landed" => writes[c].value.ended \in Nat
      BY <3>4, SaveFacts
    <3>6. CASE atHome
      <4>1. \A c \in Callers : c # by => writes'[c].pc = "none"
        BY <2>1, <2>5, <3>6
      <4>2. store' = store /\ writes'[by].pc = "sent"
        BY <2>1, <3>6
      <4>3. OneOnItsWay'
        BY <2>1, <3>3, <3>6, <4>1, <4>2 DEF OneOnItsWay
      <4>4. AnsweredInStore'
        BY <3>1, <4>1, <4>2 DEF SavesKept, AnsweredInStore
      <4>5. NewerThanStore'
        BY <2>1, <3>2, <3>3, <4>1, <4>2 DEF NewerThanStore
      <4>6. LastSaved'
        <5>1. \A c \in Callers : writes'[c].pc = "sent" => writes'[c].value = stats'
          BY <2>1, <4>1
        <5>2. writes'["stop"].pc # "landed"
          BY <2>3, <4>1, <4>2
        <5>3. crawl' = "returned" /\ ~left' => store' = stats'
          BY <3>1, <4>2 DEF SavesKept, LastSaved
        <5> QED
          BY <5>1, <5>2, <5>3 DEF LastSaved
      <4> QED
        BY <3>8, <4>3, <4>4, <4>5, <4>6 DEF SavesKept
    <3>7. CASE ~atHome
      <4>1. store' = stats /\ writes'[by].pc = "landed"
        BY <2>1, <3>7
      <4>2. \A c \in Callers : writes'[c].pc # "sent"
        BY <2>1, <3>1, <3>7, <4>1 DEF SavesKept, OneOnItsWay
      <4>3. OneOnItsWay'
        BY <3>7, <4>2 DEF OneOnItsWay
      <4>4. AnsweredInStore'
        BY <2>1, <3>1, <3>2, <3>3, <3>5, <4>1 DEF SavesKept, AnsweredInStore
      <4>5. NewerThanStore'
        BY <3>2, <4>1, <4>2 DEF NewerThanStore
      <4>6. LastSaved'
        BY <4>1, <4>2 DEF LastSaved
      <4> QED
        BY <3>8, <4>3, <4>4, <4>5, <4>6 DEF SavesKept
    <3> QED
      BY <3>6, <3>7
  <2> QED
    BY <2>2, <2>4, <2>5 DEF ActorInv
<1> QED
  BY <1>1, <1>2 DEF ActorInv, ActorTypeOK

(* run() goes on without its statistics or what is saved of them.          *)
LEMMA GoesOn ==
    ASSUME ActorInv, UNCHANGED <<atHome, stats, opened, store, file, filing, writes, acked, unsure>>,
           left' \in BOOLEAN, left => left',
           \/ UNCHANGED crawl
           \/ /\ crawl # "stopping" /\ crawl' \notin {"stopping", "returned"}
              /\ opened <=> crawl' \notin {"idle", "opening"}
              /\ Loading => crawl' = "loading"
    PROVE  ActorInv'
<1>1. ActorTypeOK' /\ RunKept'
  BY DEF ActorInv, ActorTypeOK, RunKept
<1>2. SavesKept => SavesKept'
  BY DEF SavesKept, OneOnItsWay, AnsweredInStore, AnsweredInFile, NewerThanStore, LastSaved, Loading
<1> QED
  BY <1>1, <1>2 DEF ActorInv

(* A job more or less in progress, or one more that has ended.             *)
LEMMA JobKept ==
    ASSUME ActorInv, Job
    PROVE  ActorInv'
<1>1. /\ UNCHANGED <<atHome, opened, store, file, filing, writes, acked, unsure, crawl, left>>
      /\ crawl = "running" \/ left
      /\ \/ UNCHANGED stats
         \/ stats' = [ended |-> stats.ended + 1]
  BY DEF Job, Works, StartJob, EndJob, lifeVars, saveVars
<1>2. stats \in Counts /\ stats' \in Counts /\ stats.ended <= stats'.ended
  BY <1>1 DEF ActorInv, ActorTypeOK, Counts
<1>3. /\ store.ended \in Nat /\ stats.ended \in Nat /\ stats'.ended \in Nat
      /\ \A c \in Callers : writes[c].pc = "sent" => writes[c].value.ended \in Nat
  <2>1. writes \in [Callers -> Saves] /\ store \in Records
    BY DEF ActorInv, ActorTypeOK
  <2>2. \A c \in Callers : writes[c].pc = "sent" => writes[c].value \in Counts
    BY <2>1, SaveFacts
  <2> QED
    BY <1>2, <2>1, <2>2, RecordFacts DEF Counts
<1>4. ActorTypeOK' /\ RunKept'
  BY <1>1, <1>2 DEF ActorInv, ActorTypeOK, RunKept
<1>5. ASSUME SavesKept
      PROVE  SavesKept'
  <2>1. OneOnItsWay' /\ AnsweredInStore' /\ AnsweredInFile'
    BY <1>1, <1>5 DEF SavesKept, OneOnItsWay, AnsweredInStore, AnsweredInFile
  <2>2. ASSUME opened, ~Loading
        PROVE  NewerThanStore'
    <3>1. /\ store.ended <= stats.ended
          /\ \A c \in Callers : writes[c].pc = "sent" => writes[c].value.ended <= stats.ended
      BY <1>5, <2>2 DEF SavesKept, NewerThanStore
    <3>2. \A c \in Callers : writes[c].pc = "sent" => writes[c].value.ended <= stats'.ended
      BY <1>2, <1>3, <3>1
    <3>3. store.ended <= stats'.ended
      BY <1>2, <1>3, <3>1
    <3> QED
      BY <1>1, <3>2, <3>3 DEF NewerThanStore
  <2>3. LastSaved'
    BY <1>1 DEF LastSaved
  <2>4. ~opened \/ Loading => NewerThanStore'
    BY <1>1 DEF NewerThanStore, Loading
  <2> QED
    BY <2>1, <2>2, <2>3, <2>4 DEF SavesKept
<1> QED
  BY <1>1, <1>4, <1>5 DEF ActorInv

(* The state is loaded while nothing is on its way to a remote store.      *)
LEMMA LoadKept ==
    ASSUME ActorInv, StartCapturing
    PROVE  ActorInv'
<1>1. /\ UNCHANGED <<atHome, opened, store, file, filing, writes, acked, left>>
      /\ crawl = "loading" /\ crawl' = "running"
      /\ stats' = IF store = NoRecord THEN stats ELSE [ended |-> store.ended]
      /\ unsure' = (unsure \/ Sending)
  BY DEF StartCapturing, Crawls, MaybeLoadStatistics
<1>2. stats' \in Counts /\ store.ended <= stats'.ended
  <2>1. stats \in Counts /\ store \in Records
    BY DEF ActorInv, ActorTypeOK
  <2>2. CASE store = NoRecord
    BY <1>1, <2>1, <2>2, RecordFacts DEF Counts
  <2>3. CASE store # NoRecord
    BY <1>1, <2>1, <2>3, RecordFacts DEF Counts
  <2> QED
    BY <2>2, <2>3
<1>3. ActorTypeOK'
  BY <1>1, <1>2 DEF ActorInv, ActorTypeOK
<1>4. RunKept'
  BY <1>1 DEF ActorInv, RunKept
<1>5. ASSUME ~unsure'
      PROVE  SavesKept'
  <2>1. SavesKept
    BY <1>1, <1>5 DEF ActorInv
  <2>2. \A c \in Callers : writes[c].pc # "sent"
    <3>1. atHome => \A c \in Callers : writes[c].pc = "none"
      BY <1>1, <1>5, SaveFacts DEF Sending, OnTheirWay
    <3> QED
      BY <2>1, <3>1 DEF SavesKept, OneOnItsWay
  <2>3. OneOnItsWay' /\ AnsweredInStore' /\ AnsweredInFile'
    BY <1>1, <2>1 DEF SavesKept, OneOnItsWay, AnsweredInStore, AnsweredInFile
  <2>4. NewerThanStore'
    BY <1>1, <1>2, <2>2 DEF NewerThanStore
  <2> QED
    BY <1>1, <2>3, <2>4 DEF SavesKept, LastSaved
<1> QED
  BY <1>3, <1>4, <1>5 DEF ActorInv

(* What one caller has on its way becomes something else.                  *)
LEMMA WriteChanges ==
    ASSUME ActorInv, NEW by \in Callers, NEW s \in Saves, writes' = [writes EXCEPT ![by] = s]
    PROVE  /\ writes' \in [Callers -> Saves] /\ writes'[by] = s
           /\ \A c \in Callers : c # by => writes'[c] = writes[c]
BY DEF ActorInv, ActorTypeOK

(* The store has the record: it was the only one on its way.               *)
LEMMA LandingKept ==
    ASSUME ActorInv, NEW by \in Callers, Landing(by)
    PROVE  ActorInv'
<1> DEFINE value == writes[by].value
<1>1. /\ UNCHANGED <<atHome, stats, opened, file, filing, acked, unsure, crawl, left>>
      /\ writes[by].pc = "sent" /\ writes' = [writes EXCEPT ![by].pc = "landed"]
      /\ store' = value
  BY DEF Landing, Lands, lifeVars
<1>2. writes[by] \in [pc : {"sent", "landed"}, value : Counts] /\ value \in Counts
  <2>1. writes[by] \in Saves
    BY DEF ActorInv, ActorTypeOK
  <2> QED
    BY <1>1, <2>1, SaveFacts DEF Saves
<1>3. [writes[by] EXCEPT !.pc = "landed"] = [pc |-> "landed", value |-> value]
  BY <1>2
<1>4. writes' = [writes EXCEPT ![by] = [pc |-> "landed", value |-> value]]
  BY <1>1, <1>3
<1>5. /\ writes' \in [Callers -> Saves]
      /\ writes'[by].pc = "landed" /\ writes'[by].value = value
      /\ \A c \in Callers : c # by => writes'[c] = writes[c]
  <2>1. [pc |-> "landed", value |-> value] \in Saves
    BY <1>2, SaveFacts
  <2> QED
    BY <1>4, <2>1, WriteChanges
<1>6. ActorTypeOK'
  BY <1>1, <1>2, <1>5, RecordFacts DEF ActorInv, ActorTypeOK
<1>7. RunKept'
  <2>1. "stop" \in Callers
    BY DEF Callers
  <2>2. writes'["stop"].pc = "none" <=> writes["stop"].pc = "none"
    BY <1>1, <1>5, <2>1
  <2> QED
    BY <1>1, <2>2 DEF ActorInv, RunKept
<1>8. ASSUME SavesKept
      PROVE  SavesKept'
  <2>1. \A c \in Callers : c # by => writes'[c].pc = "none"
    BY <1>1, <1>5, <1>8 DEF SavesKept, OneOnItsWay
  <2>2. /\ store.ended <= value.ended /\ acked <= store.ended
        /\ store.ended \in Nat /\ value.ended \in Nat /\ acked \in Nat
    BY <1>1, <1>2, <1>8, RecordFacts
       DEF SavesKept, OneOnItsWay, AnsweredInStore, ActorInv, ActorTypeOK, Counts
  <2>3. OneOnItsWay'
    BY <1>5, <2>1 DEF OneOnItsWay
  <2>4. AnsweredInStore'
    BY <1>1, <1>5, <2>1, <2>2 DEF AnsweredInStore
  <2>5. NewerThanStore'
    BY <1>1, <1>5, <1>8, <2>1 DEF SavesKept, NewerThanStore, Loading
  <2>6. LastSaved'
    BY <1>1, <1>5, <1>8, <2>1 DEF SavesKept, LastSaved
  <2>7. AnsweredInFile'
    BY <1>1, <1>8 DEF SavesKept, OneOnItsWay, AnsweredInFile
  <2> QED
    BY <2>3, <2>4, <2>5, <2>6, <2>7 DEF SavesKept
<1> QED
  BY <1>1, <1>6, <1>7, <1>8 DEF ActorInv

(* The worker has written the record.                                      *)
LEMMA FiledKept ==
    ASSUME ActorInv, WriteFile
    PROVE  ActorInv'
<1>1. /\ UNCHANGED <<atHome, stats, opened, store, writes, acked, unsure, crawl, left>>
      /\ filing' = FALSE /\ file' = store
  BY DEF WriteFile, Filed, lifeVars
<1>2. ActorTypeOK' /\ RunKept'
  BY <1>1 DEF ActorInv, ActorTypeOK, RunKept
<1>3. SavesKept => SavesKept'
  BY <1>1 DEF SavesKept, OneOnItsWay, AnsweredInStore, AnsweredInFile, NewerThanStore, LastSaved, Loading
<1> QED
  BY <1>1, <1>2, <1>3 DEF ActorInv

(* A purge forgets what was saved, and nothing of it is answered later.    *)
LEMMA PurgeKept ==
    ASSUME ActorInv, Purge, ~atHome, UNCHANGED <<atHome, crawl, left>>
    PROVE  ActorInv'
<1>1. /\ UNCHANGED <<stats, jobs, opened, filing, writes>>
      /\ file' = NoRecord /\ acked' = 0
      /\ store' = IF opened THEN store ELSE NoRecord
      /\ unsure' = (unsure \/ filing \/ OnTheirWay # {})
  BY DEF Purge
<1>2. ActorTypeOK'
  BY <1>1, RecordFacts DEF ActorInv, ActorTypeOK, OnTheirWay
<1>3. RunKept'
  BY <1>1 DEF ActorInv, RunKept
<1>4. ASSUME ~unsure'
      PROVE  SavesKept'
  <2>1. SavesKept /\ ~filing /\ \A c \in Callers : writes[c].pc = "none"
    BY <1>1, <1>4, SaveFacts DEF ActorInv, OnTheirWay
  <2>2. store'.ended \in Nat
    BY <1>2, RecordFacts DEF ActorTypeOK
  <2>3. OneOnItsWay' /\ AnsweredInStore' /\ AnsweredInFile'
    BY <1>1, <2>1, <2>2, RecordFacts DEF OneOnItsWay, AnsweredInStore, AnsweredInFile
  <2>4. NewerThanStore' /\ LastSaved'
    BY <1>1, <2>1 DEF SavesKept, NewerThanStore, LastSaved, Loading, ActorInv, RunKept
  <2> QED
    BY <2>3, <2>4 DEF SavesKept
<1> QED
  BY <1>2, <1>3, <1>4 DEF ActorInv

(* Who awaited a save goes on, when it was answered or has failed.         *)
LEMMA WriteDone ==
    ASSUME ActorInv, NEW by \in Callers, writes[by] # NoWrite,
           writes' = [writes EXCEPT ![by] = NoWrite],
           UNCHANGED <<atHome, stats, opened, store, file, filing, unsure, left>>,
           acked' \in Nat, ~unsure => acked' <= store.ended,
           acked' = acked \/ (writes[by].pc = "landed" /\ acked' = writes[by].value.ended),
           \/ by # "stop" /\ UNCHANGED crawl
           \/ by = "stop" /\ crawl' = "rejected"
           \/ by = "stop" /\ crawl' = "returned" /\ writes[by].pc = "landed"
    PROVE  ActorInv'
<1>1. /\ writes' \in [Callers -> Saves] /\ writes'[by].pc = "none"
      /\ \A c \in Callers : c # by => writes'[c] = writes[c]
  BY WriteChanges, SaveFacts
<1>2. writes[by].pc # "none" /\ "stop" \in Callers
  BY SaveFacts DEF Callers, ActorInv, ActorTypeOK
<1>3. by = "stop" => crawl = "stopping"
  BY <1>2 DEF ActorInv, RunKept
<1>4. ActorTypeOK'
  BY <1>1 DEF ActorInv, ActorTypeOK
<1>5. RunKept'
  BY <1>1, <1>2, <1>3 DEF ActorInv, RunKept
<1>6. ASSUME ~unsure
      PROVE  SavesKept'
  <2>1. SavesKept
    BY <1>6 DEF ActorInv
  <2>2. OneOnItsWay'
    BY <1>1, <2>1 DEF SavesKept, OneOnItsWay
  <2>3. AnsweredInStore'
    BY <1>1, <1>6, <2>1 DEF SavesKept, AnsweredInStore
  <2>6. AnsweredInFile'
    BY <1>1, <2>1 DEF SavesKept, AnsweredInFile
  <2>4. NewerThanStore'
    BY <1>1, <1>3, <2>1 DEF SavesKept, NewerThanStore, Loading
  <2>5. LastSaved'
    BY <1>1, <1>2, <1>3, <2>1 DEF SavesKept, LastSaved
  <2> QED
    BY <2>2, <2>3, <2>4, <2>5, <2>6 DEF SavesKept
<1> QED
  BY <1>4, <1>5, <1>6 DEF ActorInv

(* The end of the process leaves what was answered, unless the worker has  *)
(* not written it.                                                         *)
LEMMA EndsKept ==
    ASSUME ActorInv, Ends
    PROVE  ActorInv'
<1>1. /\ stats' = Pristine /\ opened' = FALSE /\ filing' = FALSE /\ left' = FALSE
      /\ crawl' = "idle" /\ UNCHANGED <<atHome, acked>>
      /\ writes' = [c \in Callers |-> NoWrite]
      /\ store' \in (IF atHome THEN {store} ELSE IF filing THEN {store, file, NoRecord} ELSE {file})
      /\ file' = IF atHome THEN file ELSE store'
      /\ unsure' = (unsure \/ filing)
  BY DEF Ends, Leave
<1>2. \A c \in Callers : writes'[c].pc = "none"
  BY <1>1, SaveFacts
<1>3. ActorTypeOK'
  <2>1. store' \in Records /\ file' \in Records
    BY <1>1, RecordFacts DEF ActorInv, ActorTypeOK
  <2>2. writes' \in [Callers -> Saves]
    BY <1>1, SaveFacts
  <2> QED
    BY <1>1, <2>1, <2>2, RecordFacts DEF ActorInv, ActorTypeOK
<1>4. RunKept'
  BY <1>1, <1>2 DEF RunKept, Callers
<1>5. ASSUME ~unsure'
      PROVE  SavesKept'
  <2>1. SavesKept /\ ~filing
    BY <1>1, <1>5 DEF ActorInv
  <2>2. acked' <= store'.ended
    BY <1>1, <2>1 DEF SavesKept, AnsweredInStore, AnsweredInFile
  <2>3. ~atHome => file' = store'
    BY <1>1
  <2>4. OneOnItsWay' /\ AnsweredInStore' /\ AnsweredInFile'
    BY <1>1, <1>2, <2>2, <2>3 DEF OneOnItsWay, AnsweredInStore, AnsweredInFile
  <2>5. NewerThanStore' /\ LastSaved'
    BY <1>1 DEF NewerThanStore, LastSaved
  <2> QED
    BY <2>4, <2>5 DEF SavesKept
<1> QED
  BY <1>3, <1>4, <1>5 DEF ActorInv

(* A step of run() but for the loading.                                    *)
LEMMA CrawlerKept ==
    ASSUME ActorInv, Crawler
    PROVE  ActorInv'
<1>1. CASE Run
  <2>1. PICK from \in {"idle", "returned", "rejected"} :
           crawl = from /\ crawl' = IF opened THEN "loading" ELSE "opening"
    BY <1>1 DEF Run, Crawls
  <2>2. UNCHANGED <<atHome, stats, opened, store, file, filing, writes, acked, unsure, left>>
    BY <1>1 DEF Run, Crawls, statsVars
  <2> QED
    BY <2>1, <2>2, GoesOn DEF Loading, ActorInv, ActorTypeOK
<1>2. CASE OpenStore
  <2>1. /\ crawl = "opening" /\ crawl' = "loading" /\ opened' = TRUE
        /\ UNCHANGED <<atHome, stats, store, file, filing, writes, acked, unsure, left>>
    BY <1>2 DEF OpenStore, Crawls, saveVars
  <2>2. ActorTypeOK' /\ RunKept'
    BY <2>1 DEF ActorInv, ActorTypeOK, RunKept
  <2>3. SavesKept => SavesKept'
    BY <2>1 DEF SavesKept, OneOnItsWay, AnsweredInStore, AnsweredInFile, NewerThanStore, LastSaved,
       Loading
  <2> QED
    BY <2>1, <2>2, <2>3 DEF ActorInv
<1>3. CASE StartCapturing
  BY <1>3, LoadKept
<1>4. CASE Job
  BY <1>4, JobKept
<1>5. CASE PoolEnds \/ TeardownFails
  <2>1. /\ UNCHANGED <<atHome, stats, opened, store, file, filing, writes, acked, unsure>>
        /\ left' = TRUE \/ left' = left
        /\ \/ crawl = "running" /\ crawl' = "tearing"
           \/ crawl = "tearing" /\ crawl' = "rejected"
    BY <1>5 DEF PoolEnds, TeardownFails, Crawls, statsVars
  <2>2. left' \in BOOLEAN /\ (left => left')
    <3>1. left \in BOOLEAN
      BY DEF ActorInv, ActorTypeOK
    <3>2. CASE left' = TRUE
      BY <3>2
    <3>3. CASE left' = left
      BY <3>1, <3>3
    <3> QED
      BY <2>1, <3>2, <3>3
  <2>3. crawl # "stopping" /\ crawl' \notin {"stopping", "returned"} /\ ~Loading
    BY <2>1 DEF Loading
  <2>4. opened <=> crawl' \notin {"idle", "opening"}
    BY <2>1 DEF ActorInv, RunKept
  <2> QED
    BY <2>1, <2>2, <2>3, <2>4, GoesOn
<1>6. CASE StopCapturing
  <2>1. /\ PersistState("stop", Loading) /\ UNCHANGED <<atHome, stats, opened, file, acked, left>>
        /\ crawl = "tearing" /\ crawl' = "stopping" /\ "stop" \in Callers
    BY <1>6 DEF StopCapturing, Crawls, InStore, Callers
  <2> QED
    BY <2>1, PersistKept
<1> QED
  BY <1>1, <1>2, <1>3, <1>4, <1>5, <1>6 DEF Crawler

(* What events make happen.                                                *)
LEMMA EventsKept ==
    ASSUME ActorInv, Migrating \/ Aborting \/ PauseEnds \/ Reboot \/ (\E m \in Managers : Tick(m))
    PROVE  ActorInv'
<1>1. {"interval", "migrating", "pause", "reboot", "stop"} \subseteq Callers
  BY DEF Callers
<1>2. CASE Migrating
  <2>1. UNCHANGED <<atHome, stats, opened, file, acked, crawl, left>>
    BY <1>2 DEF Migrating, InStore
  <2>2. CASE UNCHANGED saveVars
    BY <2>1, <2>2, GoesOn DEF saveVars, ActorInv, ActorTypeOK
  <2> QED
    BY <1>1, <1>2, <2>1, <2>2, PersistKept DEF Migrating
<1>3. CASE Aborting
  BY <1>3, GoesOn DEF Aborting, statsVars, ActorInv, ActorTypeOK
<1>4. CASE PauseEnds
  BY <1>1, <1>4, PersistKept DEF PauseEnds, InStore
<1>5. CASE Reboot
  BY <1>1, <1>5, PersistKept DEF Reboot, InStore
<1>6. ASSUME NEW m \in Managers, Tick(m)
      PROVE  ActorInv'
  BY <1>1, <1>6, PersistKept DEF Tick, InStore, lifeVars
<1> QED
  BY <1>2, <1>3, <1>4, <1>5, <1>6

(* What the store answers.                                                 *)
LEMMA AnswersKept ==
    ASSUME ActorInv, NEW by \in Callers, Landing(by) \/ Returning(by) \/ Rejects(by) \/ Unhandled(by)
    PROVE  ActorInv'
<1>1. writes[by] \in Saves /\ store.ended \in Nat /\ acked \in Nat
  BY RecordFacts DEF ActorInv, ActorTypeOK
<1>2. CASE Returning(by)
  <2>1. /\ writes[by].pc = "landed" /\ writes' = [writes EXCEPT ![by] = NoWrite]
        /\ acked' = (IF writes[by].value.ended > acked /\ ~unsure THEN writes[by].value.ended ELSE acked)
        /\ UNCHANGED <<atHome, stats, opened, store, file, filing, unsure, left>>
        /\ crawl' = IF by = "stop" THEN "returned" ELSE crawl
    BY <1>2 DEF Returning, Returns
  <2>2. writes[by] # NoWrite /\ writes[by].value.ended \in Nat
    BY <1>1, <2>1, SaveFacts
  <2>3. ~unsure => acked <= store.ended /\ writes[by].value.ended <= store.ended
    BY <2>1 DEF ActorInv, SavesKept, AnsweredInStore
  <2>4. acked' \in Nat /\ (~unsure => acked' <= store.ended)
    BY <1>1, <2>1, <2>2, <2>3
  <2> QED
    BY <2>1, <2>2, <2>4, WriteDone
<1>3. CASE Rejects(by)
  <2>1. /\ writes[by] # NoWrite /\ writes' = [writes EXCEPT ![by] = NoWrite]
        /\ UNCHANGED <<atHome, stats, opened, store, file, filing, unsure, acked, left>>
        /\ crawl' = IF by = "stop" THEN "rejected" ELSE crawl
    BY <1>3 DEF Rejects, InStore
  <2>2. ~unsure => acked <= store.ended
    BY DEF ActorInv, SavesKept, AnsweredInStore
  <2> QED
    BY <1>1, <2>1, <2>2, WriteDone
<1> QED
  BY <1>2, <1>3, LandingKept, EndsKept DEF Unhandled

(* No step of the actor breaks it.                                         *)
LEMMA ActorInvKept ==
    ASSUME ActorInv, [Next]_vars
    PROVE  ActorInv'
<1>1. ASSUME UNCHANGED <<atHome, statsVars, crawl, left>>
      PROVE  ActorInv'
  BY <1>1, GoesOn DEF statsVars, ActorInv, ActorTypeOK
<1>2. CASE Construct \/ Exit \/ UNCHANGED vars
  BY <1>1, <1>2 DEF Construct, Exit, vars, lifeVars
<1>3. CASE ActorInit
  BY <1>1, <1>3, PurgeKept DEF ActorInit
<1>4. CASE Stops \/ Metamorph
  BY <1>4, EndsKept DEF Stops, Metamorph
<1> QED
  BY <1>2, <1>3, <1>4, CrawlerKept, EventsKept, FiledKept, AnswersKept DEF Next

(* At the start nothing is saved.                                          *)
LEMMA ActorStarts == Init => ActorInv
<1> SUFFICES ASSUME Init
             PROVE  ActorInv
  OBVIOUS
<1>1. /\ stats = Pristine /\ store = NoRecord /\ file = NoRecord /\ acked = 0
      /\ opened = FALSE /\ filing = FALSE /\ left = FALSE /\ unsure = FALSE
      /\ writes = [c \in Callers |-> NoWrite] /\ crawl = "idle" /\ atHome \in BOOLEAN
  BY DEF Init, StatsInit
<1>2. \A c \in Callers : writes[c].pc = "none"
  BY <1>1, SaveFacts
<1>3. Pristine \in Counts /\ NoRecord \in Records /\ NoRecord.ended = 0
  BY RecordFacts
<1>4. ActorTypeOK
  BY <1>1, <1>3, SaveFacts DEF ActorTypeOK
<1>5. RunKept
  BY <1>1, <1>2 DEF RunKept, Callers
<1>6. SavesKept
  BY <1>1, <1>2, <1>3
     DEF SavesKept, OneOnItsWay, AnsweredInStore, AnsweredInFile, NewerThanStore, LastSaved
<1> QED
  BY <1>4, <1>5, <1>6 DEF ActorInv

(* Unless saves overlap, or one meets the loading of the state, a purge or *)
(* the end of the process, the record that is saved is as new as what was  *)
(* answered since the last purge, and so is the file of it, and no newer   *)
(* than the statistics that are not yet to be loaded.                      *)
THEOREM ActorInvHolds == Spec => []ActorInv
<1>1. ActorInv /\ [Next]_vars => ActorInv'
  BY ActorInvKept
<1> QED
  BY <1>1, ActorStarts, PTL DEF Spec

(* For any number of processes, runs, purges, aborts and failures: a state *)
(* whose saving was answered is not lost again before it is purged, unless *)
(* saves overlap each other or what NothingAcknowledgedLost names.         *)
THEOREM NothingAcknowledgedLostHolds == Spec => []NothingAcknowledgedLost
<1>1. ActorInv => NothingAcknowledgedLost
  BY RecordFacts DEF ActorInv, ActorTypeOK, SavesKept, AnsweredInStore, NothingAcknowledgedLost
<1> QED
  BY <1>1, ActorInvHolds, PTL

(* For any number of processes, runs, purges and failures: when run() has  *)
(* returned the record is what the statistics say, unless the pool has     *)
(* left tasks, or saves overlapped.                                        *)
THEOREM ReturnedMeansSavedHolds == Spec => []ReturnedMeansSaved
<1>1. ActorInv => ReturnedMeansSaved
  BY DEF ActorInv, SavesKept, LastSaved, ReturnedMeansSaved
<1> QED
  BY <1>1, ActorInvHolds, PTL
==============================================================================
