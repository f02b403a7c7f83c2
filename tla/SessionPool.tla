---------------------------- MODULE SessionPool ----------------------------
(***************************************************************************)
(* SessionPool and Session of the core package: user-like sessions that    *)
(* the tasks of a crawler share, their scores, the pool that hands them    *)
(* out and replaces the retired ones, and its snapshots in the key-value   *)
(* store.                                                                  *)
(*                                                                         *)
(* getSession decides and then awaits createSessionFunction, so several    *)
(* callers may create a session for one free place.  Scores are counted in *)
(* halves of a point (markBad adds 1, the default decrement is 0.5).       *)
(***************************************************************************)
EXTENDS Integers, FiniteSets, Functions

CONSTANTS
    Sessions,              \* session objects
    Callers,               \* who may await getSession or addSession at once
    Names,                 \* ids that the user gives to addSession
    None,
    MaxPoolSize,
    MaxErrorScore, BadScore, ErrorScoreDecrement, MaxUsageCount,
    UsageBound,            \* bound: marks and retirements of all sessions
    MaxAdded,              \* bound: calls of addSession
    MaxRestarts,           \* bound: restarts of the process
    MaxExpired             \* bound: sessions that expire

(* createSession of a pool that gave the caller no id uses a random one,   *)
(* which is the object itself here, and none of the user's.                *)
Anonymous == "anonymous"

ASSUME SessionAssumption ==
    /\ None \notin Sessions \cup Names \cup {Anonymous}
    /\ Names \cap (Sessions \cup {Anonymous}) = {}
    /\ IsFiniteSet(Callers) /\ IsFiniteSet(Sessions)
    /\ MaxPoolSize \in Nat \ {0}
    /\ {MaxErrorScore, BadScore, ErrorScoreDecrement, MaxUsageCount} \subseteq Nat \ {0}
    /\ {UsageBound, MaxAdded, MaxRestarts, MaxExpired} \subseteq Nat

VARIABLES
    born,        \* the session objects that were constructed
    sessions,    \* those in the array of the pool
    sessionMap,  \* id |-> session
    ids,         \* session |-> its id
    score,       \* session |-> [error, usage]
    expired,     \* sessions whose expiresAt has passed
    creating,    \* caller |-> the id asked for by a call that awaits its new session
    picked,      \* caller |-> the session its last call resolved to
    added,       \* calls of addSession so far
    stored,      \* the snapshot in the key-value store
    restarts     \* restarts so far

callVars == <<creating, picked, added>>
storeVars == <<stored, restarts>>
sessionVars == <<born, sessions, sessionMap, ids, score, expired, callVars, storeVars>>

Fresh == [error |-> 0, usage |-> 0]

Waiting(c) == creating[c] # None

SessionPoolInit ==
    /\ born = {} /\ sessions = {} /\ expired = {}
    /\ sessionMap = <<>>
    /\ ids = [s \in Sessions |-> s]
    /\ score = [s \in Sessions |-> Fresh]
    /\ creating = [c \in Callers |-> None]
    /\ picked = [c \in Callers |-> None]
    /\ added = 0
    /\ stored = <<>> /\ restarts = 0

-----------------------------------------------------------------------------
(* Scores.                                                                 *)

(* Mutant: only errors count.                                              *)
UsableByErrors(x, late) == x.error < MaxErrorScore /\ ~late

Usable(x, late) ==
    /\ x.error < MaxErrorScore
    /\ ~late
    /\ x.usage < MaxUsageCount

IsUsable(s) == Usable(score[s], s \in expired)

Retired(x) == [error |-> x.error + MaxErrorScore, usage |-> x.usage + 1]

MaybeSelfRetire(x, late) == IF Usable(x, late) THEN x ELSE Retired(x)

Good(x, late) ==
    MaybeSelfRetire(
        [error |-> IF x.error > 0 THEN x.error - ErrorScoreDecrement ELSE x.error,
         usage |-> x.usage + 1], late)

Bad(x, late) ==
    MaybeSelfRetire([error |-> x.error + BadScore, usage |-> x.usage + 1], late)

Uses == FoldFunction(LAMBDA x, n : n + x.usage, 0, score)

Scores(s, x) ==
    /\ Uses < UsageBound
    /\ score' = [score EXCEPT ![s] = x]
    /\ UNCHANGED <<born, sessions, sessionMap, ids, expired>>

MarkGood(s) == Scores(s, Good(score[s], s \in expired))
MarkBad(s) == Scores(s, Bad(score[s], s \in expired))
Retire(s) == Scores(s, Retired(score[s]))

(* expiresAt passes.                                                       *)
Expire(s) ==
    /\ s \in born \ expired /\ Cardinality(expired) < MaxExpired
    /\ expired' = expired \cup {s}
    /\ UNCHANGED <<born, sessions, sessionMap, ids, score, callVars, storeVars>>

-----------------------------------------------------------------------------
(* The pool.                                                               *)

(* Mutant: one too many.                                                   *)
HasSpaceForOneMore == Cardinality(sessions) <= MaxPoolSize

HasSpaceForSession == Cardinality(sessions) < MaxPoolSize

RestrictMap(f, keys) == [k \in DOMAIN f \ keys |-> f[k]]

(* Mutant: the Map keeps them.                                             *)
DropsFromArray(gone) ==
    /\ sessions' = sessions \ gone
    /\ UNCHANGED sessionMap

(* Sessions leave the array, and their ids the Map.                        *)
Drops(gone) ==
    /\ sessions' = sessions \ gone
    /\ sessionMap' = RestrictMap(sessionMap, {ids[s] : s \in gone})

RemoveRetiredSessions == Drops({s \in sessions : ~IsUsable(s)})

(* A new session joins the array and the Map, after others left.           *)
Joins(s, id, gone) ==
    /\ born' = born \cup {s}
    /\ ids' = [ids EXCEPT ![s] = id]
    /\ sessions' = (sessions \ gone) \cup {s}
    /\ sessionMap' =
          LET kept == RestrictMap(sessionMap, {ids[x] : x \in gone})
          IN  [k \in DOMAIN kept \cup {id} |-> IF k = id THEN s ELSE kept[k]]

Creates(c, id) ==
    /\ creating' = [creating EXCEPT ![c] = id]
    /\ picked' = [picked EXCEPT ![c] = None]

Picks(c, s) ==
    /\ picked' = [picked EXCEPT ![c] = s]
    /\ UNCHANGED creating

GetSession(c) ==
    /\ ~Waiting(c)
    /\ \/ /\ HasSpaceForSession
          /\ Creates(c, Anonymous)
          /\ UNCHANGED <<sessions, sessionMap>>
       \/ /\ ~HasSpaceForSession
          /\ \E s \in sessions :
                \/ /\ IsUsable(s)
                   /\ Picks(c, s)
                   /\ UNCHANGED <<sessions, sessionMap>>
                \/ /\ ~IsUsable(s)
                   /\ RemoveRetiredSessions
                   /\ Creates(c, Anonymous)
    /\ UNCHANGED <<born, ids, score, expired, added>>

(* addSession makes room if the pool is full, and adds even if it could    *)
(* not.  With an id that is in the Map it throws; a Session object that    *)
(* the user constructed is added at once.                                  *)
AddSession(c, id) ==
    LET gone == IF HasSpaceForSession THEN {} ELSE {s \in sessions : ~IsUsable(s)}
    IN  /\ ~Waiting(c)
        /\ added < MaxAdded
        /\ id \notin DOMAIN sessionMap
        /\ added' = added + 1
        /\ \/ /\ Drops(gone)
              /\ Creates(c, id)
              /\ UNCHANGED <<born, ids>>
           \/ /\ \E s \in Sessions \ born : Joins(s, id, gone)
              /\ UNCHANGED <<creating, picked>>
        /\ UNCHANGED <<score, expired>>

(* createSessionFunction resolves.                                         *)
SessionCreated(c, s) ==
    /\ Waiting(c)
    /\ s \notin born
    /\ Joins(s, IF creating[c] = Anonymous THEN s ELSE creating[c], {})
    /\ creating' = [creating EXCEPT ![c] = None]
    /\ picked' = [picked EXCEPT ![c] = IF creating[c] = Anonymous THEN s ELSE None]
    /\ UNCHANGED <<score, expired, added>>

(* A user's createSessionFunction throws.                                  *)
CreationFails(c) ==
    /\ Waiting(c)
    /\ creating' = [creating EXCEPT ![c] = None]
    /\ UNCHANGED <<born, sessions, sessionMap, ids, score, expired, picked, added>>

-----------------------------------------------------------------------------
(* Persistence.  A snapshot is what getState returns, without the sessions *)
(* that would not be restored.  What is stored after the last restart of   *)
(* an instance is never read, so it is left out.                           *)

GetState == [s \in {x \in sessions : IsUsable(x)} |-> score[s]]

(* It is as if written at once: that writes overtake each other is left    *)
(* out.                                                                    *)
PersistState ==
    /\ restarts < MaxRestarts
    /\ stored' = GetState
    /\ UNCHANGED <<born, sessions, sessionMap, ids, score, expired, callVars, restarts>>

(* A new process: initialize loads what is stored and still usable, other  *)
(* sessions are forgotten.                                                 *)
MaybeLoadSessionPool ==
    LET loaded == {s \in DOMAIN stored : Usable(stored[s], s \in expired)}
    IN  /\ sessions' = loaded
        /\ sessionMap' = [id \in {ids[s] : s \in loaded} |-> CHOOSE s \in loaded : ids[s] = id]
        /\ score' = [s \in Sessions |-> IF s \in loaded THEN stored[s] ELSE Fresh]
        /\ ids' = [s \in Sessions |-> IF s \in loaded \cup DOMAIN stored' THEN ids[s] ELSE s]
        /\ expired' = expired \cap DOMAIN stored'

Restart ==
    /\ restarts < MaxRestarts
    /\ restarts' = restarts + 1
    /\ stored' = IF restarts' = MaxRestarts THEN <<>> ELSE stored
    /\ MaybeLoadSessionPool
    /\ creating' = [c \in Callers |-> None]
    /\ picked' = [c \in Callers |-> None]
    /\ UNCHANGED <<born, added>>

-----------------------------------------------------------------------------
(* Properties.                                                             *)

(* The Map and the array name the same sessions, each under its own id:    *)
(* getSession(id) finds exactly what the pool may hand out.  Calls of      *)
(* addSession come one after the other here: two at once with one id would *)
(* both pass the check and leave an id that is in the Map for one session. *)
MapAgrees ==
    /\ DOMAIN sessionMap = {ids[s] : s \in sessions}
    /\ \A s \in sessions : sessionMap[ids[s]] = s
=============================================================================
