---------------------------- MODULE RequestLease ----------------------------
(***************************************************************************)
(* What a request queue promises to the tasks of a crawler, without heads, *)
(* caches, queries and timers.  Requests are pending until they are        *)
(* handled.  A worker that fetches one takes a lease on it; while it has   *)
(* the lease it alone is given the request, and it alone of this program   *)
(* writes whether the request is handled.                                  *)
(***************************************************************************)
CONSTANTS Requests, Workers, None,
          Outsiders     \* TRUE: other programs may handle requests too

VARIABLES
    status,   \* "absent", "pending" or "handled", for each request
    lease     \* the request a worker has a lease on, or None

leaseVars == <<status, lease>>

LeaseInit ==
    /\ status \in [Requests -> {"absent", "pending", "handled"}]
    /\ lease = [w \in Workers |-> None]

Free(r) == \A w \in Workers : lease[w] # r

Enqueue(rs) ==
    /\ \A r \in rs : status[r] = "absent"
    /\ status' = [r \in Requests |-> IF r \in rs THEN "pending" ELSE status[r]]
    /\ UNCHANGED lease

(* A pending request that nobody has is given to one worker.               *)
Acquire(w, r) ==
    /\ lease[w] = None
    /\ status[r] = "pending"
    /\ Free(r)
    /\ lease' = [lease EXCEPT ![w] = r]
    /\ UNCHANGED status

(* The holder writes its request as handled, or as pending again.          *)
Write(w, newStatus) ==
    /\ lease[w] # None
    /\ status' = [status EXCEPT ![lease[w]] = newStatus]
    /\ UNCHANGED lease

Release(w) ==
    /\ lease[w] # None
    /\ lease' = [lease EXCEPT ![w] = None]
    /\ UNCHANGED status

HandledElsewhere(r) ==
    /\ Outsiders
    /\ status[r] = "pending"
    /\ status' = [status EXCEPT ![r] = "handled"]
    /\ UNCHANGED lease

LeaseNext ==
    \/ \E rs \in SUBSET Requests : Enqueue(rs)
    \/ \E w \in Workers : \/ \E r \in Requests : Acquire(w, r)
                          \/ \E s \in {"pending", "handled"} : Write(w, s)
                          \/ Release(w)
    \/ \E r \in Requests : HandledElsewhere(r)

LeaseSpec == LeaseInit /\ [][LeaseNext]_leaseVars

=============================================================================
