----------------------------- MODULE MCStorage -----------------------------
(***************************************************************************)
(* Storages on a small instance; the callers are interchangeable.          *)
(***************************************************************************)
EXTENDS Storages, TLC

-----------------------------------------------------------------------------
\* Payloads of items of 2 bytes ("{}") and more.
Sizes == 2 .. 7
Limits == {6, 9}
ItemArrays == UNION {[1 .. n -> Sizes] : n \in 1 .. 4}

\* pushData sends all items in their order, or nothing when one is too large.
ASSUME OrderKept ==
    \A items \in ItemArrays, limit \in Limits :
        LET payloads == PushPayloads(items, limit)
        IN FlattenSeq([i \in DOMAIN payloads |-> payloads[i].items])
               = IF \E i \in DOMAIN items : items[i] > limit THEN <<>> ELSE items

\* A payload has at most limitBytes, or one byte more when it is an array that
\* is not the first: AddPayload does not count its first comma.
ASSUME SizeKept ==
    \A items \in ItemArrays, limit \in Limits :
        LET payloads == PushPayloads(items, limit)
        IN \A i \in DOMAIN payloads :
               \/ Bytes(payloads[i]) <= limit
               \/ i > 1 /\ Len(payloads[i].items) > 1 /\ Bytes(payloads[i]) = limit + 1

\* No two arrays that follow each other would fit in one.
ASSUME WellFilled ==
    \A items \in ItemArrays, limit \in Limits :
        LET payloads == PushPayloads(items, limit)
        IN \A i \in 1 .. Len(payloads) - 1 :
               payloads[i].isArray /\ payloads[i + 1].isArray =>
                   Bytes(InArray(payloads[i].items \o <<payloads[i + 1].items[1]>>)) > limit
-----------------------------------------------------------------------------
CallerSymmetry == Permutations(Objects)

\* Behaviours are followed up to the second kind of unguarded event, those of
\* a key-value store up to the first that touches its records alone, and an
\* iteration, which reads memory only, with one caller and one write.
Followed ==
    /\ Cardinality(spoiled) <= 1
    /\ kind = "keyValueStores" => spoiled \subseteq {"loss", "drop"}
    /\ iteration.pc # "idle" =>
          /\ ~writeMetadata /\ restarts = 0 /\ version <= 1
          /\ Cardinality({o \in Objects : object[o] = Closed}) >= Cardinality(Objects) - 1
=============================================================================
