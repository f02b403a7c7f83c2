------------------------------ MODULE MCQueue ------------------------------
(* Small instances of RequestQueue for TLC.                                *)
EXTENDS RequestQueue, TLC

CONSTANTS r1, r2, r3, w1, w2

ThreeRequests == {r1, r2, r3}
TwoRequests == {r1, r2}
OneRequest == {r1}
TwoWorkers == {w1, w2}
NoRequests == {}
AllFaults == {"add", "query", "get", "update", "abandon"}
HolderFaults == {"abandon", "get"}
QueryFaults == {"query"}

(* Requests that may be preloaded are told apart from those that may not,  *)
(* so only a set that is preloaded as a whole is symmetric.                *)
Symmetry == Permutations(Requests) \cup Permutations(Workers)

=============================================================================
