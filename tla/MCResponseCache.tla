---------------------------- MODULE MCResponseCache ----------------------------
(* Small instances of ResponseCache for TLC. *)
EXTENDS ResponseCache, TLC

CONSTANTS e1, e2, b1

(* The same body sent to two endpoints. *)
TwoRequests == {[scope |-> e1, body |-> b1], [scope |-> e2, body |-> b1]}

CacheSymmetry == Permutations(Asks) \cup Permutations(Temps)
================================================================================
