------------------------------ MODULE MCClaimTools ------------------------------
(* Small instances of ClaimTools for TLC. *)
EXTENDS ClaimTools

Answered(c, s, m) == [valid |-> TRUE, composite |-> c, safe_to_apply |-> s, min_confidence |-> m]

(* A clean review, and one that each condition of review_action spoils. *)
MCReviews ==
  {Answered(2, 2, 2), Answered(0, 2, 2), Answered(2, 1, 2), Answered(2, 0, 2), Answered(2, 2, 1),
   Answered(2, 2, 0), Answered(2, 2, Unknown), [Answered(2, 2, 2) EXCEPT !.valid = FALSE]}

With(a, r) == [auto_accept |-> a, review_at |-> r, floor |-> 1]

(* Ordinary thresholds, an omitted review_at above and below the cap,      *)
(* equal ones, an inverted pair.                                           *)
MCSettings == {With(2, 1), With(2, Unknown), With(0, Unknown), With(1, 1), With(1, 2)}

(* Ids that collide with each other, with the implicit items, with the     *)
(* suffixes and the fallbacks that resolve collisions, and with the hatch. *)
MCRawIds == {<<>>, <<"none">>, <<"diff">>, <<"diff", 1>>, <<"evidence", 0, 0>>}
================================================================================
