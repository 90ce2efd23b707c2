------------------------------- MODULE Validation -------------------------------
(***************************************************************************)
(* validation/: what every answer of Jev's passes before a tool or a hook  *)
(* reads it, and how the actions that result are combined.                *)
(* Probabilities and confidences are integer percents; a raw               *)
(* number outside 0..100 is one the code refuses.                          *)
(***************************************************************************)
EXTENDS Integers, FiniteSets, FiniteSetsExt

Unknown == -1  \* None
Absent == -2   \* a key the answer does not have

unit_interval(v) == IF v \in 0..100 THEN v ELSE Unknown

confidence_of(raw) == unit_interval(raw.confidence)

validate_noul(raw) == unit_interval(raw)

Total(p) == MapThenSumSet(LAMBDA k : p[k], DOMAIN p)

Invalid == [valid |-> FALSE]

(* An object whose probabilities are in range and over the expected keys. *)
Shaped(raw, keys) ==
  raw.object /\ DOMAIN raw.probabilities = keys /\ \A k \in keys : raw.probabilities[k] \in 0..100

Argmax(raw) == \A k \in DOMAIN raw.probabilities : raw.probabilities[k] <= raw.probabilities[raw.choice]

Choice(raw) == [valid |-> TRUE, choice |-> raw.choice, probabilities |-> raw.probabilities,
                confidence |-> confidence_of(raw)]

validate_choice(raw, keys) ==
  IF Shaped(raw, keys) /\ raw.choice \in keys /\ Total(raw.probabilities) \in 99..101 /\ Argmax(raw)
  THEN Choice(raw) ELSE Invalid

(* jev_extract's own: as floats, neither 0.99 nor 1.01 is within 0.01 of 1. *)
validate_extract_choice(raw, keys) ==
  IF Shaped(raw, keys) /\ raw.choice \in keys /\ Total(raw.probabilities) = 100 /\ Argmax(raw)
  THEN Choice(raw) ELSE Invalid

(* A score of 150 is halfway between the second and the third level. *)
validate_rubric_answer(raw, levels) ==
  IF Shaped(raw, 0..(levels - 1)) /\ raw.score \in 0..(100 * (levels - 1)) /\ Total(raw.probabilities) \in 99..101
  THEN [valid |-> TRUE, score |-> raw.score] ELSE Invalid

(* The top probability less the runner-up, 0 when there is none. *)
margin(p) ==
  LET top == CHOOSE k \in DOMAIN p : \A j \in DOMAIN p : p[j] <= p[k]
  IN  IF Cardinality(DOMAIN p) < 2 THEN 0 ELSE p[top] - Max({p[j] : j \in DOMAIN p \ {top}})

top_probability(answer) == answer.probabilities[answer.choice]

(* policy/: the worst of some actions, and the values that are actions. *)
worst_action(actions) ==
  CASE "escalate" \in actions -> "escalate"
    [] "escalate" \notin actions /\ "review" \in actions -> "review"
    [] OTHER -> "auto"

caller_actions(values) == values \cap {"auto", "review", "escalate"}

================================================================================
