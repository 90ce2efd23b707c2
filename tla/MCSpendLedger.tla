----------------------------- MODULE MCSpendLedger -----------------------------
(* Small instances of SpendLedger for TLC. *)
EXTENDS SpendLedger

(* Invocations are numbers and nothing tells them apart: the lowest that   *)
(* has not started is the next one to start.                               *)
Turn(p) == \A q \in Invocations : q < p => spendPc[q] # "idle"

SpendNextInTurn == \E p \in Invocations : Turn(p) /\ InvocationStep(p)
================================================================================
