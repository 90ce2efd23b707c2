--------------------------- MODULE MCInstallAndStudy ---------------------------
(* Two programs that rewrite files of their own, for TLC: the installer    *)
(* and the paid study with its ledger.  They share no state: in a          *)
(* behaviour one of them runs and the other stays where it began.          *)
EXTENDS MCInstaller, MCSpendLedger

VARIABLE part

EitherInit == part \in {"installer", "study"} /\ Init /\ SpendInit

EitherNext ==
  /\ UNCHANGED part
  /\ \/ part = "installer" /\ Next /\ UNCHANGED spendVars
     \/ part = "study" /\ SpendNextInTurn /\ UNCHANGED vars

EitherSpec == EitherInit /\ [][EitherNext]_<<part, vars, spendVars>>
================================================================================
