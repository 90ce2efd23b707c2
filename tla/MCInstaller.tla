------------------------------ MODULE MCInstaller ------------------------------
(* Small instances of Installer for TLC. *)
EXTENDS Installer, TLC

CONSTANTS v1, v2, k1

(* install --desktop-key; a newer version without the key, plain and       *)
(* forced; --remove.                                                       *)
MCCommands ==
  {[remove |-> FALSE, force |-> FALSE, launch |-> v1, key |-> k1],
   [remove |-> FALSE, force |-> FALSE, launch |-> v2, key |-> NoKey],
   [remove |-> FALSE, force |-> TRUE,  launch |-> v2, key |-> NoKey],
   [remove |-> TRUE,  force |-> FALSE, launch |-> v1, key |-> NoKey]}

InstallSymmetry == Permutations(Runs)
================================================================================
