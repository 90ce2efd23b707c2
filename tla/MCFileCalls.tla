------------------------------ MODULE MCFileCalls ------------------------------
(* Small instances of FileCalls for TLC. *)
EXTENDS FileCalls
================================================================================
