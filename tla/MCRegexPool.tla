------------------------------ MODULE MCRegexPool ------------------------------
(* Small instances of RegexPool for TLC. *)
EXTENDS RegexPool
================================================================================
