-------------------------------- MODULE MCRelay --------------------------------
(* Small instances of Relay for TLC. *)
EXTENDS Relay

(* Ids and tools are interchangeable: the first line fixes one of each. *)
FirstFixed ==
  line # << >> =>
    line[1].id = (CHOOSE i \in Ids : TRUE) /\ line[1].tool = (CHOOSE t \in Tools : TRUE)
================================================================================
