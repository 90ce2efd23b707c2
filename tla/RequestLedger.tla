----------------------------- MODULE RequestLedger -----------------------------
(***************************************************************************)
(* What a client may rely on, whatever the transport: a request the server *)
(* accepts is settled once, by a reply or by being dropped, and a server   *)
(* that has closed settles nothing any more.  Server is shown to implement *)
(* this.                                                                   *)
(***************************************************************************)
CONSTANT Requests

VARIABLES status, door

vars == <<status, door>>

Init ==
  /\ status = [r \in Requests |-> "new"]
  /\ door = "unopened"

Open ==
  /\ door = "unopened"
  /\ door' = "open"
  /\ UNCHANGED status

Accept(r) ==
  /\ door = "open"
  /\ status[r] = "new"
  /\ status' = [status EXCEPT ![r] = "open"]
  /\ UNCHANGED door

Settle(r) ==
  /\ door = "open"
  /\ status[r] = "open"
  /\ \E s \in {"replied", "dropped"} : status' = [status EXCEPT ![r] = s]
  /\ UNCHANGED door

Close ==
  /\ door = "open"
  /\ \A r \in Requests : status[r] # "open"
  /\ door' = "closed"
  /\ UNCHANGED status

Next ==
  \/ Open
  \/ Close
  \/ \E r \in Requests : Accept(r) \/ Settle(r)

Spec ==
  /\ Init /\ [][Next]_vars
  /\ \A r \in Requests : WF_vars(Settle(r))
================================================================================
