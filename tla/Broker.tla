-------------------------------- MODULE Broker ---------------------------------
(***************************************************************************)
(* The egress path of a confined agent (evals/confinement/): the shim that *)
(* frames the agent's requests, the protocol, and the broker sidecar that  *)
(* alone holds the credentials.  One request is under way at a time; the   *)
(* agent may also frame one by hand, so a frame's fields are any.          *)
(***************************************************************************)
EXTENDS Integers, Sequences

CONSTANTS Arm,      \* the study's arm: only B has the Jev tools
          Requests, \* the requests an agent may make
          Replies,  \* what an upstream may answer
          MaxCalls, \* bound on the requests of one run
          MaxBody   \* MAX_BODY_BYTES

VARIABLES age,      \* the run's deadlines that have passed
          grant,    \* the capability's grant file is in grants_dir
          brokerUp, \* the broker serves its socket
          call, calls,
          knows     \* the credentials the agent has been shown

egress == <<grant, brokerUp, call, calls, knows>>

(* The allowlist: Upstream.typesafe, one operation, and Upstream.provider, *)
(* the endpoints of the model's API; arm A's broker knows only the second. *)
Upstream ==
  [typesafe |-> [methods |-> {"POST"}, paths |-> {"systemone"}],
   provider |-> [methods |-> {"POST", "GET"}, paths |-> {"completions", "models"}]]

arm_spec == IF Arm = "A" THEN {"provider"} ELSE DOMAIN Upstream

NoCall == [st |-> "idle"]

BrokerInit ==
  /\ grant = FALSE /\ brokerUp = FALSE
  /\ call = NoCall /\ calls = 0 /\ knows = {}

(* The deadlines, in their order: the run's timeout, the capability's life *)
(* (CAPABILITY_MARGIN_S past it) and the broker's (BROKER_LIFE_MARGIN_S).  *)
Expired == age >= 2
LifeOver == age >= 3

--------------------------------------------------------------------------------
(* _Forwarder._forward: a body over the cap is answered by the shim; the   *)
(* rest is framed with the capability of the mounted grant file, without   *)
(* the client's own credential headers.                                    *)
_forward(r) ==
  /\ call = NoCall /\ calls < MaxCalls
  /\ r.size <= MaxBody
  /\ call' = [st |-> "framed", req |-> r]
  /\ calls' = calls + 1
  /\ UNCHANGED <<grant, brokerUp, knows>>

(* recv_frame: a v1 header and as many bytes as it says, within the cap. *)
recv_frame(r) == r.v1 /\ r.size <= MaxBody

(* check_capability: the grant file is read again for every request, so    *)
(* that removing it revokes the token; past its expiry it is refused.      *)
check_capability(r) == r.cap = "own" /\ grant /\ ~Expired

(* check_allowlist: destination, method and path, before any socket. *)
check_allowlist(r) ==
  /\ r.dest \in arm_spec
  /\ r.method \in Upstream[r.dest].methods
  /\ r.path \in Upstream[r.dest].paths

(* handle, to the upstream: the credential is injected here. *)
handle ==
  /\ call.st = "framed" /\ brokerUp
  /\ LET r == call.req
     IN  call' = IF recv_frame(r) /\ check_capability(r) /\ check_allowlist(r)
                   THEN [call EXCEPT !.st = "forwarded"] ELSE NoCall
  /\ UNCHANGED <<grant, brokerUp, calls, knows>>

(* _redact finds the credential in plain bytes only. *)
_redact(a) == IF a.encoding = "identity" THEN {} ELSE a.echo

(* Fault: the answer's encoding is not looked at. *)
ForwardAnyEncoding(a) == IF a.size > MaxBody \/ ~a.reached THEN {} ELSE _redact(a)

(* forward, back: an upstream that cannot be reached, an encoded body and  *)
(* one over the cap are refusals; the rest is redacted.                    *)
forward(a) ==
  IF ~a.reached \/ a.encoding # "identity" \/ a.size > MaxBody THEN {} ELSE _redact(a)

Answer ==
  /\ call.st = "forwarded" /\ brokerUp
  /\ \E a \in Replies : knows' = knows \cup forward(a)
  /\ call' = NoCall
  /\ UNCHANGED <<grant, brokerUp, calls>>

(* A connection whose broker is gone ends in the shim's 502. *)
Hangup ==
  /\ call # NoCall /\ ~brokerUp
  /\ call' = NoCall
  /\ UNCHANGED <<grant, brokerUp, calls, knows>>

(* Fault: the timer is not started. *)
NoDeadline ==
  /\ FALSE
  /\ UNCHANGED egress

(* main: the broker's own deadline stops it, whoever started it. *)
Deadline ==
  /\ brokerUp /\ LifeOver
  /\ brokerUp' = FALSE
  /\ UNCHANGED <<grant, call, calls, knows>>
================================================================================
