------------------------------ MODULE MCAgentRun -------------------------------
(* One agent run in each of its four forms: an output of up to two events  *)
(* against a cap of one, and one request through the broker.               *)
EXTENDS AgentRun

Event(side, words, leak) ==
  [side |-> side, tool |-> "shell", words |-> words, authored |-> FALSE, leak |-> leak]

(* A command that changes to the fixture's directory and reads there, and  *)
(* results with and without a credential in them.                          *)
MCTranscript == {
  Event("input", <<[verb |-> "cd", at |-> "fixture"], [verb |-> "run", at |-> "rel"]>>, "none"),
  Event("result", At("work"), "key"),
  Event("result", At("work"), "token"),
  Event("result", At("work"), "login")}

Request(cap, dest, size) ==
  [cap |-> cap, dest |-> dest, method |-> "GET", path |-> "models", size |-> size, v1 |-> TRUE]

MCRequests == {Request("own", "provider", 1), Request("none", "provider", 1)}

Reply(reached, encoding, echo, size) ==
  [reached |-> reached, encoding |-> encoding, echo |-> echo, size |-> size]

MCReplies == {
  Reply(FALSE, "identity", {}, 0),
  Reply(TRUE, "identity", {"key"}, 1),
  Reply(TRUE, "gzip", {"key"}, 1),
  Reply(TRUE, "identity", {"key"}, 2)}
================================================================================
