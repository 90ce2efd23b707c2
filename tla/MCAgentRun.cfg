SPECIFICATION AgentSpec
CONSTANTS
  Transcript <- MCTranscript
  MaxEvents = 2
  Cap = 1
  Arm = "B"
  Requests <- MCRequests
  Replies <- MCReplies
  MaxCalls = 1
  MaxBody = 1
  Modes = {"plain", "preflight", "confined", "probe"}
  MaxRefusals = 1
INVARIANTS
  VerdictEarned
  NothingLeft
  SecretsKept
PROPERTIES
  AllEnds
CHECK_DEADLOCK FALSE
