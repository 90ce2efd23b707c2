CONSTANTS
  Runs = {r1, r2}
  Targets = {t1, t2}
  Shared = {t1}
  v1 = v1
  v2 = v2
  k1 = k1
  Versions = {v1, v2}
  Keys = {k1}
  Commands <- MCCommands
  NoKey = NoKey
  Foreign = Foreign
  None = None
  MaxEdits = 1
  MaxClock = 1
  Invocations = {1, 2, 3}
  NoInvocation = NoInvocation
  NPairs = 2
  AgentBudget = 1
  JevBound = 0
  MaxUsd = 3
  MaxRuns = 4
  EnvCaps = {2, 5}
  Unbooked = Unbooked
SPECIFICATION EitherSpec
SYMMETRY InstallSymmetry
INVARIANTS OwnedUnlessDisturbed SpendSafe
PROPERTIES NothingLost LedgerKept
CHECK_DEADLOCK FALSE
