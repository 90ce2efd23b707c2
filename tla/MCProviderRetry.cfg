CONSTANTS
  MaxAttempts = 3
  PerAttempt = 3
  BackoffInitial = 1
  BackoffMax = 3
  Jitter = 50
  Budget = 10
  Timeouts = {NoTimeout, 2, 5, 8, 12}
  NoTimeout = NoTimeout
  Hints = {NoHint, 0, 2, 5}
  NoHint = NoHint
  Lag = 1
  Confs <- MCConfs
  Aliases = {"typesafe", "jev", "jev-1", "jev-1.13", "jev-latest"}
  Replies <- MCReplies
  MaxHops = 1
SPECIFICATION XSpec
INVARIANTS RetrySafe ExchangeHonest
PROPERTIES EvaluateEnds ImplementsRetry
CHECK_DEADLOCK FALSE
