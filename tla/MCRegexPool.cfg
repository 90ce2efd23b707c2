CONSTANTS
  Requests = {r1, r2}
  Slots = {s1, s2}
  NoSlot = NoSlot
  Size = 1
  QueueBound = 1
SPECIFICATION Spec
INVARIANTS PoolSafe OutcomeHonest
PROPERTIES EveryFindReturns WorkersEnd
CHECK_DEADLOCK FALSE
