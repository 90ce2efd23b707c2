CONSTANTS
  Calls = {c1, c2}
  NFiles = 2
  Fanout = 1
  MaxInflight = 1
  Kinds = {"review", "gate", "judge"}
  Actions = {"auto", "review"}
SPECIFICATION LiveSpec
INVARIANTS CallsContained ReplyEarned
PROPERTIES EveryCallReturns
