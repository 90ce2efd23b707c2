CONSTANTS
  Ids = {i1, i2}
  Tools = {ta, tb}
  MaxLines = 2
  MaxFaults = 2
  RequestCap = 1
  Recorders = {"ab", "bench"}
SPECIFICATION RelaySpec
CONSTRAINT FirstFixed
INVARIANTS LogHonest
PROPERTIES RelayEnds
CHECK_DEADLOCK FALSE
