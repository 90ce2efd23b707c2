CONSTANTS
  e1 = e1
  e2 = e2
  b1 = b1
  Asks = {a1, a2}
  Requests <- TwoRequests
  Temps = {f1, f2}
  NoFile = NoFile
  NoTemp = NoTemp
  TTL = 1
  Cap = 1
  MaxWall = 2
  Ids = {TRUE}
  Scale = 2
  Claims = {c1}
  RawIds <- MCRawIds
  MaxItems = 3
  EvidenceMax = 2
  Settings <- MCSettings
  Reviews <- MCReviews
SPECIFICATION EitherSpec
SYMMETRY CacheSymmetry
INVARIANTS ReplaysHonest DirectoryBounded IdsAreUnique AutoEarned
