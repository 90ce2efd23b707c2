CONSTANTS
  Scale = 2
  Claims = {c1}
  RawIds <- MCRawIds
  MaxItems = 3
  EvidenceMax = 2
  Settings <- MCSettings
  Reviews <- MCReviews
SPECIFICATION ClaimSpec
INVARIANTS NoteAloneIsNoAuto
