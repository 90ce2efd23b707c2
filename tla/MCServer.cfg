SPECIFICATION Spec
CONSTANTS
  NRequests = 2
  Configs <- MCConfigs
  SetupConfigs <- MCSetupConfigs
  MetricsInterval = 2
  BindAttempts = 4
  BindBudget = 3
  InboxBound = 1
INVARIANTS
  SpansCountExits
  NothingOutlives
  GatesHold
PROPERTIES
  ServerStops
  ImplementsLedger
