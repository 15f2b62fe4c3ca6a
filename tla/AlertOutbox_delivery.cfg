SPECIFICATION FairSpec
CONSTANTS
  Indicators <- MCOne
  Threshold = 2
  MaxChunk = 2
  MaxFailures = 0
  MaxReviews = 2
  MaxAlerts = 1
  MaxPending = 3
INVARIANTS ResolvedFormsAreWithdrawn NoFiringWaitsAfterResolution
PROPERTIES FiringReachesAlertmanager OutboxDrains
CHECK_DEADLOCK FALSE
