SPECIFICATION Spec
CONSTANTS
  Indicators <- MCOne
  Threshold = 2
  MaxChunk = 2
  MaxFailures = 0
  MaxReviews = 2
  MaxAlerts = 1
  MaxPending = 3
INVARIANT AlertmanagerAgreesOnResolution
CHECK_DEADLOCK FALSE
