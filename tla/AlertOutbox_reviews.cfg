SPECIFICATION Spec
CONSTANTS
  Indicators <- MCOne
  Threshold = 2
  MaxChunk = 2
  MaxFailures = 1
  MaxReviews = 2
  MaxAlerts = 2
  MaxPending = 2
INVARIANTS TypeOK ReviewsDecideResolution AnomalyCountsChunks
CHECK_DEADLOCK FALSE
