SPECIFICATION Spec
CONSTANTS
  hourly = hourly
  imported = imported
  end1 = end1
  end2 = end2
  end3 = end3
  chunk1 = chunk1
  Backend = "postgres"
  Publishers <- MCPublishers
  Intervals <- MCIntervals
  Chunks <- MCChunks
  Required = 1
  Retained = 2
  MaxGeneration = 3
  MaxJobs = 2
INVARIANTS TypeOK OneVersionPerInterval ReadinessCountsWhatIsBuilt HistoricalVerdictsKeepGeneration
PROPERTIES ImplementsPublishedReferences
SYMMETRY MCSymmetry
CHECK_DEADLOCK FALSE
