SPECIFICATION Spec
CONSTANTS
  hourly = hourly
  imported = imported
  end1 = end1
  end2 = end2
  end3 = end3
  chunk1 = chunk1
  Backend = "sqlite"
  Publishers <- MCPublishers
  Intervals <- MCIntervals
  Chunks <- MCChunks
  Required = 1
  Retained = 2
  MaxGeneration = 3
  MaxJobs = 2
INVARIANT PublishedForActiveGeneration
SYMMETRY MCSymmetry
CHECK_DEADLOCK FALSE
