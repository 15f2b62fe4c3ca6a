SPECIFICATION Spec
CONSTANTS
  MaxWindow = 1
  Workers <- MCWorkers
INVARIANT PersistedIsNotRetried
CHECK_DEADLOCK FALSE
