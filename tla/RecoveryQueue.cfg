SPECIFICATION MCSpec
CONSTANTS
  MaxWindow = 2
  Workers <- MCWorkers
INVARIANTS NoWindowLost OneWorkerInCharge
PROPERTIES BacklogIsSettled CollectionAlertEnds WorkersReturn
CHECK_DEADLOCK FALSE
