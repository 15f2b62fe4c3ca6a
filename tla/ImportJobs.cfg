SPECIFICATION MCSpec
CONSTANTS
  Capacity = 1
  Servers = {s1, s2}
  Windows = 2
  Timeout = 3
  MaxLost = 1
  MaxTime = 4
  None = None
  First = s1
  s1 = s1
  s2 = s2
INVARIANTS TypeOK LiveImportIsNotInterrupted StaleImportIsInterrupted CompleteImportIsWhole HistoryOvertakesOnce
PROPERTIES FinishedStaysFinished ImportEnds
CHECK_DEADLOCK FALSE
