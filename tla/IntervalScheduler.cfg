SPECIFICATION MCSpec
CONSTANTS
  Ids = {c1, c2}
  Intervals = {2, 3, 4}
  LastEnds = {1}
  MaxAttempt = 3
  Backoff <- DefaultPolicy
  StartTime = 5
  MaxTime = 11
  Second = c2
  Short = 2
  SharedTime = 6
  None = None
  c1 = c1
  c2 = c2
INVARIANTS TypeOK WindowsContiguous WindowsRealign LatestUpdateWins InFlightMatchesGoroutines TimerCoversEarliest RemovedStaysRemoved StopLeavesNothingRunning
PROPERTIES ImplementsContiguousWindows RetriesBackOff DueIsDispatched InvocationsAreHandedIn
CHECK_DEADLOCK FALSE
