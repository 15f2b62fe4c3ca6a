SPECIFICATION Spec
CONSTANTS
  Ids = {c1}
  Intervals = {2}
  LastEnds = {}
  MaxAttempt = 1
  Backoff <- DefaultPolicy
  StartTime = 2
  MaxTime = 4
  Second = c2
  Short = 2
  SharedTime = 4
  None = None
  c1 = c1
  c2 = c2
INVARIANT AcceptedAddIsKept
CHECK_DEADLOCK FALSE
