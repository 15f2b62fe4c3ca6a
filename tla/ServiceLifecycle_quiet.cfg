SPECIFICATION MCSpec
CONSTANTS
  Requests = {1}
  Configs = {plain}
  Rendered <- MCRendered
  Goroutines = {1}
  MaxRevision = 2
  MaxFailures = 0
  QueueCapacity = 1
  Faults = FALSE
  None = None
  raw = raw
  plain = plain
INVARIANT InactiveIsQuiet
CHECK_DEADLOCK FALSE
