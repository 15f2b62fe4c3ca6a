SPECIFICATION MCSpec
CONSTANTS
  Requests = {1, 2}
  Configs = {raw, plain}
  Rendered <- MCRendered
  Goroutines = {1, 2}
  MaxRevision = 3
  MaxFailures = 2
  QueueCapacity = 1
  Faults = TRUE
  None = None
  raw = raw
  plain = plain
INVARIANTS TypeOK ScheduleFollowsRow
PROPERTIES ImplementsServiceRegister InactiveComesToRest
CHECK_DEADLOCK FALSE
VIEW View
