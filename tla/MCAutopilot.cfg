CONSTANTS
  Project = {p1}
  r1 = r1
  r2 = r2
  Request <- MCRequest
  MaxDrivers = 2
SPECIFICATION MCSpec
INVARIANT OneDriverUntilCancel
PROPERTIES OffStartsNothing OnIsDriven ShutdownStopsDrivers
CHECK_DEADLOCK FALSE
