CONSTANTS
  Project = {p1}
  r1 = r1
  r2 = r2
  Request <- MCRequest
  MaxDrivers = 3
SPECIFICATION MCSpec
INVARIANT OneDriver
CHECK_DEADLOCK FALSE
