SPECIFICATION Spec
CONSTANTS MaxEvents = 3 MaxSide = 1 Keep = 1 MaxMockRetries = 1
INVARIANTS RunningRecordHasRun LogsTellOutcome
PROPERTIES BadgeGoesOut
CHECK_DEADLOCK FALSE
