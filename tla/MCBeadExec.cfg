CONSTANTS
  t1 = t1
  t2 = t2
  c1 = c1
  Plan <- MCPlan
  Epic <- MCEpic
  PlanDeps <- MCPlanDeps
  Spare = {c1}
  Workers = {w1, w2}
  Requests = {q1}
  MaxParallel = 2
  MaxReviewIterations = 2
  MaxValidationRetries = 2
  Validates = TRUE
  MaxArrivals = 2
  MaxEvents = 2
SPECIFICATION MCSpec
INVARIANTS TypeOK SlotsHaveOwners OneAgentUnlessReopened InProgressIsKnown
PROPERTIES RunEnds
CHECK_DEADLOCK FALSE
