SPECIFICATION WorkSpec
CONSTANTS
  Capacity = 1
  MaxLines = 2
  MaxIterations = 2
  MaxRetries = 1
  MaxCalls = 2
  MaxScreens = 2
  PagePlans <- MCPagePlans
  FilePlans <- MCFilePlans
  Sections = {"problem", "users", "features"}
  Permits = 1
  MaxMockRetries = 1
  MaxBuildFixes = 2
  Connection = {c1, c2}
  Project = {p1}
  Asker = {r1, r2}
  None = None
  Global = Global
  ModelAnswers <- MCModelAnswers
  MaxChunk = 3
  Bead = {b1, b2}
  Summary = Summary
  Graph = Graph
  Approval = Approval
  User = User
  MaxRequests = 1
  Observed = {o1, o2, o3}
  Run = Run
  BatchSize = 2
  Room = 1
  CheckPlans <- MCCheckPlans
INVARIANTS WorkTypeOK AnswerIsWhole CallsAnswered ResultIsComplete AssignmentsResolve ShownIsSaved BeadDiffHasItsWork EveryBeadIsAnalysed
PROPERTY WorkEnds
CHECK_DEADLOCK FALSE
