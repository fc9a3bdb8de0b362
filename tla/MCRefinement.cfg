CONSTANTS
  Question = {q1, q2}
  Item = {i1}
  Starter = {s1, s2}
  Second = s2
  NoState = NoState
  MaxIterations = 2
  AnswerBuffer = 1
  MaxLoops = 2
  MaxGenerations = 2
  MaxEvents = 1
SPECIFICATION MCSpec
INVARIANTS TypeOK AnswersReachDocument AnswersFitTheirQuestion SettledItemsStaySettled
PROPERTIES StopEndsInteractiveLoop AutonomousLoopEnds
CHECK_DEADLOCK FALSE
