CONSTANTS
  k1 = k1
  k2 = k2
  p1 = p1
  Key <- MCKey
  Project <- MCProject
  ProjectOf <- MCProjectOf
  Client = {c1}
  Watcher = {w1}
  NoKey = NoKey
  Headroom = 1
  MaxRuns = 3
  MaxEvents = 2
SPECIFICATION MCSpec
INVARIANTS TypeOK LiveRunReachable SubscribersOpen NoLostWakeup
PROPERTIES KeepsPromise CancelAllReachesEveryRun CancelEndsStreams
CHECK_DEADLOCK FALSE
