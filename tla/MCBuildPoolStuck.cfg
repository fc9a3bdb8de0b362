CONSTANTS
  w1 = w1
  w2 = w2
  w3 = w3
  l1 = l1
  l2 = l2
  Worker <- MCWorker
  Loop <- MCLoop
  LoopOf <- MCLoopOf
  Config <- MCConfig
  MaxReconfigs = 1
  MaxDegrades = 0
SPECIFICATION Spec
PROPERTY AcquireGetsASlot
CHECK_DEADLOCK FALSE
