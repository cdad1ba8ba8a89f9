SPECIFICATION FairSpec
CONSTANTS
  w1 = w1
  w2 = w2
  Workers = {w1, w2}
  HasTest = TRUE
  HookStop = TRUE
  ForkFails = TRUE
  ZeroTimeouts = TRUE
  LoopPanics = TRUE
  MaxFaults = 3
INVARIANT WaitCoversUncounted
PROPERTY ShutdownOfStartedEnds
CHECK_DEADLOCK FALSE
