SPECIFICATION Spec
CONSTANTS
  Topics = {"a", "b"}
  Kinds <- Commands
  MaxLen <- TwoEach
  Batch = 2
  FirstOffset <- Oldest
  StopAt <- StopAll
  HookStart = TRUE
  Silent = FALSE
  Defer = FALSE
  HasTest = FALSE
  HasWorkers = TRUE
  MaxFaults = 2
INVARIANT NothingSkipped
INVARIANT PositionSurvives
INVARIANT ReplayBounded
PROPERTY AtLeastOnceSpec
CHECK_DEADLOCK FALSE
