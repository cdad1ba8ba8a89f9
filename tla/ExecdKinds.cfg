SPECIFICATION FairSpec
CONSTANTS
  Topics = {"a", "b"}
  Kinds <- OfAnyKind
  MaxLen <- OneAndTwo
  Batch = 2
  FirstOffset = 0
  StopAt <- NoStop
  HookStart = TRUE
  Silent = FALSE
  Defer = TRUE
  HasTest = TRUE
  HasWorkers = TRUE
  MaxFaults = 1
PROPERTY EveryMessageHandled
CHECK_DEADLOCK FALSE
