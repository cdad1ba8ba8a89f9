SPECIFICATION Spec
CONSTANTS
  Scenarios <- SomeCalls
  CallLimit = 1
  MaxAuthTries = 1
  MaxPackets = 3
INVARIANTS Counted CancelAfterProgress
PROPERTIES ByeWaits DialogEnds
CHECK_DEADLOCK FALSE
