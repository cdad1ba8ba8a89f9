SPECIFICATION FairSpec
CONSTANTS
  u1 = u1
  u2 = u2
  Sessions = {u1, u2}
  RingSize = 2
  RRL_THRESHOLD = 1
  RRL_FACTOR = 2
  MaxFrames = 4
  MaxFaults = 1
INVARIANT BufferIsOwn
INVARIANT ReportsConsistent
PROPERTY ReaderGoesOn
CHECK_DEADLOCK FALSE
