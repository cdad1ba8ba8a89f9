SPECIFICATION FairSpec
CONSTANTS
  u1 = u1
  u2 = u2
  a1 = a1
  a2 = a2
  UUIDs = {u1, u2}
  Adders = {a1, a2}
  Length = 1
  Ticks <- SomeTicks
  Leaving = {u2}
  MaxRounds <- SomeRounds
PROPERTIES PoolServes OthersServed
CHECK_DEADLOCK FALSE
