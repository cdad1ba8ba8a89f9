SPECIFICATION MembersSpec
CONSTANTS
  stat = stat  rt = rt  if1 = if1  if2 = if2
  Static = {stat}
  Realtime = {rt}
  Ifaces = {if1, if2}
  RowOrder <- MCOrder
  Penalties = {0}
  RoundRobin = {stat}
  Files <- MCFiles
  Persistent = TRUE
  NegativeInvalid = TRUE
  MaxChanges = 3
  MaxPos = 2
INVARIANTS DynamicStored
PROPERTIES NextKept
CHECK_DEADLOCK FALSE
