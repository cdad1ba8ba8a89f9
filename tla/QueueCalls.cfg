SPECIFICATION FairSpec
CONSTANTS
  Callers = {"c1", "c2", "c3"}
  Members = {"m1", "m2", "m3"}
  NoMember = NoMember
  Order <- MemberOrder
  Settings <- Queues
INVARIANT PriorityOrder
INVARIANT OneCallPerMember
INVARIANT NothingRings
PROPERTY ExpiredLeaves
PROPERTY RulesTakeEffect
CHECK_DEADLOCK FALSE
