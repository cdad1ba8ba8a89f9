SPECIFICATION Spec
CONSTANTS
  r1 = r1
  r2 = r2
  Runs = {r1, r2}
  Groups = {"g1", "g2"}
  XGroups = {"x"}
  OldDirs = {"d1"}
  Versions <- TwoVersions
  SameSource = TRUE
  MaxStarts = 3
  MaxFaults = 2
INVARIANT KeptIfAnswered
CHECK_DEADLOCK FALSE
