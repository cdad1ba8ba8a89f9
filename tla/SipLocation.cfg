CONSTANTS
  Scenarios <- MCScenarios
  MaxSeq = 3
  MaxNonces = 3
  MaxFaults = 2
  MaxAttempts = 2
  MaxTries = 1
  Retry403 = FALSE
  AlwaysReject = TRUE
SPECIFICATION Spec
INVARIANTS RegistryGoesOn NonceOnce StoredIsBound
PROPERTIES SilenceNoticed
CHECK_DEADLOCK FALSE
