SPECIFICATION Spec
CONSTANTS
  Scenarios <- SomeSessions
  Caps <- SomeCaps
  Encrypt = FALSE
INVARIANTS SessionAgreed
PROPERTIES OfferAnswered SilenceEnds
CHECK_DEADLOCK FALSE
