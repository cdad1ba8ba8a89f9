SPECIFICATION Spec
CONSTANTS
  Subscriptions <- Watches
  Transfers <- Calling
  Castings <- Forking
  Services <- Completing
INVARIANT StateShown
INVARIANT OutcomeTrue
INVARIANT ByeFirst
INVARIANT MergedOnce
PROPERTY ForgottenEnds
PROPERTY ReferTold
PROPERTY LegsEnd
PROPERTY StrayEnds
PROPERTY CompletionEnds
CHECK_DEADLOCK FALSE
