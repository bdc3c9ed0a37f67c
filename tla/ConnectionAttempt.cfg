CONSTANTS
  Windows = {main, other}
  AttemptIds = {a1, a2}
  Invocations = {h1, h2}
  FirstWindow = main
  FirstId = a1
  FirstInvocation = h1
  None = None
SPECIFICATION FairAttemptSpec
CONSTRAINT FirstIsNamed
INVARIANTS
  AttemptsAreProgressing
  OutcomeIsShown
PROPERTIES
  CancelStopsConnecting
  RefusedOnlyAfterClear
  ImplementsOutcome
  CancelledEnds
  EndsOrAwaitsChannel
CHECK_DEADLOCK FALSE
