CONSTANTS
  Windows = {main}
  Invocations = {h1}
  None = None
  QueueCapacity = 1
  Confirmations = {c1, c2}
  FirstConfirmation = c1
SPECIFICATION FairLifecycleSpec
INVARIANTS
  RegisteredIsAuthorized
  ReleasedIsForgotten
  ClosedIsClosed
  HeldIsAlive
PROPERTIES
  NotShutUnderOperation
  KeepsExitPromise
  CloseReturns
  UnregisteredIsReleased
CONSTRAINT FirstIsConfirmed
CHECK_DEADLOCK FALSE
