CONSTANTS
  Windows = {main}
  Invocations = {h1}
  None = None
  QueueCapacity = 1
  Confirmations = {c1}
  FirstConfirmation = c1
SPECIFICATION LifecycleSpec
PROPERTIES
  ExitWaitsForTerminals
CHECK_DEADLOCK FALSE
