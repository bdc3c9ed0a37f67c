CONSTANTS
  DataKeys = {k1, k2, k3}
  None = None
  MaxVersion = 2
  MaxRestarts = 2
SPECIFICATION DatabaseSpec
INVARIANTS
  DatabaseTypeOK
  DatabaseKeepsKey
  RefusalIsExplained
PROPERTIES
  FileOnlyGrows
SYMMETRY KeySymmetry
CHECK_DEADLOCK FALSE
