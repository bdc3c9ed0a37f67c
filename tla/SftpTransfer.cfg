CONSTANTS
  Transfers = {t1, t2}
  FileChunks = 2
  Pids = {p1, p2}
  Foreign = Foreign
  None = None
  MaxSequence = 2
  MaxRestarts = 1
SPECIFICATION SftpSpec
INVARIANTS
  TemporaryIsOwn
  PublishedIsWhole
  SucceededIsThere
  NoLeftovers
PROPERTIES
  UploadKeepsForeign
CHECK_DEADLOCK FALSE
