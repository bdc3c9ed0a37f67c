CONSTANTS
  Transfers = {t1, t2}
  FileChunks = 2
  Pids = {p1, p2}
  Foreign = Foreign
  None = None
  MaxSequence = 2
  MaxRestarts = 1
SPECIFICATION SftpSpec
PROPERTY DownloadKeepsForeign
CHECK_DEADLOCK FALSE
