CONSTANTS
  Worker = {w1, w2}
  Lengths <- MCLengths
  ChunkSize = 2
  MaxDownload = 6
  Mirrors = 2
  RangeStalls = 3
  FileStalls = 5
SPECIFICATION FairDownloadSpec
INVARIANTS
  Whole
  CauseIsReported
  NothingLeft
PROPERTIES
  Ends
