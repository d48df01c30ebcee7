SPECIFICATION PairedSpec
CONSTANTS
  l1 = l1
  l2 = l2
  zero = zero
  NoFile = NoFile
  InvoiceIds = {1}
  Logs <- WatchedLogs
  Value <- WatchedValue
  Requests = {2}
  MaxAttempts = 1
  MaxHead = 4
  MaxForks = 1
  MaxDepth = 1
  Lag = 1
  MaxBlocks = 2
  MaxBatch = 1
  MaxLate = 1
INVARIANTS
  WatchTypeOK
  WInv
  CheckpointCovers
  RecordsAreFinal
PROPERTIES
  PostsAreIngests
  StableTransfersRecorded
