SPECIFICATION QuietSerialSpec
CONSTANTS
  l1 = l1
  l2 = l2
  NoLog = NoLog
  InvoiceIds = {1}
  Logs <- TwoLogs
  Value <- SameValue
  Requests = {2}
  MaxAttempts = 1
  MaxHead = 2
  MaxForks = 1
  MaxDepth = 2
  ConfirmationThreshold = 1
  Lag = 1
  ReorgSafetyDepth = 2
  RescueCap = 0
  CrosscheckBatch = 2
  MaxRounds = 2
PROPERTY ConfirmedNoticeIsCurrent
