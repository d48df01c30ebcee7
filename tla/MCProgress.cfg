SPECIFICATION FairSpec
CONSTANTS
  l1 = l1
  l2 = l2
  NoLog = NoLog
  InvoiceIds = {1}
  Logs = {l1}
  Value <- OneValue
  Requests = {2}
  MaxAttempts = 1
  MaxHead = 2
  MaxForks = 0
  MaxDepth = 2
  ConfirmationThreshold = 1
  Lag = 1
  ReorgSafetyDepth = 2
  RescueCap = 1
  CrosscheckBatch = 2
  MaxRounds = 2
PROPERTIES
  EveryEventDecided
  DeepPaymentsConfirm
  UnnotifiedIsRescued
