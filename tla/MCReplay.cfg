SPECIFICATION HastySpec
CONSTANTS
  l1 = l1
  l2 = l2
  c1 = c1
  c2 = c2
  k1 = k1
  NoKey = NoKey
  NoLog = NoLog
  InvoiceIds = {1, 2}
  Logs <- TwoLogs
  Value <- TenUnits
  Requests = {1, 8, 9}
  Amounts <- AskedFor
  Clients = {c1, c2}
  Keys = {k1}
  Places = 2
  Precision = 4
  MaxExcess = 5
  MaxAttempts = 1
  MaxHead = 1
  MaxForks = 0
  MaxDepth = 1
  ConfirmationThreshold = 1
  Lag = 1
  ReorgSafetyDepth = 2
  RescueCap = 0
  CrosscheckBatch = 2
  MaxRounds = 1
INVARIANT OneInvoicePerKey
