\* The receipt of an attestation is late and reads fail until the next operation.
CONSTANTS
  Accounts = {bot, house}
  Bot = bot
  OpKeys = {1, 2}
  Delays = {2}
  FirstDelay = 2
  Wei = {1}
  Skew = 1
  Margin = 1
  MaxAge = 2
  Timeout = 2
  HistoryLimit = 2
  CoreLatency = 1
  ReadLatency = 1
  ReceiptWait = 1
  MaxTime = 5
  MaxOps = 2
  MaxRestarts = 0
  MaxChanges = 0
SPECIFICATION Spec
PROPERTIES DiscardedLogsAreDuplicates
CHECK_DEADLOCK FALSE
