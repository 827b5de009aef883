\* A split and a merge, a restart, a keeper clock as far behind as it may be, and
\* one act of the verifier's owner.
CONSTANTS
  Accounts = {bot, house}
  Bot = bot
  OpKeys = {1, 2}
  Delays = {1, 2}
  FirstDelay = 1
  Wei = {1}
  Skew = 1
  Margin = 1
  MaxAge = 2
  Timeout = 2
  HistoryLimit = 2
  CoreLatency = 1
  ReadLatency = 1
  ReceiptWait = 2
  MaxTime = 5
  MaxOps = 2
  MaxRestarts = 1
  MaxChanges = 1
SPECIFICATION Spec
INVARIANTS AttestationsTrue ConfidentIsPreOp
PROPERTIES ImplementsVerifier
CHECK_DEADLOCK FALSE
