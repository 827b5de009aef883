SPECIFICATION Spec
CONSTANTS
  Tickets = {1, 2}
  PageSize = 1
  Lag = 1
  MaxReceipts = 1
  Loads = 2
INVARIANT PaidIsNeverOffered
CHECK_DEADLOCK FALSE
