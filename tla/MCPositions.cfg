SPECIFICATION Spec
CONSTANTS
  Tickets = {1, 2}
  PageSize = 1
  Lag = 1
  MaxReceipts = 2
  Loads = 2
INVARIANTS PaidIsNotOffered GapIsCovered
CHECK_DEADLOCK FALSE
