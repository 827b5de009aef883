\* A tick that lasts longer than the grace: other tickets' receipts, failing scans.
CONSTANTS
  a = a
  b = b
  ann = ann
  bob = bob
  QuoteCount = 2
  Vaults = {a, b}
  Legs <- QuoteLegs
  Risk <- QuoteRisk
  User <- QuoteUser
  Clusters <- Cluster
  VaultCaps = {2}
  ClusterCap = 3
  UserCap = 3
  Outcomes <- LosingOutcomes
  Bankroll = 4
  Ttl = 1
  Grace = 2
  Lag = 0
  PollDelay = 3
  MaxTime = 4
  MaxMishaps = 0
SPECIFICATION Spec
INVARIANTS LateMintsStayCounted
CHECK_DEADLOCK FALSE
