\* One crash or fault, mints at the deadline, quotes that compete for markets and
\* their cluster, tickets that die and tickets that go void.
CONSTANTS
  a = a
  b = b
  ann = ann
  bob = bob
  QuoteCount = 3
  Vaults = {a, b}
  Legs <- QuoteLegs
  Risk <- QuoteRisk
  User <- QuoteUser
  Clusters <- Cluster
  VaultCaps = {2}
  ClusterCap = 3
  UserCap = 3
  Outcomes <- VaultOutcomes
  Bankroll = 3
  Ttl = 0
  Grace = 3
  Lag = 1
  PollDelay = 1
  MaxTime = 2
  MaxMishaps = 1
SPECIFICATION FairSpec
INVARIANTS CapsHold MintsStayCounted
PROPERTIES LosersResolve ExposureReturns
CHECK_DEADLOCK FALSE
