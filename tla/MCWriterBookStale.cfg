\* Caps that do not bind; the wallet funds one of the two quotes.
CONSTANTS
  a = a
  b = b
  ann = ann
  bob = bob
  QuoteCount = 2
  Vaults = {a, b}
  Legs <- ApartLegs
  Risk <- ApartRisk
  User <- QuoteUser
  Clusters <- Cluster
  VaultCaps = {4}
  ClusterCap = 4
  UserCap = 4
  Outcomes <- LosingOutcomes
  Bankroll = 3
  Ttl = 1
  Grace = 2
  Lag = 0
  PollDelay = 1
  MaxTime = 3
  MaxMishaps = 0
SPECIFICATION Spec
INVARIANTS ReservedIsFunded
CHECK_DEADLOCK FALSE
