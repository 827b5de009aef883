SPECIFICATION PriorFairSpec
CONSTANTS
  Nfl = {"game"}
  Soccer = {"home", "draw"}
  Lists <- OneOrTheOther
  Registry <- Priors
  WAD = 10
  Mids = {3, 7}
  Jump = 2
  Suspend = 2
  Stale = 1
  FailRetry = 1
  PmRetry = 2
  MaxFaults = 1
INVARIANTS PricesSound
PROPERTIES ListedGamesSampled
