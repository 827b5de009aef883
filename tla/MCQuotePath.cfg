SPECIFICATION Spec
CONSTANTS
  WAD = 100
  BPS = 20
  Markets = {"win", "score", "draw"}
  Game <- Games
  Question <- Questions
  Expires <- Expiries
  Books <- Ladders
  Odds = {20, 30, 50, 95}
  Stakes = {0, 3, 7, 8}
  MaxStake = 7
  MinLegs = 2
  MaxLegs = 2
  EdgeBps = 2
  LegBps = 1
  MinPremiumBps = 2
  MinDepth = 2
  Width = 60
  Lockout = 3
  SpotStale = 1
  Ttl = 1
  Limit = 2
  Window = 2
  MaxLatency = 1
  MaxTime = 5
  MaxRequests = 4
INVARIANTS SoundTerms QuoteEndsBeforeExpiry RateHeld
CHECK_DEADLOCK FALSE
