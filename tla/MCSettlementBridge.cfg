\* A crash and one more mishap at any moment, an operation in the way of settle(),
\* another settler and a relay of any vault to the only leg.
CONSTANTS
  a = a
  b = b
  low = low
  high = high
  None = None
  Vaults = {a, b}
  VaultOrder <- Order
  Mirrored = {a}
  Final <- Fractions
  Hold = 1
  MaxCrashes = 1
  MaxMishaps = 1
  MaxFills = 1
  MaxRelays = 1
  MaxPending = 1
  MaxTickets = 1
SPECIFICATION FairSpec
PROPERTIES ImplementsSettleOnce DiskKeepsFractions PersistedFractionSettles LegsFollow
CHECK_DEADLOCK FALSE
