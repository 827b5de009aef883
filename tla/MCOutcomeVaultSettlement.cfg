\* Two holders with unequal shares of the two sides redeem, in any order, from a
\* pool that fees left short, after repeated pulls and the owner's clearOutbound.
CONSTANTS
  WeiPerUnit = 10
  Granule = 10
  MergeFeeBps = 95
  Values = {0, 1, 2}
  One = 3
  StrayWei = 20
  MaxStrays = 0
  MaxDrops = 0
  MaxLost = 0
  MaxOps = 1
  Users = {alice, bob}
  NoUser = NoUser
  Owners = {house}
  Keepers = {keeper}
  Verifiers = {v1}
  Amounts = {70, 130, 200}
  Relayed = {3}
  MaxClears = 1
  MaxPulls = 2
  Gift = 1
  MaxGifts = 1
SPECIFICATION Spec
PROPERTIES PoolStaysCovered
CHECK_DEADLOCK FALSE
