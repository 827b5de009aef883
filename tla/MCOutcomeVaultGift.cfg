\* A gift to the vault while a payout is in the air.
CONSTANTS
  WeiPerUnit = 10
  Granule = 10
  MergeFeeBps = 95
  Values = {1}
  One = 2
  StrayWei = 500
  MaxStrays = 0
  MaxDrops = 0
  MaxLost = 0
  MaxOps = 3
  Users = {alice}
  NoUser = NoUser
  Owners = {house}
  Keepers = {keeper}
  Verifiers = {v1}
  Amounts = {100, 200, 205}
  Relayed = {1}
  MaxClears = 0
  MaxPulls = 2
  Gift = 100
  MaxGifts = 1
SPECIFICATION Spec
INVARIANTS NothingUncoverableCredited
CHECK_DEADLOCK FALSE
