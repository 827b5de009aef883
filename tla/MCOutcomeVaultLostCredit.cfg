\* A deposit whose EVM-to-Core transfer is never credited.
CONSTANTS
  WeiPerUnit = 10
  Granule = 10
  MergeFeeBps = 0
  Values = {1}
  One = 2
  StrayWei = 500
  MaxStrays = 0
  MaxDrops = 0
  MaxLost = 1
  MaxOps = 1
  Users = {alice}
  NoUser = NoUser
  Owners = {house}
  Keepers = {keeper}
  Verifiers = {v1, v2}
  Amounts = {100}
  Relayed = {1}
  MaxClears = 1
  MaxPulls = 1
  Gift = 100
  MaxGifts = 0
SPECIFICATION FairSpec
PROPERTIES FailedDepositRefunded
CHECK_DEADLOCK FALSE
