\* Deposits and redeems that stack payouts, with fees, drops, gifts and strays.
CONSTANTS
  WeiPerUnit = 10
  Granule = 10
  MergeFeeBps = 95
  Values = {1}
  One = 2
  StrayWei = 500
  MaxStrays = 1
  MaxDrops = 1
  MaxLost = 1
  MaxOps = 3
  Users = {alice}
  NoUser = NoUser
  Owners = {house}
  Keepers = {keeper}
  Verifiers = {v1}
  Amounts = {100, 205}
  Relayed = {1}
  MaxClears = 0
  MaxPulls = 2
  Gift = 100
  MaxGifts = 1
SPECIFICATION FairSpec
INVARIANTS PairsBacked PayoutsCovered DepositRecoverable
PROPERTIES SlotsClear
CHECK_DEADLOCK FALSE
