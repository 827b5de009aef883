\* Every interleaving of mints, transfers, settlements, resolutions and claims of
\* two tickets, with the roles, the floor and the registry changing in between.
CONSTANTS
  house = house
  alice = alice
  key = key
  key2 = key2
  l1 = l1
  l2 = l2
  NoAccount = NoAccount
  Accounts = {house, alice}
  Signers = {key, key2}
  Legs = {l1, l2}
  Quotes <- SignedQuotes
  InitialUsdc <- Usdc
  Owners = {house}
  Registrars = {alice}
  Writers = {house, alice}
  Floors = {0, 4000}
  Approvals <- Allowances
  MaxTime = 1
  Donor = alice
  MaxGifts = 1
SPECIFICATION FairSpec
INVARIANTS EscrowPartition VerdictsMatchLegs BalancesFollowEvents
PROPERTIES KeepsEscrows UnwinnableEscrowReturns
CHECK_DEADLOCK FALSE
