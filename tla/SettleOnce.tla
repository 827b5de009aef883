----------------------------- MODULE SettleOnce -----------------------------
(***************************************************************************)
(* What the settlement path promises a parlay: a market settles once, to   *)
(* the fraction Core settled it to, first on its vault and then, where one *)
(* mirrors it on Elysium, on its leg; and neither ever changes again.      *)
(***************************************************************************)
CONSTANTS
  Vaults,
  Mirrored,  \* the vaults an Elysium leg mirrors
  Final,     \* Final[v]: the fraction Core settles v's outcome to
  None

VARIABLES vaultFraction, legFraction

Init ==
  /\ vaultFraction = [v \in Vaults |-> None]
  /\ legFraction = [v \in Mirrored |-> None]

SettleVault(v) ==
  /\ vaultFraction[v] = None
  /\ vaultFraction' = [vaultFraction EXCEPT ![v] = Final[v]]
  /\ UNCHANGED legFraction

SettleLeg(v) ==
  /\ vaultFraction[v] # None
  /\ legFraction[v] = None
  /\ legFraction' = [legFraction EXCEPT ![v] = vaultFraction[v]]
  /\ UNCHANGED vaultFraction

Next == (\E v \in Vaults : SettleVault(v)) \/ (\E v \in Mirrored : SettleLeg(v))

Spec == Init /\ [][Next]_<<vaultFraction, legFraction>>
=============================================================================
