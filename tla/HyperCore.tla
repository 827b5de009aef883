----------------------------- MODULE HyperCore -----------------------------
(***************************************************************************)
(* HyperCore as an OutcomeVault meets it: the vault's Core account, the    *)
(* outcome its splits buy, and what CoreWriter queued.  Nothing a contract *)
(* sends takes effect in its own transaction: transfers, outcome actions   *)
(* and sends back to the EVM each land later, and an action Core cannot    *)
(* carry out disappears without a trace (CoreSim.sol, CoreConstants.sol).  *)
(***************************************************************************)
EXTENDS Integers, Sequences

CONSTANTS
  WeiPerUnit,    \* Core quote wei in one EVM quote unit
  Granule,       \* EVM quote units in one outcome wei
  MergeFeeBps,   \* what a merge and a settlement lose, in basis points
  Values,        \* fractions an outcome may settle to, in 0 .. One
  One,           \* the fraction 1.0
  StrayWei,      \* what anyone may send to the vault's Core account at once
  MaxStrays,     \* bound on such sends
  MaxDrops,      \* bound on actions Core drops although it could apply them
  MaxLost,       \* bound on EVM-to-Core transfers that are never credited
  MaxOps         \* bound on the vault's operations

ASSUME CoreAssumption ==
  /\ WeiPerUnit \in Nat \ {0}
  /\ Granule \in Nat \ {0}
  /\ MergeFeeBps \in 0 .. 10000
  /\ One \in Nat \ {0}
  /\ Values \subseteq 0 .. One
  /\ StrayWei \in Nat
  /\ MaxStrays \in Nat
  /\ MaxDrops \in Nat
  /\ MaxLost \in Nat
  /\ MaxOps \in Nat

VARIABLES
  coreWei,      \* quote balance of the vault's Core account
  collateral,   \* quote wei locked in outstanding splits
  inbound,      \* quote wei on its way from the EVM
  ops,          \* queued outcome actions
  sends,        \* queued spotSends, in quote wei
  result,       \* result[op]: "queued", or what Core did with it
  coreStatus,   \* 0x814: "active", "settled", or "pruned"
  coreValue,    \* the settled value
  bal,          \* EVM quote balance of the vault
  strays, drops, lost \* counts, for the bounds

market == <<coreStatus, coreValue>>
bounds == <<strays, drops, lost>>
core == <<coreWei, collateral, inbound, ops, sends, result, market, bal, bounds>>

OutcomeOp == [kind : {"split", "merge"}, opId : 1 .. MaxOps, wei : Nat]

CoreTypeOK ==
  /\ coreWei \in Nat
  /\ collateral \in Nat
  /\ inbound \in Nat
  /\ ops \in Seq(OutcomeOp)
  /\ sends \in Seq(Nat)
  /\ result \in [1 .. MaxOps -> {"none", "queued", "executed", "rejected"}]
  /\ coreStatus \in {"active", "settled", "pruned"}
  /\ coreValue \in Values
  /\ bal \in Nat
  /\ strays \in 0 .. MaxStrays
  /\ drops \in 0 .. MaxDrops
  /\ lost \in 0 .. MaxLost

CoreInit ==
  /\ coreWei = 0
  /\ collateral = 0
  /\ inbound = 0
  /\ ops = << >>
  /\ sends = << >>
  /\ result = [op \in 1 .. MaxOps |-> "none"]
  /\ coreStatus = "active"
  /\ coreValue \in Values
  /\ bal = 0
  /\ strays = 0
  /\ drops = 0
  /\ lost = 0

-----------------------------------------------------------------------------
\* The EVM-to-Core leg of the deposits lands.
CreditTransfers ==
  /\ inbound > 0
  /\ coreWei' = coreWei + inbound
  /\ inbound' = 0
  /\ UNCHANGED <<collateral, ops, sends, result, market, bal, bounds>>

LoseTransfers ==
  /\ lost < MaxLost
  /\ lost' = lost + 1
  /\ inbound > 0
  /\ inbound' = 0
  /\ UNCHANGED <<coreWei, collateral, ops, sends, result, market, bal, strays, drops>>

\* Outcome wei carry no cents below Granule: the collateral they move.
QuoteWeiFor(outcomeWei) == outcomeWei * Granule * WeiPerUnit
AfterFee(wei) == wei - (wei * MergeFeeBps) \div 10000

Finish(op, r) ==
  /\ ops' = Tail(ops)
  /\ result' = [result EXCEPT ![op] = r]

ApplySplit ==
  /\ ops # << >>
  /\ Head(ops).kind = "split"
  /\ IF coreStatus = "active" /\ coreWei >= QuoteWeiFor(Head(ops).wei)
       THEN /\ coreWei' = coreWei - QuoteWeiFor(Head(ops).wei)
            /\ collateral' = collateral + QuoteWeiFor(Head(ops).wei)
            /\ Finish(Head(ops).opId, "executed")
       ELSE /\ Finish(Head(ops).opId, "rejected")
            /\ UNCHANGED <<coreWei, collateral>>
  /\ UNCHANGED <<inbound, sends, market, bal, bounds>>

ApplyMerge ==
  /\ ops # << >>
  /\ Head(ops).kind = "merge"
  /\ IF coreStatus = "active" /\ collateral >= QuoteWeiFor(Head(ops).wei)
       THEN /\ coreWei' = coreWei + AfterFee(QuoteWeiFor(Head(ops).wei))
            /\ collateral' = collateral - QuoteWeiFor(Head(ops).wei)
            /\ Finish(Head(ops).opId, "executed")
       ELSE /\ Finish(Head(ops).opId, "rejected")
            /\ UNCHANGED <<coreWei, collateral>>
  /\ UNCHANGED <<inbound, sends, market, bal, bounds>>

\* A send Core cannot cover, or that is no whole number of EVM units, is dropped.
ApplySend ==
  /\ sends # << >>
  /\ sends' = Tail(sends)
  /\ IF coreWei >= Head(sends) /\ Head(sends) % WeiPerUnit = 0
       THEN /\ coreWei' = coreWei - Head(sends)
            /\ bal' = bal + Head(sends) \div WeiPerUnit
       ELSE UNCHANGED <<coreWei, bal>>
  /\ UNCHANGED <<collateral, inbound, ops, result, market, bounds>>

DropOp ==
  /\ ops # << >>
  /\ drops < MaxDrops
  /\ drops' = drops + 1
  /\ Finish(Head(ops).opId, "rejected")
  /\ UNCHANGED <<coreWei, collateral, inbound, sends, market, bal, strays, lost>>

DropSend ==
  /\ sends # << >>
  /\ drops < MaxDrops
  /\ drops' = drops + 1
  /\ sends' = Tail(sends)
  /\ UNCHANGED <<coreWei, collateral, inbound, ops, result, market, bal, strays, lost>>

\* Anyone can spotSend to the vault's Core account.
CreditStray ==
  /\ strays < MaxStrays
  /\ strays' = strays + 1
  /\ coreWei' = coreWei + StrayWei
  /\ UNCHANGED <<collateral, inbound, ops, sends, result, market, bal, drops, lost>>

\* The outcome settles; its value can be read until Core prunes it.
SettleOutcome ==
  /\ coreStatus = "active"
  /\ coreStatus' = "settled"
  /\ UNCHANGED <<coreWei, collateral, inbound, ops, sends, result, coreValue, bal,
                  bounds>>

PruneOutcome ==
  /\ coreStatus = "settled"
  /\ coreStatus' = "pruned"
  /\ UNCHANGED <<coreWei, collateral, inbound, ops, sends, result, coreValue, bal,
                  bounds>>

\* The vault holds both sides of every split, so they settle to their collateral.
CreditSettlement ==
  /\ coreStatus # "active"
  /\ collateral > 0
  /\ coreWei' = coreWei + AfterFee(collateral)
  /\ collateral' = 0
  /\ UNCHANGED <<inbound, ops, sends, result, market, bal, bounds>>

CoreNext ==
  \/ CreditTransfers \/ LoseTransfers
  \/ ApplySplit \/ ApplyMerge \/ DropOp
  \/ ApplySend \/ DropSend
  \/ CreditStray
  \/ SettleOutcome \/ PruneOutcome \/ CreditSettlement
=============================================================================
