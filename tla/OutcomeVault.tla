---------------------------- MODULE OutcomeVault ----------------------------
(***************************************************************************)
(* OutcomeVault.sol on HyperCore: USDC goes in, an oYES/oNO pair comes out *)
(* once Core has split it, and back.  A deposit or a redeem queues its     *)
(* Core action and waits in its one slot for a verdict of the execution    *)
(* verifier; payouts are promised (owed) when their spotSend is queued and *)
(* paid when it has landed.  After settlement either token is redeemed     *)
(* from what was swept back from Core.                                     *)
(*                                                                         *)
(* One action is one transaction.  Verdicts are true: a keeper attests     *)
(* what Core did.  That a verdict shows only after a delay, or not while   *)
(* its verifier is paused, is a claim not yet made (ExecutionVerifier).    *)
(***************************************************************************)
EXTENDS HyperCore, FiniteSets

CONSTANTS
  Users,          \* depositors and token holders
  NoUser,         \* the zero address
  Owners,         \* accounts that may own the vault
  Keepers,        \* accounts the owner may make the vault's keeper
  Verifiers,      \* IExecutionVerifier contracts the owner may install
  Amounts,        \* quote units a call may name
  Relayed,        \* fractions the keeper may relay once Core pruned the outcome
  MaxClears,      \* bound on the owner's clearOutbound calls
  MaxPulls,       \* bound on pullSettledFunds calls
  Gift,           \* quote units someone may send to the vault's EVM address
  MaxGifts        \* bound on such gifts

ASSUME VaultAssumption ==
  /\ NoUser \notin Users /\ IsFiniteSet(Users)
  /\ Amounts \subseteq Nat
  /\ Relayed \subseteq Nat
  /\ MaxClears \in Nat
  /\ MaxPulls \in Nat
  /\ Gift \in Nat
  /\ MaxGifts \in Nat

PayoutMinBps == 9900

VARIABLES
  owner, keeper, verifier,
  verdict,             \* verdict[v][op], "Pending" until v's keeper attests
  pendingDeposit, pendingRedeem,
  owed, totalOwed, nextOpId,
  settled, settleFraction,
  outboundTarget, outboundWei, outboundExpectedEvm, totalPaidOutEvm, swept,
  oYes, oNo,           \* balances of each user
  yesSupply, noSupply,
  clears, pulls, gifts \* counts, for the bounds

roles == <<owner, keeper, verifier>>
slots == <<pendingDeposit, pendingRedeem, nextOpId>>
debts == <<owed, totalOwed>>
trackers == <<outboundTarget, outboundWei, outboundExpectedEvm>>
tokens == <<oYes, oNo, yesSupply, noSupply>>
final == <<settled, settleFraction>>
counts == <<clears, pulls, gifts>>
vars == <<core, roles, verdict, slots, debts, final, trackers, totalPaidOutEvm, swept,
          tokens, counts>>

NoDeposit == [user |-> NoUser, amount |-> 0, opId |-> 0, quoteCoreBefore |-> 0]
NoRedeem == [user |-> NoUser, amount |-> 0, opId |-> 0]
PendingDeposit == [user : Users, amount : Nat, opId : 1 .. MaxOps, quoteCoreBefore : Nat]
PendingRedeem == [user : Users, amount : Nat, opId : 1 .. MaxOps]

TypeOK ==
  /\ CoreTypeOK
  /\ owner \in Owners
  /\ keeper \in Keepers
  /\ verifier \in Verifiers
  /\ verdict \in [Verifiers -> [1 .. MaxOps -> {"Pending", "Executed", "Failed"}]]
  /\ pendingDeposit \in PendingDeposit \union {NoDeposit}
  /\ pendingRedeem \in PendingRedeem \union {NoRedeem}
  /\ owed \in [Users -> Nat]
  /\ totalOwed \in Nat
  /\ nextOpId \in 0 .. MaxOps
  /\ settled \in BOOLEAN
  /\ settleFraction \in 0 .. One
  /\ outboundTarget \in Nat
  /\ outboundWei \in Nat
  /\ outboundExpectedEvm \in Nat
  /\ totalPaidOutEvm \in Nat
  /\ swept \in BOOLEAN
  /\ oYes \in [Users -> Nat]
  /\ oNo \in [Users -> Nat]
  /\ yesSupply \in Nat
  /\ noSupply \in Nat
  /\ clears \in 0 .. MaxClears
  /\ pulls \in 0 .. MaxPulls
  /\ gifts \in 0 .. MaxGifts

Init ==
  /\ CoreInit
  /\ owner \in Owners
  /\ keeper \in Keepers
  /\ verifier \in Verifiers
  /\ verdict = [v \in Verifiers |-> [op \in 1 .. MaxOps |-> "Pending"]]
  /\ pendingDeposit = NoDeposit
  /\ pendingRedeem = NoRedeem
  /\ owed = [u \in Users |-> 0]
  /\ totalOwed = 0
  /\ nextOpId = 0
  /\ settled = FALSE
  /\ settleFraction = 0
  /\ outboundTarget = 0
  /\ outboundWei = 0
  /\ outboundExpectedEvm = 0
  /\ totalPaidOutEvm = 0
  /\ swept = FALSE
  /\ oYes = [u \in Users |-> 0]
  /\ oNo = [u \in Users |-> 0]
  /\ yesSupply = 0
  /\ noSupply = 0
  /\ clears = 0
  /\ pulls = 0
  /\ gifts = 0

-----------------------------------------------------------------------------
(***************************************************************************)
(* Environment of the vault: Core, the keeper's verdicts, transfers.       *)
(***************************************************************************)
CoreStep ==
  /\ CoreNext
  /\ UNCHANGED <<roles, verdict, slots, debts, final, trackers, totalPaidOutEvm,
                  swept, tokens, counts>>

\* A keeper attests, once per verifier, what Core did with an operation.
Attest(v, op) ==
  /\ verdict[v][op] = "Pending"
  /\ \/ result[op] = "executed" /\ verdict' = [verdict EXCEPT ![v][op] = "Executed"]
     \/ result[op] = "rejected" /\ verdict' = [verdict EXCEPT ![v][op] = "Failed"]
  /\ UNCHANGED <<core, roles, slots, debts, final, trackers, totalPaidOutEvm, swept,
                  tokens, counts>>

\* n units of a token pass from one holder to another, who may be the same.
Moved(f, from, to, n) == [[f EXCEPT ![from] = @ - n] EXCEPT ![to] = @ + n]

TransferYes(from, to, n) ==
  /\ oYes[from] >= n
  /\ oYes' = Moved(oYes, from, to, n)
  /\ UNCHANGED <<core, roles, verdict, slots, debts, final, trackers, totalPaidOutEvm,
                  swept, oNo, yesSupply, noSupply, counts>>

TransferNo(from, to, n) ==
  /\ oNo[from] >= n
  /\ oNo' = Moved(oNo, from, to, n)
  /\ UNCHANGED <<core, roles, verdict, slots, debts, final, trackers, totalPaidOutEvm,
                  swept, oYes, yesSupply, noSupply, counts>>

Donate ==
  /\ gifts < MaxGifts
  /\ gifts' = gifts + 1
  /\ bal' = bal + Gift
  /\ UNCHANGED <<coreWei, collateral, inbound, ops, sends, result, market, bounds,
                  roles, verdict, slots, debts, final, trackers, totalPaidOutEvm,
                  swept, tokens, clears, pulls>>

-----------------------------------------------------------------------------
(***************************************************************************)
(* Owner.                                                                  *)
(***************************************************************************)
SetVerifier(caller, v) ==
  /\ caller = owner
  /\ verifier' = v
  /\ UNCHANGED <<core, owner, keeper, verdict, slots, debts, final, trackers,
                  totalPaidOutEvm, swept, tokens, counts>>

SetKeeper(caller, k) ==
  /\ caller = owner
  /\ keeper' = k
  /\ UNCHANGED <<core, owner, verifier, verdict, slots, debts, final, trackers,
                  totalPaidOutEvm, swept, tokens, counts>>

SetOwner(caller, o) ==
  /\ caller = owner
  /\ owner' = o
  /\ UNCHANGED <<core, keeper, verifier, verdict, slots, debts, final, trackers,
                  totalPaidOutEvm, swept, tokens, counts>>

\* Both trackers restart from what is here now.
ClearOutbound(caller) ==
  /\ caller = owner
  /\ clears < MaxClears
  /\ clears' = clears + 1
  /\ outboundWei' = 0
  /\ outboundExpectedEvm' = bal + totalPaidOutEvm
  /\ swept' = (swept \/ settled)
  /\ UNCHANGED <<core, roles, verdict, slots, debts, final, outboundTarget,
                  totalPaidOutEvm, tokens, pulls, gifts>>

-----------------------------------------------------------------------------
(***************************************************************************)
(* Conversions and the outbound trackers.                                  *)
(***************************************************************************)
Smaller(a, b) == IF a <= b THEN a ELSE b
Less(a, b) == IF a > b THEN a - b ELSE 0   \* subtraction that stops at 0

\* An amount of EVM units that outcome wei can express; other amounts revert as
\* DUST.  Mutant: they are truncated.
Truncatable(n) == n >= Granule
Expressible(n) == n > 0 /\ n % Granule = 0
OutcomeWei(n) == n \div Granule

CoreUnits == coreWei \div WeiPerUnit
Unlanded == Less(outboundExpectedEvm, bal + totalPaidOutEvm)
Unreserved == Less(bal, totalOwed)
Obligation == (yesSupply * settleFraction + noSupply * (One - settleFraction)) \div One

Idle == pendingDeposit = NoDeposit /\ pendingRedeem = NoRedeem

\* Mutant: deposits do not wait for outbound sends.
NoDwell == TRUE
OutboundLanded == outboundWei = 0 \/ coreWei <= outboundTarget

\* _spotSendOut: queue a send of n units and track it on both sides.  Mutant: the
\* EVM side is not told what to expect.
UntrackedSend(n) ==
  /\ outboundWei' = outboundWei + n * WeiPerUnit
  /\ outboundTarget' = Less(coreWei, outboundWei + n * WeiPerUnit)
  /\ sends' = Append(sends, n * WeiPerUnit)
  /\ UNCHANGED outboundExpectedEvm
SpotSendOut(n) ==
  /\ outboundExpectedEvm' = outboundExpectedEvm + n
  /\ outboundWei' = outboundWei + n * WeiPerUnit
  /\ outboundTarget' = Less(coreWei, outboundWei + n * WeiPerUnit)
  /\ sends' = Append(sends, n * WeiPerUnit)

\* _payOut credits what Core can still send.  Mutant: it forgets that Core's
\* balance is partly promised to sends that have not landed.
CoreCredit(n) == Smaller(n, CoreUnits)
Credit(n) == Smaller(n, Less(CoreUnits, Unlanded))

PayOut(user, n) ==
  /\ Credit(n) * 10000 >= n * PayoutMinBps
  /\ Credit(n) > 0
  /\ owed' = [owed EXCEPT ![user] = @ + Credit(n)]
  /\ totalOwed' = totalOwed + Credit(n)
  /\ SpotSendOut(Credit(n))

MintPair(user, n) ==
  /\ oYes' = [oYes EXCEPT ![user] = @ + n]
  /\ oNo' = [oNo EXCEPT ![user] = @ + n]
  /\ yesSupply' = yesSupply + n
  /\ noSupply' = noSupply + n

-----------------------------------------------------------------------------
(***************************************************************************)
(* Deposits.                                                               *)
(***************************************************************************)
Deposit(user, n) ==
  /\ ~settled
  /\ Idle
  /\ OutboundLanded
  /\ Expressible(n)
  /\ nextOpId < MaxOps
  /\ nextOpId' = nextOpId + 1
  /\ outboundWei' = 0
  /\ pendingDeposit' = [user |-> user, amount |-> n, opId |-> nextOpId + 1,
                        quoteCoreBefore |-> coreWei]
  /\ inbound' = inbound + n * WeiPerUnit
  /\ ops' = Append(ops, [kind |-> "split", opId |-> nextOpId + 1, wei |-> OutcomeWei(n)])
  /\ result' = [result EXCEPT ![nextOpId + 1] = "queued"]
  /\ UNCHANGED <<coreWei, collateral, sends, market, bal, bounds, roles, verdict,
                  pendingRedeem, debts, final, outboundTarget, outboundExpectedEvm,
                  totalPaidOutEvm, swept, tokens, counts>>

StatusOf(op) == verdict[verifier][op]

ClaimDeposit ==
  /\ pendingDeposit # NoDeposit
  /\ StatusOf(pendingDeposit.opId) = "Executed"
  /\ pendingDeposit' = NoDeposit
  /\ MintPair(pendingDeposit.user, pendingDeposit.amount)
  /\ UNCHANGED <<core, roles, verdict, pendingRedeem, nextOpId, debts, final,
                  trackers, totalPaidOutEvm, swept, counts>>

CreditArrived ==
  coreWei >= pendingDeposit.quoteCoreBefore + pendingDeposit.amount * WeiPerUnit

CancelDeposit ==
  /\ pendingDeposit # NoDeposit
  /\ StatusOf(pendingDeposit.opId) = "Failed"
  /\ CreditArrived
  /\ pendingDeposit' = NoDeposit
  /\ PayOut(pendingDeposit.user, pendingDeposit.amount)
  /\ UNCHANGED <<coreWei, collateral, inbound, ops, result, market, bal, bounds,
                  roles, verdict, pendingRedeem, nextOpId, final, totalPaidOutEvm,
                  swept, tokens, counts>>

-----------------------------------------------------------------------------
(***************************************************************************)
(* Redeems before settlement: a pair goes back into a merge.               *)
(***************************************************************************)
RequestRedeem(user, n) ==
  /\ ~settled
  /\ Idle
  /\ Expressible(n)
  /\ oYes[user] >= n
  /\ oNo[user] >= n
  /\ nextOpId < MaxOps
  /\ nextOpId' = nextOpId + 1
  /\ oYes' = [oYes EXCEPT ![user] = @ - n]
  /\ oNo' = [oNo EXCEPT ![user] = @ - n]
  /\ yesSupply' = yesSupply - n
  /\ noSupply' = noSupply - n
  /\ pendingRedeem' = [user |-> user, amount |-> n, opId |-> nextOpId + 1]
  /\ ops' = Append(ops, [kind |-> "merge", opId |-> nextOpId + 1, wei |-> OutcomeWei(n)])
  /\ result' = [result EXCEPT ![nextOpId + 1] = "queued"]
  /\ UNCHANGED <<coreWei, collateral, inbound, sends, market, bal, bounds, roles,
                  verdict, pendingDeposit, debts, final, trackers, totalPaidOutEvm,
                  swept, counts>>

ClaimRedeem ==
  /\ pendingRedeem # NoRedeem
  /\ StatusOf(pendingRedeem.opId) = "Executed"
  /\ pendingRedeem' = NoRedeem
  /\ PayOut(pendingRedeem.user, pendingRedeem.amount)
  /\ UNCHANGED <<coreWei, collateral, inbound, ops, result, market, bal, bounds,
                  roles, verdict, pendingDeposit, nextOpId, final, totalPaidOutEvm,
                  swept, tokens, counts>>

CancelRedeem ==
  /\ pendingRedeem # NoRedeem
  /\ StatusOf(pendingRedeem.opId) = "Failed"
  /\ pendingRedeem' = NoRedeem
  /\ MintPair(pendingRedeem.user, pendingRedeem.amount)
  /\ UNCHANGED <<core, roles, verdict, pendingDeposit, nextOpId, debts, final,
                  trackers, totalPaidOutEvm, swept, counts>>

\* Quote leaves the vault's EVM balance for a user.  Mutant: whatever is there.
Overdraw(n) ==
  /\ bal' = bal - n
  /\ totalPaidOutEvm' = totalPaidOutEvm + n
PayFromBalance(n) ==
  /\ bal >= n
  /\ bal' = bal - n
  /\ totalPaidOutEvm' = totalPaidOutEvm + n

Withdraw(user) ==
  /\ owed[user] > 0
  /\ owed' = [owed EXCEPT ![user] = 0]
  /\ totalOwed' = totalOwed - owed[user]
  /\ PayFromBalance(owed[user])
  /\ UNCHANGED <<coreWei, collateral, inbound, ops, sends, result, market, bounds,
                  roles, verdict, slots, final, trackers, swept, tokens, counts>>

-----------------------------------------------------------------------------
(***************************************************************************)
(* Settlement.                                                             *)
(***************************************************************************)
\* At "settled" anyone settles with Core's value; once Core pruned it the keeper
\* names the fraction.
Settle(caller, f) ==
  /\ ~settled
  /\ Idle
  /\ \/ coreStatus = "settled" /\ settleFraction' = coreValue
     \/ coreStatus = "pruned" /\ caller = keeper /\ settleFraction' = f
  /\ settleFraction' <= One
  /\ settled' = TRUE
  /\ UNCHANGED <<core, roles, verdict, slots, debts, trackers, totalPaidOutEvm, swept,
                  tokens, counts>>

PullSettledFunds ==
  /\ settled
  /\ CoreUnits > 0
  /\ pulls < MaxPulls
  /\ pulls' = pulls + 1
  /\ swept' = TRUE
  /\ SpotSendOut(CoreUnits)
  /\ UNCHANGED <<coreWei, collateral, inbound, ops, result, market, bal, bounds,
                  roles, verdict, slots, debts, final, totalPaidOutEvm, tokens, clears,
                  gifts>>

\* Pro rata when the pool is short.  Mutant: in full, as long as the pool lasts.
FullPayout(entitled) == Smaller(entitled, Unreserved)
ProRata(entitled) ==
  IF Obligation > Unreserved THEN (entitled * Unreserved) \div Obligation ELSE entitled

PoolCovers == Unreserved * 10000 >= Obligation * PayoutMinBps

RedeemSettled(n, fraction) ==
  /\ settled
  /\ swept /\ Unlanded = 0
  /\ PoolCovers
  /\ LET payout == ProRata((n * fraction) \div One)
     IN  payout > 0 /\ PayFromBalance(payout)
  /\ UNCHANGED <<coreWei, collateral, inbound, ops, sends, result, market, bounds,
                  roles, verdict, slots, debts, final, trackers, swept, counts>>

RedeemYes(user, n) ==
  /\ oYes[user] >= n
  /\ oYes' = [oYes EXCEPT ![user] = @ - n]
  /\ yesSupply' = yesSupply - n
  /\ UNCHANGED <<oNo, noSupply>>
  /\ RedeemSettled(n, settleFraction)

RedeemNo(user, n) ==
  /\ oNo[user] >= n
  /\ oNo' = [oNo EXCEPT ![user] = @ - n]
  /\ noSupply' = noSupply - n
  /\ UNCHANGED <<oYes, yesSupply>>
  /\ RedeemSettled(n, One - settleFraction)

-----------------------------------------------------------------------------
Next ==
  \/ CoreStep
  \/ \E v \in Verifiers, op \in 1 .. MaxOps : Attest(v, op)
  \/ Donate
  \/ \E caller \in Owners :
       \/ \E v \in Verifiers : SetVerifier(caller, v)
       \/ \E k \in Keepers : SetKeeper(caller, k)
       \/ \E o \in Owners : SetOwner(caller, o)
       \/ ClearOutbound(caller)
  \/ \E user \in Users, n \in Amounts :
       \/ Deposit(user, n)
       \/ RequestRedeem(user, n)
       \/ RedeemYes(user, n)
       \/ RedeemNo(user, n)
       \/ \E to \in Users : TransferYes(user, to, n) \/ TransferNo(user, to, n)
  \/ ClaimDeposit \/ CancelDeposit
  \/ ClaimRedeem \/ CancelRedeem
  \/ \E user \in Users : Withdraw(user)
  \/ \E caller \in Keepers, f \in Relayed : Settle(caller, f)
  \/ PullSettledFunds

Spec == Init /\ [][Next]_vars

-----------------------------------------------------------------------------
(***************************************************************************)
(* Safety.                                                                 *)
(***************************************************************************)
SplitUnclaimed ==
  IF pendingDeposit # NoDeposit /\ result[pendingDeposit.opId] = "executed"
  THEN pendingDeposit.amount ELSE 0
MergeUndone ==
  IF pendingRedeem # NoRedeem /\ result[pendingRedeem.opId] # "executed"
  THEN pendingRedeem.amount ELSE 0

\* Until settlement every oYES has its oNO, and while the outcome trades Core
\* holds exactly the collateral of the pairs, of the splits not yet claimed and
\* of the redeems not yet merged (claimDeposit and cancelRedeem mint, and
\* requestRedeem burns, at other times than Core moves the collateral).
PairsBacked ==
  ~settled =>
    /\ yesSupply = noSupply
    /\ coreStatus = "active" =>
         collateral = (yesSupply + SplitUnclaimed + MergeUndone) * WeiPerUnit

\* What the queued sends will deliver, in quote units, if Core applies them now.
Land(account, wei) ==
  IF account.wei >= wei
  THEN [wei |-> account.wei - wei, units |-> account.units + wei \div WeiPerUnit]
  ELSE account
Landed(wei, queue) ==
  LET after[i \in 0 .. Len(queue)] ==
        IF i = 0 THEN [wei |-> wei, units |-> 0] ELSE Land(after[i - 1], queue[i])
  IN after[Len(queue)]
Arriving == Landed(coreWei, sends).units

\* What withdraw() owes is on the EVM side or in a send Core will carry out; a
\* payout is never promised from quote that another send, another user's
\* collateral or the settlement needs (_payOut, "Credits only what was actually
\* sent").
OwedCovered == drops = 0 /\ gifts = 0 /\ clears = 0 => totalOwed <= bal + Arriving

\* The same with gifts ("a donation is quote actually here, so nothing
\* uncoverable is credited", _unlandedEvm).
NothingUncoverableCredited == drops = 0 => totalOwed <= bal + Arriving

\* Quote still in the air is counted as unlanded, except for what gifts to the
\* vault's address make up for: redeemSettled never starts on a pool of which a
\* part is still to come ("a pool still in the air would haircut the last ones").
SendsTracked == clears = 0 => Arriving <= Unlanded + gifts * Gift

\* What is owed can be paid, and what is in the air is known to be.
PayoutsCovered == TypeOK /\ OwedCovered /\ SendsTracked

\* A deposit whose split was rejected can prove its credit once the credit has
\* landed: its baseline was not taken over an outbound send that was still to
\* debit Core (the dwell of _requireOutboundLanded).  A gift can hide a send, so
\* that more is promised than Core holds and the dwell ends, at a balance of 0,
\* before the last send has landed.
DepositRecoverable ==
  /\ clears = 0
  /\ gifts = 0
  /\ pendingDeposit # NoDeposit
  /\ result[pendingDeposit.opId] = "rejected"
  /\ inbound = 0
  /\ lost = 0
  => CreditArrived

\* Once the settlement pool covers what the outstanding tokens are entitled to,
\* up to the fee tolerance, nothing that happens afterwards leaves it short for
\* the rest: no order of redemptions makes the last holders pay for the first.
PoolStaysCovered == [][settled /\ PoolCovers => PoolCovers']_vars

-----------------------------------------------------------------------------
(***************************************************************************)
(* Fairness: Core works its queues, the keeper of each verifier attests    *)
(* what it sees, and the user whose operation fills the slot ends it.      *)
(***************************************************************************)
FairSpec ==
  /\ Spec
  /\ WF_vars(CoreStep /\ CreditTransfers)
  /\ WF_vars(CoreStep /\ ApplySplit)
  /\ WF_vars(CoreStep /\ ApplyMerge)
  /\ \A v \in Verifiers, op \in 1 .. MaxOps : WF_vars(Attest(v, op))
  /\ WF_vars(ClaimDeposit)
  /\ WF_vars(CancelDeposit)
  /\ WF_vars(ClaimRedeem)
  /\ WF_vars(CancelRedeem)

\* Every operation ends, unless Core never credits what a deposit sent there: the
\* slot it occupies, which blocks every other deposit, redeem and the settlement,
\* becomes free again.
SlotsClear ==
  /\ pendingDeposit # NoDeposit ~> pendingDeposit = NoDeposit \/ lost > 0
  /\ pendingRedeem # NoRedeem ~> pendingRedeem = NoRedeem

\* A deposit attested Failed is refunded (DEPLOY.md, M1: a verifier that attests
\* the op Failed "refunds the EVM-side principal").
FailedDepositRefunded ==
  (pendingDeposit # NoDeposit /\ StatusOf(pendingDeposit.opId) = "Failed")
    ~> pendingDeposit = NoDeposit
=============================================================================
