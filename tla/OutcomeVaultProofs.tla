------------------------- MODULE OutcomeVaultProofs -------------------------
(***************************************************************************)
(* Theorems about OutcomeVault for any users, verifiers, amounts, fees and *)
(* bounds, in every schedule of Core and of the keepers.                   *)
(***************************************************************************)
EXTENDS OutcomeVault, FiniteSetTheorems, SequenceTheorems, WellFoundedInduction, TLAPS

(***************************************************************************)
(* Sums over the users: f adds up to total when running sums, taken along  *)
(* some enumeration of the users, end there.                               *)
(***************************************************************************)
Enumerates(e, n) ==
  /\ e \in [1 .. n -> Users]
  /\ \A u \in Users : \E i \in 1 .. n : e[i] = u
  /\ \A i, j \in 1 .. n : e[i] = e[j] => i = j

RunningSums(c, f, e, n) ==
  /\ c \in [0 .. n -> Nat]
  /\ c[0] = 0
  /\ \A i \in 1 .. n : c[i] = c[i - 1] + f[e[i]]
  /\ \A i, j \in 0 .. n : i <= j => c[i] <= c[j]

SumsTo(f, total) ==
  \E n \in Nat : \E e \in [1 .. n -> Users], c \in [0 .. n -> Nat] :
    Enumerates(e, n) /\ RunningSums(c, f, e, n) /\ c[n] = total

\* g is f but for u's entry, which is k more.
MovesAt(f, g, u, k) ==
  /\ f \in [Users -> Nat]
  /\ g \in [Users -> Nat]
  /\ k \in Int
  /\ \A v \in Users : g[v] = IF v = u THEN f[u] + k ELSE f[v]

\* Nobody holds anything: the sum is 0.
LEMMA SumOfNothing == SumsTo([u \in Users |-> 0], 0)
<1>1. IsFiniteSet(Users)
  BY VaultAssumption
<1>2. PICK n \in Nat : ExistsBijection(1 .. n, Users)
  BY <1>1, FS_NatBijection
<1>3. PICK e : e \in Bijection(1 .. n, Users)
  BY <1>2 DEF ExistsBijection
<1>4. Enumerates(e, n)
  BY <1>3 DEF Bijection, Injection, Surjection, IsInjective, Enumerates
<1> DEFINE c == [i \in 0 .. n |-> 0]
           f == [u \in Users |-> 0]
<1>5. RunningSums(c, f, e, n) /\ c[n] = 0
  BY <1>4 DEF RunningSums, Enumerates
<1>6. e \in [1 .. n -> Users] /\ c \in [0 .. n -> Nat]
  BY <1>4 DEF Enumerates
<1> HIDE DEF c, f
<1>7. SumsTo(f, 0)
  BY <1>4, <1>5, <1>6, Zenon DEF SumsTo
<1> QED
  BY <1>7 DEF f

\* One user's entry is part of the sum, and when it moves by k, so does the sum.
LEMMA SumMoves ==
  ASSUME NEW f, NEW g, NEW total, NEW u \in Users, NEW k,
         SumsTo(f, total), MovesAt(f, g, u, k)
  PROVE  /\ total \in Nat /\ f[u] <= total /\ total + k \in Nat
         /\ SumsTo(g, total + k)
<1> USE DEF MovesAt
<1>0. PICK n \in Nat :
        \E e \in [1 .. n -> Users], c \in [0 .. n -> Nat] :
          Enumerates(e, n) /\ RunningSums(c, f, e, n) /\ c[n] = total
  BY DEF SumsTo
<1>1. PICK e \in [1 .. n -> Users], c \in [0 .. n -> Nat] :
        Enumerates(e, n) /\ RunningSums(c, f, e, n) /\ c[n] = total
  BY <1>0
<1>2. PICK j \in 1 .. n : e[j] = u
  BY <1>1 DEF Enumerates
<1>3. /\ \A i \in 1 .. n : c[i] = c[i - 1] + f[e[i]]
      /\ \A i, l \in 0 .. n : i <= l => c[i] <= c[l]
      /\ c[0] = 0
  BY <1>1 DEF RunningSums
<1>4. \A i \in 1 .. n : e[i] = u => i = j
  BY <1>1, <1>2 DEF Enumerates
<1>5. c[j] = c[j - 1] + f[u] /\ c[j] <= c[n] /\ f[u] \in Nat /\ c[j - 1] \in Nat
      /\ f[u] + k \in Nat
  BY <1>2, <1>3
<1>6. total \in Nat /\ f[u] <= total /\ total + k \in Nat
  BY SMTT(40), <1>1, <1>5
<1> DEFINE d == [i \in 0 .. n |-> IF i < j THEN c[i] ELSE c[i] + k]
<1>7. \A i \in 0 .. n : /\ i < j => d[i] = c[i]
                        /\ i >= j => d[i] = c[i] + k
  OBVIOUS
<1>8. \A i \in 0 .. n : i >= j => c[i] >= c[j - 1] + f[u]
  BY <1>3, <1>5
<1>9. d \in [0 .. n -> Nat]
  <2>1. \A i \in 0 .. n : d[i] \in Nat
    <3> TAKE i \in 0 .. n
    <3>1. CASE i < j
      BY <3>1, <1>7
    <3>2. CASE i >= j
      <4>1. c[i] >= c[j - 1] + f[u] /\ c[i] \in Nat
        BY <3>2, <1>8
      <4> QED
        BY SMTT(40), <3>2, <4>1, <1>5, <1>7
    <3> QED
      BY <3>1, <3>2
  <2> QED
    BY <2>1
<1> HIDE DEF d
<1>10. \A i \in 1 .. n : g[e[i]] = IF i = j THEN f[u] + k ELSE f[e[i]]
  BY <1>2, <1>4
<1>11. \A i \in 1 .. n : d[i] = d[i - 1] + g[e[i]]
  <2> TAKE i \in 1 .. n
  <2>1. c[i] \in Nat /\ c[i - 1] \in Nat /\ f[e[i]] \in Nat /\ i - 1 \in 0 .. n
    OBVIOUS
  <2>2. c[i] = c[i - 1] + f[e[i]]
    BY <1>3
  <2>3. CASE i = j
    BY SMTT(40), <2>1, <2>2, <2>3, <1>2, <1>7, <1>10
  <2>4. CASE i < j
    BY SMTT(40), <2>1, <2>2, <2>4, <1>7, <1>10
  <2>5. CASE i > j
    BY SMTT(40), <2>1, <2>2, <2>5, <1>7, <1>10
  <2> QED
    BY <2>3, <2>4, <2>5
<1>12. \A i, l \in 0 .. n : i <= l => d[i] <= d[l]
  <2> SUFFICES ASSUME NEW i \in 0 .. n, NEW l \in 0 .. n, i <= l
               PROVE  d[i] <= d[l]
    OBVIOUS
  <2>1. c[i] \in Nat /\ c[l] \in Nat /\ c[i] <= c[l]
    BY <1>3
  <2>2. CASE l < j \/ i >= j
    BY SMTT(40), <2>1, <2>2, <1>7
  <2>3. CASE i < j /\ l >= j
    <3>1. c[i] <= c[j - 1] /\ c[l] >= c[j - 1] + f[u]
      BY SMTT(40), <2>3, <1>3, <1>8
    <3>2. d[i] = c[i] /\ d[l] = c[l] + k
      BY <2>3, <1>7
    <3> QED
      BY SMTT(40), <2>1, <3>1, <3>2, <1>5
  <2> QED
    BY <2>2, <2>3
<1>13. d[0] = 0 /\ d[n] = total + k
  BY SMTT(40), <1>1, <1>3, <1>7
<1>14. RunningSums(d, g, e, n)
  BY <1>9, <1>11, <1>12, <1>13 DEF RunningSums
<1>15. SumsTo(g, total + k)
  BY <1>1, <1>9, <1>13, <1>14 DEF SumsTo
<1> QED
  BY <1>6, <1>15

\* One user's entry is part of the sum.
LEMMA PartOfSum ==
  ASSUME NEW f \in [Users -> Nat], NEW total, NEW u \in Users, SumsTo(f, total)
  PROVE  total \in Nat /\ f[u] <= total
<1>1. MovesAt(f, f, u, 0)
  BY DEF MovesAt
<1> QED
  BY <1>1, SumMoves

\* What one user hands to another leaves the sum as it is.
LEMMA SumKept ==
  ASSUME NEW f \in [Users -> Nat], NEW total, NEW from \in Users, NEW to \in Users,
         NEW n \in Nat, SumsTo(f, total), f[from] >= n
  PROVE  /\ Moved(f, from, to, n) \in [Users -> Nat]
         /\ SumsTo(Moved(f, from, to, n), total)
<1> DEFINE g == [f EXCEPT ![from] = @ - n]
           h == [g EXCEPT ![to] = @ + n]
<1>1. g \in [Users -> Nat]
  OBVIOUS
<1>2. PICK k \in Int : k = 0 - n
  OBVIOUS
<1>3. MovesAt(f, g, from, k)
  BY <1>1, <1>2 DEF MovesAt
<1> HIDE DEF g
<1>4. total \in Nat /\ total + k \in Nat /\ SumsTo(g, total + k)
  BY <1>3, SumMoves
<1>5. MovesAt(g, h, to, n)
  BY <1>1 DEF MovesAt
<1> HIDE DEF h
<1>6. SumsTo(h, total + k + n)
  BY <1>4, <1>5, SumMoves
<1>7. total + k + n = total
  BY <1>2, <1>4
<1>8. h \in [Users -> Nat]
  BY <1>5 DEF MovesAt
<1> QED
  BY <1>6, <1>7, <1>8 DEF Moved, g, h

-----------------------------------------------------------------------------
(***************************************************************************)
(* Types, and the totals: totalOwed and both supplies are the sums of what *)
(* the users hold, so that no subtraction in the vault goes below zero.    *)
(***************************************************************************)
TotalsAddUp ==
  /\ SumsTo(owed, totalOwed)
  /\ SumsTo(oYes, yesSupply)
  /\ SumsTo(oNo, noSupply)

TypeInv == TypeOK /\ TotalsAddUp

\* The arithmetic the vault and Core use stays within the naturals.
LEMMA FeeFits ==
  ASSUME NEW wei \in Nat
  PROVE  AfterFee(wei) \in Nat /\ AfterFee(wei) <= wei
<1>1. MergeFeeBps \in 0 .. 10000
  BY CoreAssumption
<1>2. wei * MergeFeeBps \in Nat /\ wei * MergeFeeBps <= 10000 * wei
  BY <1>1, SMTT(30)
<1>3. (wei * MergeFeeBps) \div 10000 \in Nat /\ (wei * MergeFeeBps) \div 10000 <= wei
  BY <1>2
<1> QED
  BY <1>3 DEF AfterFee

\* Rounding down: what is left out is less than one unit.
LEMMA Quotients ==
  ASSUME NEW n \in Nat, NEW d \in Nat \ {0}
  PROVE  /\ n \div d \in Nat
         /\ (n \div d) * d <= n
         /\ n % d = 0 => (n \div d) * d = n
         /\ n < (n \div d) * d + d
<1>1. n = d * (n \div d) + (n % d) /\ n % d \in 0 .. d - 1 /\ n \div d \in Int
  OBVIOUS
<1>2. n \div d \in Nat
  BY <1>1, SMTT(30)
<1>3. d * (n \div d) = (n \div d) * d /\ d * (n \div d) \in Int
  BY <1>1
<1> QED
  BY <1>1, <1>2, <1>3

LEMMA QuoteWeiFits ==
  ASSUME NEW wei \in Nat
  PROVE  QuoteWeiFor(wei) \in Nat
BY CoreAssumption DEF QuoteWeiFor

\* What Core does keeps the types of its state.
LEMMA CoreTypes == CoreTypeOK /\ CoreNext => CoreTypeOK'
<1> SUFFICES ASSUME CoreTypeOK, CoreNext PROVE CoreTypeOK'
  OBVIOUS
<1> USE DEF CoreTypeOK, bounds, market
<1>1. ASSUME ops # << >> PROVE /\ Head(ops) \in OutcomeOp
                                /\ Tail(ops) \in Seq(OutcomeOp)
  BY <1>1, HeadTailProperties
<1>2. ASSUME sends # << >> PROVE Head(sends) \in Nat /\ Tail(sends) \in Seq(Nat)
  BY <1>2, HeadTailProperties
<1>3. ASSUME ops # << >> PROVE /\ Head(ops).opId \in 1 .. MaxOps
                                /\ QuoteWeiFor(Head(ops).wei) \in Nat
                                /\ AfterFee(QuoteWeiFor(Head(ops).wei)) \in Nat
  <2>1. Head(ops).wei \in Nat /\ Head(ops).opId \in 1 .. MaxOps
    BY <1>3, <1>1 DEF OutcomeOp
  <2>2. QuoteWeiFor(Head(ops).wei) \in Nat
    BY <2>1, QuoteWeiFits
  <2>3. AfterFee(QuoteWeiFor(Head(ops).wei)) \in Nat
    BY <2>2, FeeFits
  <2> QED
    BY <2>1, <2>2, <2>3
<1>4. CASE CreditTransfers
  BY <1>4 DEF CreditTransfers
<1>5. CASE LoseTransfers
  BY <1>5, CoreAssumption DEF LoseTransfers
<1>6. CASE ApplySplit
  <2> DEFINE w == QuoteWeiFor(Head(ops).wei)
  <2>1. w \in Nat /\ Head(ops).opId \in 1 .. MaxOps /\ Tail(ops) \in Seq(OutcomeOp)
    BY <1>1, <1>3, <1>6 DEF ApplySplit
  <2>2. coreWei' \in Nat /\ collateral' \in Nat
    BY <2>1, <1>6 DEF ApplySplit
  <2>3. ops' \in Seq(OutcomeOp) /\ result' \in [1 .. MaxOps -> {"none", "queued", "executed", "rejected"}]
    BY <2>1, <1>6 DEF ApplySplit, Finish
  <2> QED
    BY <2>2, <2>3, <1>6 DEF ApplySplit
<1>7. CASE ApplyMerge
  <2> DEFINE w == QuoteWeiFor(Head(ops).wei)
  <2>1. /\ w \in Nat /\ AfterFee(w) \in Nat
        /\ Head(ops).opId \in 1 .. MaxOps /\ Tail(ops) \in Seq(OutcomeOp)
    BY <1>1, <1>3, <1>7 DEF ApplyMerge
  <2>2. coreWei' \in Nat /\ collateral' \in Nat
    BY SMTT(40), <2>1, <1>7 DEF ApplyMerge
  <2>3. ops' \in Seq(OutcomeOp) /\ result' \in [1 .. MaxOps -> {"none", "queued", "executed", "rejected"}]
    BY <2>1, <1>7 DEF ApplyMerge, Finish
  <2> QED
    BY <2>2, <2>3, <1>7 DEF ApplyMerge
<1>8. CASE DropOp
  <2>1. Head(ops).opId \in 1 .. MaxOps /\ Tail(ops) \in Seq(OutcomeOp)
    BY <1>1, <1>3, <1>8 DEF DropOp
  <2>2. ops' \in Seq(OutcomeOp) /\ result' \in [1 .. MaxOps -> {"none", "queued", "executed", "rejected"}]
    BY <2>1, <1>8 DEF DropOp, Finish
  <2>3. drops' \in 0 .. MaxDrops
    BY <1>8, CoreAssumption DEF DropOp
  <2> QED
    BY <2>2, <2>3, <1>8 DEF DropOp
<1>9. CASE ApplySend
  <2>1. Head(sends) \in Nat /\ Tail(sends) \in Seq(Nat)
    BY <1>2, <1>9 DEF ApplySend
  <2>2. Head(sends) \div WeiPerUnit \in Nat
    <3>1. WeiPerUnit \in Nat \ {0}
      BY CoreAssumption
    <3> HIDE DEF CoreTypeOK
    <3> QED
      BY <2>1, <3>1, Quotients
  <2>3. coreWei' \in Nat
    BY <2>1, <1>9 DEF ApplySend
  <2>4. bal' \in Nat
    BY <2>2, <1>9 DEF ApplySend
  <2> QED
    BY <2>1, <2>3, <2>4, <1>9 DEF ApplySend
<1>10. CASE DropSend
  <2>1. drops' \in 0 .. MaxDrops
    BY <1>10, CoreAssumption DEF DropSend
  <2> QED
    BY <1>2, <1>10, <2>1 DEF DropSend
<1>11. CASE CreditStray
  <2>1. strays' \in 0 .. MaxStrays /\ coreWei' \in Nat
    BY <1>11, CoreAssumption DEF CreditStray
  <2> QED
    BY <1>11, <2>1 DEF CreditStray
<1>12. CASE SettleOutcome
  BY <1>12 DEF SettleOutcome
<1>13. CASE PruneOutcome
  BY <1>13 DEF PruneOutcome
<1>14. CASE CreditSettlement
  <2>1. AfterFee(collateral) \in Nat
    BY FeeFits
  <2>2. coreWei' \in Nat
    BY <1>14, <2>1 DEF CreditSettlement
  <2> QED
    BY <1>14, <2>2 DEF CreditSettlement
<1> HIDE DEF CoreTypeOK
<1> QED
  BY <1>4, <1>5, <1>6, <1>7, <1>8, <1>9, <1>10, <1>11, <1>12, <1>13, <1>14 DEF CoreNext

\* TypeInv, one group of variables at a time.
RolesOK == owner \in Owners /\ keeper \in Keepers /\ verifier \in Verifiers
VerdictOK == verdict \in [Verifiers -> [1 .. MaxOps -> {"Pending", "Executed", "Failed"}]]
SlotsOK ==
  /\ pendingDeposit \in PendingDeposit \union {NoDeposit}
  /\ pendingRedeem \in PendingRedeem \union {NoRedeem}
  /\ nextOpId \in 0 .. MaxOps
DebtsOK == owed \in [Users -> Nat] /\ totalOwed \in Nat /\ SumsTo(owed, totalOwed)
FinalOK == settled \in BOOLEAN /\ settleFraction \in 0 .. One
TrackersOK == outboundTarget \in Nat /\ outboundWei \in Nat /\ outboundExpectedEvm \in Nat
PaidOK == totalPaidOutEvm \in Nat /\ swept \in BOOLEAN
YesOK == oYes \in [Users -> Nat] /\ yesSupply \in Nat /\ SumsTo(oYes, yesSupply)
NoOK == oNo \in [Users -> Nat] /\ noSupply \in Nat /\ SumsTo(oNo, noSupply)
CountsOK == clears \in 0 .. MaxClears /\ pulls \in 0 .. MaxPulls /\ gifts \in 0 .. MaxGifts

LEMMA TypeInvGroups ==
  TypeInv <=> /\ CoreTypeOK /\ RolesOK /\ VerdictOK /\ SlotsOK /\ DebtsOK
              /\ FinalOK /\ TrackersOK /\ PaidOK /\ YesOK /\ NoOK /\ CountsOK
BY Zenon DEF TypeInv, TypeOK, TotalsAddUp, RolesOK, VerdictOK, SlotsOK, DebtsOK, FinalOK,
   TrackersOK, PaidOK, YesOK, NoOK, CountsOK

\* A group whose variables keep their values keeps its types.
LEMMA TypeStep ==
  ASSUME TypeInv,
         CoreTypeOK' \/ UNCHANGED core,
         RolesOK' \/ UNCHANGED roles,
         VerdictOK' \/ UNCHANGED verdict,
         SlotsOK' \/ UNCHANGED slots,
         DebtsOK' \/ UNCHANGED debts,
         FinalOK' \/ UNCHANGED final,
         TrackersOK' \/ UNCHANGED trackers,
         PaidOK' \/ UNCHANGED <<totalPaidOutEvm, swept>>,
         YesOK' \/ UNCHANGED <<oYes, yesSupply>>,
         NoOK' \/ UNCHANGED <<oNo, noSupply>>,
         CountsOK' \/ UNCHANGED counts
  PROVE  TypeInv'
<1>1. CoreTypeOK /\ UNCHANGED core => CoreTypeOK'
  BY DEF CoreTypeOK, core, market, bounds
<1>2. RolesOK /\ UNCHANGED roles => RolesOK'
  BY DEF RolesOK, roles
<1>3. VerdictOK /\ UNCHANGED verdict => VerdictOK'
  BY DEF VerdictOK
<1>4. SlotsOK /\ UNCHANGED slots => SlotsOK'
  BY DEF SlotsOK, slots
<1>5. DebtsOK /\ UNCHANGED debts => DebtsOK'
  BY DEF DebtsOK, debts
<1>6. FinalOK /\ UNCHANGED final => FinalOK'
  BY DEF FinalOK, final
<1>7. TrackersOK /\ UNCHANGED trackers => TrackersOK'
  BY DEF TrackersOK, trackers
<1>8. PaidOK /\ UNCHANGED <<totalPaidOutEvm, swept>> => PaidOK'
  BY DEF PaidOK
<1>9. YesOK /\ UNCHANGED <<oYes, yesSupply>> => YesOK'
  BY DEF YesOK
<1>10. NoOK /\ UNCHANGED <<oNo, noSupply>> => NoOK'
  BY DEF NoOK
<1>11. CountsOK /\ UNCHANGED counts => CountsOK'
  BY DEF CountsOK, counts
<1>12. /\ CoreTypeOK /\ RolesOK /\ VerdictOK /\ SlotsOK /\ DebtsOK
       /\ FinalOK /\ TrackersOK /\ PaidOK /\ YesOK /\ NoOK /\ CountsOK
  BY TypeInvGroups
<1>13. /\ CoreTypeOK' /\ RolesOK' /\ VerdictOK' /\ SlotsOK' /\ DebtsOK'
       /\ FinalOK' /\ TrackersOK' /\ PaidOK' /\ YesOK' /\ NoOK' /\ CountsOK'
  BY <1>1, <1>2, <1>3, <1>4, <1>5, <1>6, <1>7, <1>8, <1>9, <1>10, <1>11, <1>12
<1> QED
  BY <1>13, Zenon DEF TypeInv, TypeOK, TotalsAddUp, RolesOK, VerdictOK, SlotsOK, DebtsOK,
     FinalOK, TrackersOK, PaidOK, YesOK, NoOK, CountsOK

\* The operations several actions share.
LEMMA SendTypes ==
  ASSUME CoreTypeOK, TrackersOK, NEW n \in Nat, SpotSendOut(n)
  PROVE  sends' \in Seq(Nat) /\ TrackersOK'
<1>1. n * WeiPerUnit \in Nat
  BY CoreAssumption
<1>2. sends' \in Seq(Nat)
  BY <1>1, AppendProperties DEF CoreTypeOK, SpotSendOut
<1>3. coreWei \in Nat
  BY DEF CoreTypeOK
<1>4. TrackersOK'
  BY <1>1, <1>3 DEF TrackersOK, SpotSendOut, Less
<1> QED
  BY <1>2, <1>4

LEMMA CreditFits ==
  ASSUME CoreTypeOK, TrackersOK, PaidOK, NEW n \in Nat
  PROVE  /\ CoreUnits \in Nat /\ CoreUnits * WeiPerUnit <= coreWei
         /\ Unlanded \in Nat
         /\ Credit(n) \in Nat /\ Credit(n) <= n
         /\ Credit(n) + Unlanded <= CoreUnits \/ Credit(n) = 0
<1>1. coreWei \in Nat /\ bal \in Nat /\ WeiPerUnit \in Nat \ {0}
  BY CoreAssumption DEF CoreTypeOK
<1>2. CoreUnits \in Nat /\ CoreUnits * WeiPerUnit <= coreWei
  BY <1>1, Quotients DEF CoreUnits
<1>3. Unlanded \in Nat
  BY <1>1 DEF TrackersOK, PaidOK, Unlanded, Less
<1> QED
  BY <1>2, <1>3 DEF Credit, Smaller, Less

LEMMA PayOutTypes ==
  ASSUME CoreTypeOK, DebtsOK, TrackersOK, PaidOK, NEW user \in Users, NEW n \in Nat,
         PayOut(user, n)
  PROVE  sends' \in Seq(Nat) /\ DebtsOK' /\ TrackersOK'
<1>1. Credit(n) \in Nat
  BY CreditFits
<1>2. sends' \in Seq(Nat) /\ TrackersOK'
  BY <1>1, SendTypes DEF PayOut
<1>3. MovesAt(owed, owed', user, Credit(n)) /\ owed' \in [Users -> Nat]
  BY <1>1 DEF PayOut, DebtsOK, MovesAt
<1>4. SumsTo(owed', totalOwed + Credit(n)) /\ totalOwed + Credit(n) \in Nat
  BY <1>3, SumMoves DEF DebtsOK
<1>5. totalOwed' = totalOwed + Credit(n)
  BY DEF PayOut
<1>6. DebtsOK'
  BY <1>3, <1>4, <1>5, Zenon DEF DebtsOK
<1> QED
  BY <1>2, <1>6

LEMMA MintTypes ==
  ASSUME YesOK, NoOK, NEW user \in Users, NEW n \in Nat, MintPair(user, n)
  PROVE  YesOK' /\ NoOK'
<1>1. MovesAt(oYes, oYes', user, n) /\ MovesAt(oNo, oNo', user, n)
  BY DEF MintPair, YesOK, NoOK, MovesAt
<1>2. /\ SumsTo(oYes', yesSupply + n) /\ yesSupply + n \in Nat
      /\ SumsTo(oNo', noSupply + n) /\ noSupply + n \in Nat
  BY <1>1, SumMoves DEF YesOK, NoOK
<1>3. oYes' \in [Users -> Nat] /\ oNo' \in [Users -> Nat]
  BY <1>1 DEF MovesAt
<1>4. yesSupply' = yesSupply + n /\ noSupply' = noSupply + n
  BY DEF MintPair
<1>5. YesOK'
  BY <1>2, <1>3, <1>4, Zenon DEF YesOK
<1>6. NoOK'
  BY <1>2, <1>3, <1>4, Zenon DEF NoOK
<1> QED
  BY <1>5, <1>6

LEMMA BurnTypes ==
  ASSUME NEW user \in Users, NEW n \in Nat
  PROVE  /\ YesOK /\ oYes[user] >= n /\ oYes' = [oYes EXCEPT ![user] = @ - n]
              /\ yesSupply' = yesSupply - n => YesOK' /\ n <= yesSupply
         /\ NoOK /\ oNo[user] >= n /\ oNo' = [oNo EXCEPT ![user] = @ - n]
              /\ noSupply' = noSupply - n => NoOK' /\ n <= noSupply
<1>1. PICK k \in Int : k = 0 - n
  OBVIOUS
<1>2. ASSUME YesOK, oYes[user] >= n, oYes' = [oYes EXCEPT ![user] = @ - n],
             yesSupply' = yesSupply - n
      PROVE  YesOK' /\ n <= yesSupply
  <2>1. oYes' \in [Users -> Nat] /\ MovesAt(oYes, oYes', user, k)
    BY <1>1, <1>2 DEF YesOK, MovesAt
  <2>2. SumsTo(oYes', yesSupply + k) /\ yesSupply + k \in Nat /\ oYes[user] <= yesSupply
    BY <2>1, <1>2, SumMoves DEF YesOK
  <2>3. yesSupply' = yesSupply + k /\ n <= yesSupply
    BY <1>1, <1>2, <2>2 DEF YesOK
  <2> QED
    BY <2>1, <2>2, <2>3, Zenon DEF YesOK
<1>3. ASSUME NoOK, oNo[user] >= n, oNo' = [oNo EXCEPT ![user] = @ - n],
             noSupply' = noSupply - n
      PROVE  NoOK' /\ n <= noSupply
  <2>1. oNo' \in [Users -> Nat] /\ MovesAt(oNo, oNo', user, k)
    BY <1>1, <1>3 DEF NoOK, MovesAt
  <2>2. SumsTo(oNo', noSupply + k) /\ noSupply + k \in Nat /\ oNo[user] <= noSupply
    BY <2>1, <1>3, SumMoves DEF NoOK
  <2>3. noSupply' = noSupply + k /\ n <= noSupply
    BY <1>1, <1>3, <2>2 DEF NoOK
  <2> QED
    BY <2>1, <2>2, <2>3, Zenon DEF NoOK
<1> QED
  BY <1>2, <1>3

\* Initially nobody holds or is owed anything.
LEMMA InitType == Init => TypeInv
<1> SUFFICES ASSUME Init PROVE TypeInv
  OBVIOUS
<1>1. CoreTypeOK
  BY CoreAssumption, EmptySeq DEF Init, CoreInit, CoreTypeOK
<1>2. RolesOK /\ FinalOK /\ TrackersOK /\ PaidOK
  <2>1. 0 \in 0 .. One
    BY CoreAssumption
  <2> QED
    BY <2>1 DEF Init, RolesOK, FinalOK, TrackersOK, PaidOK
<1>6. VerdictOK
  <2> DEFINE none == [op \in 1 .. MaxOps |-> "Pending"]
  <2>1. none \in [1 .. MaxOps -> {"Pending", "Executed", "Failed"}]
    OBVIOUS
  <2>2. verdict = [v \in Verifiers |-> none]
    BY DEF Init
  <2> HIDE DEF none
  <2> QED
    BY <2>1, <2>2 DEF VerdictOK
<1>3. SlotsOK
  BY CoreAssumption DEF Init, SlotsOK
<1>4. DebtsOK /\ YesOK /\ NoOK
  BY SumOfNothing DEF Init, DebtsOK, YesOK, NoOK
<1>5. CountsOK
  BY VaultAssumption DEF Init, CountsOK
<1> QED
  BY <1>1, <1>2, <1>3, <1>4, <1>5, <1>6, TypeInvGroups

\* What the owner, the keepers and the token holders do.
LEMMA AdminType ==
  ASSUME TypeInv,
         \/ \E v \in Verifiers, op \in 1 .. MaxOps : Attest(v, op)
         \/ Donate
         \/ \E caller \in Owners :
              \/ \E v \in Verifiers : SetVerifier(caller, v)
              \/ \E k \in Keepers : SetKeeper(caller, k)
              \/ \E o \in Owners : SetOwner(caller, o)
              \/ ClearOutbound(caller)
  PROVE  TypeInv'
<1> USE TypeInvGroups, TypeStep
<1>1. ASSUME NEW v \in Verifiers, NEW op \in 1 .. MaxOps, Attest(v, op)
      PROVE  TypeInv'
  <2>1. VerdictOK'
    <3>1. PICK s \in {"Executed", "Failed"} : verdict' = [verdict EXCEPT ![v][op] = s]
      BY <1>1 DEF Attest
    <3>2. verdict[v] \in [1 .. MaxOps -> {"Pending", "Executed", "Failed"}]
      BY DEF VerdictOK
    <3>3. [verdict[v] EXCEPT ![op] = s] \in [1 .. MaxOps -> {"Pending", "Executed", "Failed"}]
      BY <3>2
    <3> QED
      BY <3>1, <3>3 DEF VerdictOK
  <2> QED
    BY <1>1, <2>1 DEF Attest, tokens
<1>2. CASE Donate
  <2>1. CoreTypeOK'
    <3>1. bal' \in Nat
      BY <1>2, VaultAssumption DEF Donate, CoreTypeOK
    <3> QED
      BY <1>2, <3>1 DEF Donate, CoreTypeOK, market, bounds
  <2>2. CountsOK'
    BY <1>2, VaultAssumption DEF Donate, CountsOK
  <2> QED
    BY <1>2, <2>1, <2>2 DEF Donate, tokens
<1>3. ASSUME NEW caller \in Owners, NEW v \in Verifiers, SetVerifier(caller, v)
      PROVE  TypeInv'
  BY <1>3 DEF SetVerifier, RolesOK, tokens
<1>4. ASSUME NEW caller \in Owners, NEW k \in Keepers, SetKeeper(caller, k)
      PROVE  TypeInv'
  BY <1>4 DEF SetKeeper, RolesOK, tokens
<1>5. ASSUME NEW caller \in Owners, NEW o \in Owners, SetOwner(caller, o)
      PROVE  TypeInv'
  BY <1>5 DEF SetOwner, RolesOK, tokens
<1>6. ASSUME NEW caller \in Owners, ClearOutbound(caller)
      PROVE  TypeInv'
  <2>1. CountsOK'
    BY <1>6, VaultAssumption DEF ClearOutbound, CountsOK
  <2>2. TrackersOK'
    BY SMTT(40), <1>6 DEF ClearOutbound, TrackersOK, CoreTypeOK, PaidOK
  <2>3. PaidOK'
    BY <1>6 DEF ClearOutbound, PaidOK
  <2> QED
    BY <1>6, <2>1, <2>2, <2>3 DEF ClearOutbound, tokens
<1> QED
  BY <1>1, <1>2, <1>3, <1>4, <1>5, <1>6

LEMMA TransferType ==
  ASSUME TypeInv, NEW from \in Users, NEW to \in Users, NEW n \in Nat,
         TransferYes(from, to, n) \/ TransferNo(from, to, n)
  PROVE  TypeInv'
<1> USE TypeInvGroups, TypeStep
<1>1. CASE TransferYes(from, to, n)
  <2>1. oYes' \in [Users -> Nat] /\ SumsTo(oYes', yesSupply)
    BY <1>1, SumKept DEF TransferYes, YesOK
  <2>2. YesOK'
    BY <1>1, <2>1, Zenon DEF TransferYes, YesOK
  <2> QED
    BY <1>1, <2>2 DEF TransferYes
<1>2. CASE TransferNo(from, to, n)
  <2>1. oNo' \in [Users -> Nat] /\ SumsTo(oNo', noSupply)
    BY <1>2, SumKept DEF TransferNo, NoOK
  <2>2. NoOK'
    BY <1>2, <2>1, Zenon DEF TransferNo, NoOK
  <2> QED
    BY <1>2, <2>2 DEF TransferNo
<1> QED
  BY <1>1, <1>2

\* A new operation goes to the back of Core's queue.
LEMMA QueueTypes ==
  ASSUME CoreTypeOK, SlotsOK, NEW kind \in {"split", "merge"}, NEW n \in Nat,
         nextOpId < MaxOps,
         ops' = Append(ops, [kind |-> kind, opId |-> nextOpId + 1, wei |-> OutcomeWei(n)]),
         result' = [result EXCEPT ![nextOpId + 1] = "queued"]
  PROVE  /\ nextOpId + 1 \in 1 .. MaxOps
         /\ ops' \in Seq(OutcomeOp)
         /\ result' \in [1 .. MaxOps -> {"none", "queued", "executed", "rejected"}]
<1>1. nextOpId + 1 \in 1 .. MaxOps
  BY CoreAssumption DEF SlotsOK
<1>2. OutcomeWei(n) \in Nat
  BY CoreAssumption, Quotients DEF OutcomeWei
<1>3. [kind |-> kind, opId |-> nextOpId + 1, wei |-> OutcomeWei(n)] \in OutcomeOp
  BY <1>1, <1>2 DEF OutcomeOp
<1>4. ops' \in Seq(OutcomeOp)
  BY <1>3, AppendProperties DEF CoreTypeOK
<1> QED
  BY <1>1, <1>4 DEF CoreTypeOK

LEMMA DepositType ==
  ASSUME TypeInv, NEW user \in Users, NEW n \in Nat, Deposit(user, n)
  PROVE  TypeInv'
<1> USE TypeInvGroups
<1>1. /\ nextOpId + 1 \in 1 .. MaxOps
      /\ ops' \in Seq(OutcomeOp)
      /\ result' \in [1 .. MaxOps -> {"none", "queued", "executed", "rejected"}]
  BY QueueTypes DEF Deposit
<1>2. inbound' \in Nat
  <2>1. n * WeiPerUnit \in Nat
    BY CoreAssumption
  <2> QED
    BY <2>1 DEF Deposit, CoreTypeOK
<1>3. CoreTypeOK'
  BY <1>1, <1>2 DEF Deposit, CoreTypeOK, market, bounds
<1>4. coreWei \in Nat
  BY DEF CoreTypeOK
<1>5. pendingDeposit' \in PendingDeposit /\ nextOpId' \in 0 .. MaxOps
  BY <1>1, <1>4 DEF Deposit, PendingDeposit
<1>6. SlotsOK'
  BY <1>5 DEF Deposit, SlotsOK
<1>7. TrackersOK'
  BY DEF Deposit, TrackersOK
<1> QED
  BY <1>3, <1>6, <1>7, TypeStep DEF Deposit, tokens

LEMMA RequestRedeemType ==
  ASSUME TypeInv, NEW user \in Users, NEW n \in Nat, RequestRedeem(user, n)
  PROVE  TypeInv'
<1> USE TypeInvGroups
<1>1. /\ nextOpId + 1 \in 1 .. MaxOps
      /\ ops' \in Seq(OutcomeOp)
      /\ result' \in [1 .. MaxOps -> {"none", "queued", "executed", "rejected"}]
  BY QueueTypes DEF RequestRedeem
<1>2. CoreTypeOK'
  BY <1>1 DEF RequestRedeem, CoreTypeOK, market, bounds
<1>3. pendingRedeem' \in PendingRedeem /\ nextOpId' \in 0 .. MaxOps
  BY <1>1 DEF RequestRedeem, PendingRedeem
<1>4. SlotsOK'
  BY <1>3 DEF RequestRedeem, SlotsOK
<1>5. YesOK' /\ NoOK'
  BY BurnTypes DEF RequestRedeem
<1> QED
  BY <1>2, <1>4, <1>5, TypeStep DEF RequestRedeem

\* What is known of an operation that fills a slot.
LEMMA SlotTypes ==
  ASSUME SlotsOK
  PROVE  /\ pendingDeposit # NoDeposit =>
              /\ pendingDeposit.user \in Users
              /\ pendingDeposit.amount \in Nat
              /\ pendingDeposit.opId \in 1 .. MaxOps
              /\ pendingDeposit.quoteCoreBefore \in Nat
         /\ pendingRedeem # NoRedeem =>
              /\ pendingRedeem.user \in Users
              /\ pendingRedeem.amount \in Nat
              /\ pendingRedeem.opId \in 1 .. MaxOps
<1>1. pendingDeposit # NoDeposit => pendingDeposit \in PendingDeposit
  BY DEF SlotsOK
<1>2. pendingRedeem # NoRedeem => pendingRedeem \in PendingRedeem
  BY DEF SlotsOK
<1> QED
  BY <1>1, <1>2 DEF PendingDeposit, PendingRedeem

LEMMA ResolveType ==
  ASSUME TypeInv, ClaimDeposit \/ CancelDeposit \/ ClaimRedeem \/ CancelRedeem
  PROVE  TypeInv'
<1> USE TypeInvGroups
<1>1. CASE ClaimDeposit
  <2>1. SlotsOK'
    BY <1>1 DEF ClaimDeposit, SlotsOK
  <2>2. YesOK' /\ NoOK'
    BY <1>1, SlotTypes, MintTypes DEF ClaimDeposit
  <2> QED
    BY <1>1, <2>1, <2>2, TypeStep DEF ClaimDeposit
<1>2. CASE CancelDeposit
  <2>1. SlotsOK'
    BY <1>2 DEF CancelDeposit, SlotsOK
  <2>2. sends' \in Seq(Nat) /\ DebtsOK' /\ TrackersOK'
    BY <1>2, SlotTypes, PayOutTypes DEF CancelDeposit
  <2>3. CoreTypeOK'
    BY <1>2, <2>2 DEF CancelDeposit, CoreTypeOK, market, bounds
  <2> QED
    BY <1>2, <2>1, <2>2, <2>3, TypeStep DEF CancelDeposit, tokens
<1>3. CASE ClaimRedeem
  <2>1. SlotsOK'
    BY <1>3 DEF ClaimRedeem, SlotsOK
  <2>2. sends' \in Seq(Nat) /\ DebtsOK' /\ TrackersOK'
    BY <1>3, SlotTypes, PayOutTypes DEF ClaimRedeem
  <2>3. CoreTypeOK'
    BY <1>3, <2>2 DEF ClaimRedeem, CoreTypeOK, market, bounds
  <2> QED
    BY <1>3, <2>1, <2>2, <2>3, TypeStep DEF ClaimRedeem, tokens
<1>4. CASE CancelRedeem
  <2>1. SlotsOK'
    BY <1>4 DEF CancelRedeem, SlotsOK
  <2>2. YesOK' /\ NoOK'
    BY <1>4, SlotTypes, MintTypes DEF CancelRedeem
  <2> QED
    BY <1>4, <2>1, <2>2, TypeStep DEF CancelRedeem
<1> QED
  BY <1>1, <1>2, <1>3, <1>4

LEMMA WithdrawType ==
  ASSUME TypeInv, NEW user \in Users, Withdraw(user)
  PROVE  TypeInv' /\ owed[user] <= totalOwed
<1> USE TypeInvGroups
<1>1. owed[user] \in Nat
  BY DEF DebtsOK
<1>2. PICK k \in Int : k = 0 - owed[user]
  BY <1>1
<1>3. owed' \in [Users -> Nat] /\ MovesAt(owed, owed', user, k)
  BY <1>1, <1>2 DEF Withdraw, DebtsOK, MovesAt
<1>4. /\ SumsTo(owed', totalOwed + k) /\ totalOwed + k \in Nat
      /\ owed[user] <= totalOwed
  BY <1>3, SumMoves DEF DebtsOK
<1>5. totalOwed' = totalOwed + k
  BY <1>1, <1>2 DEF Withdraw, DebtsOK
<1>6. DebtsOK'
  BY <1>3, <1>4, <1>5, Zenon DEF DebtsOK
<1>7. bal' \in Nat /\ totalPaidOutEvm' \in Nat
  <2>1. bal \in Nat /\ totalPaidOutEvm \in Nat
    BY DEF CoreTypeOK, PaidOK
  <2>2. /\ bal >= owed[user]
        /\ bal' = bal - owed[user]
        /\ totalPaidOutEvm' = totalPaidOutEvm + owed[user]
    BY DEF Withdraw, PayFromBalance
  <2> QED
    BY <1>1, <2>1, <2>2
<1>8. CoreTypeOK'
  BY <1>7 DEF Withdraw, CoreTypeOK, market, bounds
<1>9. PaidOK'
  BY <1>7 DEF Withdraw, PaidOK
<1> QED
  BY <1>4, <1>6, <1>8, <1>9, TypeStep DEF Withdraw, tokens

LEMMA SettleType ==
  ASSUME TypeInv, NEW caller, NEW f \in Nat, Settle(caller, f)
  PROVE  TypeInv'
<1> USE TypeInvGroups
<1>1. settleFraction' \in 0 .. One /\ settled' = TRUE
  <2>1. Values \subseteq 0 .. One /\ One \in Nat
    BY CoreAssumption
  <2>2. coreValue \in 0 .. One
    BY <2>1 DEF CoreTypeOK
  <2> QED
    BY <2>1, <2>2 DEF Settle
<1>2. FinalOK'
  BY <1>1 DEF FinalOK
<1> QED
  BY <1>2, TypeStep DEF Settle, tokens

LEMMA PullType ==
  ASSUME TypeInv, PullSettledFunds
  PROVE  TypeInv'
<1> USE TypeInvGroups
<1>1. CoreUnits \in Nat
  BY CreditFits, 0 \in Nat
<1>2. sends' \in Seq(Nat) /\ TrackersOK'
  BY <1>1, SendTypes DEF PullSettledFunds
<1>3. CoreTypeOK'
  BY <1>2 DEF PullSettledFunds, CoreTypeOK, market, bounds
<1>4. PaidOK'
  BY DEF PullSettledFunds, PaidOK
<1>5. CountsOK'
  BY VaultAssumption DEF PullSettledFunds, CountsOK
<1> QED
  BY <1>2, <1>3, <1>4, <1>5, TypeStep DEF PullSettledFunds, tokens

\* A part of a settled token's value, and a part of the pool, are whole units.
LEMMA ShareFits ==
  ASSUME TypeInv, NEW n \in Nat, NEW fraction \in 0 .. One
  PROVE  /\ (n * fraction) \div One \in Nat
         /\ Unreserved \in Nat
         /\ Obligation \in Nat
         /\ ProRata((n * fraction) \div One) \in Nat
<1> USE TypeInvGroups
<1>1. One \in Nat \ {0} /\ fraction \in Nat /\ settleFraction \in Nat
      /\ One - settleFraction \in Nat
  BY CoreAssumption DEF FinalOK
<1>2. n * fraction \in Nat
  BY <1>1
<1>3. (n * fraction) \div One \in Nat
  BY <1>1, <1>2, Quotients
<1>4. bal \in Nat /\ totalOwed \in Nat /\ yesSupply \in Nat /\ noSupply \in Nat
  BY DEF CoreTypeOK, DebtsOK, YesOK, NoOK
<1>5. Unreserved \in Nat
  BY <1>4 DEF Unreserved, Less
<1>6. yesSupply * settleFraction + noSupply * (One - settleFraction) \in Nat
  BY <1>1, <1>4
<1>7. Obligation \in Nat
  BY <1>1, <1>6, Quotients DEF Obligation
<1> DEFINE e == (n * fraction) \div One
<1>8. e * Unreserved \in Nat
  BY <1>3, <1>5
<1> HIDE DEF e
<1>9. Obligation > Unreserved => (e * Unreserved) \div Obligation \in Nat
  BY <1>5, <1>7, <1>8, Quotients
<1>10. ProRata(e) \in Nat
  BY <1>3, <1>5, <1>7, <1>9 DEF ProRata, e
<1> QED
  BY <1>3, <1>5, <1>7, <1>10 DEF e

LEMMA RedeemSettledTypes ==
  ASSUME TypeInv, NEW n \in Nat, NEW fraction \in 0 .. One, RedeemSettled(n, fraction)
  PROVE  CoreTypeOK' /\ PaidOK'
<1> USE TypeInvGroups
<1> DEFINE payout == ProRata((n * fraction) \div One)
<1>1. payout \in Nat
  BY ShareFits
<1>2. /\ bal >= payout
      /\ bal' = bal - payout
      /\ totalPaidOutEvm' = totalPaidOutEvm + payout
  BY DEF RedeemSettled, PayFromBalance
<1> HIDE DEF payout
<1>3. bal' \in Nat /\ totalPaidOutEvm' \in Nat
  BY SMTT(40), <1>1, <1>2 DEF CoreTypeOK, PaidOK
<1>4. CoreTypeOK'
  BY <1>3 DEF RedeemSettled, CoreTypeOK, market, bounds
<1>5. PaidOK'
  BY <1>3 DEF RedeemSettled, PaidOK
<1> QED
  BY <1>4, <1>5

LEMMA RedeemType ==
  ASSUME TypeInv, NEW user \in Users, NEW n \in Nat,
         RedeemYes(user, n) \/ RedeemNo(user, n)
  PROVE  TypeInv'
<1> USE TypeInvGroups
<1>1. settleFraction \in 0 .. One /\ One - settleFraction \in 0 .. One
  BY CoreAssumption DEF FinalOK
<1>2. CASE RedeemYes(user, n)
  <2>1. CoreTypeOK' /\ PaidOK'
    BY <1>1, <1>2, RedeemSettledTypes DEF RedeemYes
  <2>2. YesOK'
    BY <1>2, BurnTypes DEF RedeemYes
  <2> QED
    BY <1>2, <2>1, <2>2, TypeStep DEF RedeemYes, RedeemSettled
<1>3. CASE RedeemNo(user, n)
  <2>1. CoreTypeOK' /\ PaidOK'
    BY <1>1, <1>3, RedeemSettledTypes DEF RedeemNo
  <2>2. NoOK'
    BY <1>3, BurnTypes DEF RedeemNo
  <2> QED
    BY <1>3, <2>1, <2>2, TypeStep DEF RedeemNo, RedeemSettled
<1> QED
  BY <1>2, <1>3

LEMMA CoreStepType ==
  ASSUME TypeInv, CoreStep
  PROVE  TypeInv'
<1>1. CoreTypeOK'
  BY CoreTypes, TypeInvGroups DEF CoreStep
<1> QED
  BY <1>1, TypeStep DEF CoreStep, tokens

\* Every transaction and every step of Core keeps the types and the totals.
LEMMA NextType ==
  ASSUME TypeInv, Next
  PROVE  TypeInv'
<1>1. Amounts \subseteq Nat /\ Relayed \subseteq Nat
  BY VaultAssumption
<1>2. ASSUME NEW user \in Users, NEW n \in Amounts,
             \/ Deposit(user, n)
             \/ RequestRedeem(user, n)
             \/ RedeemYes(user, n)
             \/ RedeemNo(user, n)
             \/ \E to \in Users : TransferYes(user, to, n) \/ TransferNo(user, to, n)
      PROVE  TypeInv'
  <2>1. n \in Nat
    BY <1>1
  <2> QED
    BY <1>2, <2>1, DepositType, RequestRedeemType, RedeemType, TransferType
<1>3. ASSUME NEW user \in Users, Withdraw(user)
      PROVE  TypeInv'
  BY <1>3, WithdrawType
<1>4. ASSUME NEW caller \in Keepers, NEW f \in Relayed, Settle(caller, f)
      PROVE  TypeInv'
  BY <1>1, <1>4, SettleType
<1> QED
  BY <1>2, <1>3, <1>4, CoreStepType, AdminType, ResolveType, PullType DEF Next

LEMMA StutterType ==
  ASSUME TypeInv, UNCHANGED vars
  PROVE  TypeInv'
BY TypeStep DEF vars, tokens

\* The vault's variables keep their types, and owed, oYES and oNO add up to
\* totalOwed and the two supplies (OutcomeVault.sol, OutcomeToken.sol).
THEOREM TypeCorrect == Spec => []TypeInv
<1>1. Init => TypeInv
  BY InitType
<1>2. TypeInv /\ [Next]_vars => TypeInv'
  BY NextType, StutterType
<1> QED
  BY <1>1, <1>2, PTL DEF Spec

-----------------------------------------------------------------------------
(***************************************************************************)
(* Backing.  PairsBacked is not inductive alone: a claim mints what a      *)
(* verdict says was split, so the verdicts must be true of Core, the one   *)
(* operation in flight must be the one in the slot, and the wei Core moves *)
(* for it must be exactly the amount the slot names.                       *)
(***************************************************************************)
QueuedOp(kind, n) == Append(<< >>, [kind |-> kind, opId |-> nextOpId, wei |-> OutcomeWei(n)])

Ended == ops = << >> /\ result[nextOpId] \in {"executed", "rejected"}

Waits(kind, slot) ==
  /\ slot.opId = nextOpId
  /\ slot.amount % Granule = 0
  /\ \/ Ended
     \/ ops = QueuedOp(kind, slot.amount) /\ result[nextOpId] = "queued"

OneOperation ==
  \/ Idle /\ ops = << >>
  \/ pendingDeposit # NoDeposit /\ pendingRedeem = NoRedeem /\ Waits("split", pendingDeposit)
  \/ pendingRedeem # NoRedeem /\ pendingDeposit = NoDeposit /\ Waits("merge", pendingRedeem)

FreshOps == \A op \in 1 .. MaxOps : op > nextOpId => result[op] = "none"

VerdictsTrue ==
  \A v \in Verifiers, op \in 1 .. MaxOps :
    /\ verdict[v][op] = "Executed" => result[op] = "executed"
    /\ verdict[v][op] = "Failed" => result[op] = "rejected"

SettledIdle == settled => Idle /\ coreStatus # "active"

BackingInv == OneOperation /\ FreshOps /\ VerdictsTrue /\ SettledIdle /\ PairsBacked

LEMMA InitBacking == Init => BackingInv
<1> SUFFICES ASSUME Init PROVE BackingInv
  OBVIOUS
<1>1. OneOperation /\ SettledIdle
  BY DEF Init, CoreInit, OneOperation, Idle, SettledIdle
<1>2. FreshOps
  BY DEF Init, CoreInit, FreshOps
<1>3. VerdictsTrue
  BY DEF Init, VerdictsTrue
<1>4. PairsBacked
  BY CoreAssumption DEF Init, CoreInit, PairsBacked, SplitUnclaimed, MergeUndone
<1> QED
  BY <1>1, <1>2, <1>3, <1>4 DEF BackingInv

\* Steps that move neither an operation, a verdict, the collateral nor a supply.
LEMMA QuietBacking ==
  ASSUME BackingInv,
         UNCHANGED <<verdict, result, slots, ops, settled, coreStatus, collateral,
                     yesSupply, noSupply>>
  PROVE  BackingInv'
<1> USE DEF BackingInv, slots
<1>1. OneOperation'
  BY DEF OneOperation, Idle, Waits, Ended, QueuedOp
<1>2. FreshOps' /\ VerdictsTrue'
  BY DEF FreshOps, VerdictsTrue
<1>3. SettledIdle'
  BY DEF SettledIdle, Idle
<1>4. PairsBacked'
  BY DEF PairsBacked, SplitUnclaimed, MergeUndone
<1> QED
  BY <1>1, <1>2, <1>3, <1>4

LEMMA QuietSteps ==
  ASSUME BackingInv,
         \/ CoreStep /\ (\/ CreditTransfers \/ LoseTransfers \/ ApplySend
                         \/ DropSend \/ CreditStray)
         \/ Donate
         \/ \E caller \in Owners :
              \/ \E v \in Verifiers : SetVerifier(caller, v)
              \/ \E k \in Keepers : SetKeeper(caller, k)
              \/ \E o \in Owners : SetOwner(caller, o)
              \/ ClearOutbound(caller)
         \/ \E from, to \in Users, n \in Nat :
              TransferYes(from, to, n) \/ TransferNo(from, to, n)
         \/ \E user \in Users : Withdraw(user)
         \/ PullSettledFunds
         \/ UNCHANGED vars
  PROVE  BackingInv'
<1> USE QuietBacking DEF final, market, tokens
<1>1. ASSUME CoreStep, \/ CreditTransfers \/ LoseTransfers \/ ApplySend
                         \/ DropSend \/ CreditStray
      PROVE  BackingInv'
  BY <1>1 DEF CoreStep, CreditTransfers, LoseTransfers, ApplySend, DropSend, CreditStray
<1>2. CASE Donate
  BY <1>2 DEF Donate
<1>3. ASSUME NEW caller \in Owners,
             \/ \E v \in Verifiers : SetVerifier(caller, v)
             \/ \E k \in Keepers : SetKeeper(caller, k)
             \/ \E o \in Owners : SetOwner(caller, o)
             \/ ClearOutbound(caller)
      PROVE  BackingInv'
  BY <1>3 DEF SetVerifier, SetKeeper, SetOwner, ClearOutbound, core
<1>4. ASSUME NEW from \in Users, NEW to \in Users, NEW n \in Nat,
             TransferYes(from, to, n) \/ TransferNo(from, to, n)
      PROVE  BackingInv'
  BY <1>4 DEF TransferYes, TransferNo, core
<1>5. ASSUME NEW user \in Users, Withdraw(user)
      PROVE  BackingInv'
  BY <1>5 DEF Withdraw
<1>6. CASE PullSettledFunds
  BY <1>6 DEF PullSettledFunds
<1>7. CASE UNCHANGED vars
  BY <1>7 DEF vars, core
<1> QED
  BY <1>1, <1>2, <1>3, <1>4, <1>5, <1>6, <1>7

\* The market leaves "active" for good, and what it pays is not told apart after.
LEMMA MarketBacking ==
  ASSUME BackingInv, CoreStep, SettleOutcome \/ PruneOutcome \/ CreditSettlement
  PROVE  BackingInv'
<1> USE DEF BackingInv
<1>1. /\ UNCHANGED <<verdict, result, slots, ops, settled, yesSupply, noSupply>>
      /\ coreStatus' # "active"
  BY DEF CoreStep, SettleOutcome, PruneOutcome, CreditSettlement, final, market, tokens
<1>2. OneOperation'
  BY <1>1 DEF OneOperation, Idle, Waits, Ended, QueuedOp, slots
<1>3. FreshOps' /\ VerdictsTrue'
  BY <1>1 DEF FreshOps, VerdictsTrue, slots
<1>4. SettledIdle'
  BY <1>1 DEF SettledIdle, Idle, slots
<1>5. PairsBacked'
  BY <1>1 DEF PairsBacked
<1> QED
  BY <1>2, <1>3, <1>4, <1>5

\* A keeper attests what Core did.
LEMMA AttestBacking ==
  ASSUME TypeInv, BackingInv, NEW v \in Verifiers, NEW op \in 1 .. MaxOps, Attest(v, op)
  PROVE  BackingInv'
<1> USE DEF BackingInv
<1>1. UNCHANGED <<result, slots, ops, settled, coreStatus, collateral, yesSupply, noSupply>>
  BY DEF Attest, core, final, market, tokens
<1>2. OneOperation'
  BY <1>1 DEF OneOperation, Idle, Waits, Ended, QueuedOp, slots
<1>3. FreshOps'
  BY <1>1 DEF FreshOps, slots
<1>4. SettledIdle'
  BY <1>1 DEF SettledIdle, Idle, slots
<1>5. PairsBacked'
  BY <1>1 DEF PairsBacked, SplitUnclaimed, MergeUndone, slots
<1>6. VerdictsTrue'
  <2> SUFFICES ASSUME NEW w \in Verifiers, NEW o \in 1 .. MaxOps
               PROVE  /\ verdict'[w][o] = "Executed" => result[o] = "executed"
                      /\ verdict'[w][o] = "Failed" => result[o] = "rejected"
    BY <1>1 DEF VerdictsTrue
  <2>1. PICK s \in {"Executed", "Failed"} :
          /\ verdict' = [verdict EXCEPT ![v][op] = s]
          /\ s = "Executed" => result[op] = "executed"
          /\ s = "Failed" => result[op] = "rejected"
    BY DEF Attest
  <2>2. /\ verdict \in [Verifiers -> [1 .. MaxOps -> {"Pending", "Executed", "Failed"}]]
    BY TypeInvGroups DEF VerdictOK
  <2>3. verdict[w] \in [1 .. MaxOps -> {"Pending", "Executed", "Failed"}]
    BY <2>2
  <2>4. verdict'[w][o] = IF w = v /\ o = op THEN s ELSE verdict[w][o]
    BY <2>1, <2>2, <2>3
  <2> QED
    BY <2>1, <2>4 DEF VerdictsTrue
<1> QED
  BY <1>2, <1>3, <1>4, <1>5, <1>6

\* Settlement freezes an idle vault; its tokens then need no pairing.
LEMMA SettleBacking ==
  ASSUME BackingInv,
         \/ \E caller, f : Settle(caller, f)
         \/ \E user, n : RedeemYes(user, n) \/ RedeemNo(user, n)
  PROVE  BackingInv'
<1> USE DEF BackingInv
<1>1. /\ UNCHANGED <<verdict, result, slots, ops, coreStatus>>
      /\ settled' = TRUE
      /\ Idle
      /\ coreStatus # "active"
  BY DEF Settle, RedeemYes, RedeemNo, RedeemSettled, core, final, market, SettledIdle
<1>2. OneOperation'
  BY <1>1 DEF OneOperation, Idle, Waits, Ended, QueuedOp, slots
<1>3. FreshOps' /\ VerdictsTrue'
  BY <1>1 DEF FreshOps, VerdictsTrue, slots
<1>4. SettledIdle'
  BY <1>1 DEF SettledIdle, Idle, slots
<1>5. PairsBacked'
  BY <1>1 DEF PairsBacked
<1> QED
  BY <1>2, <1>3, <1>4, <1>5

\* The collateral of an expressible amount is the amount, to the last wei.
LEMMA ExactCollateral ==
  ASSUME NEW n \in Nat, n % Granule = 0
  PROVE  QuoteWeiFor(OutcomeWei(n)) = n * WeiPerUnit
<1>1. Granule \in Nat \ {0} /\ WeiPerUnit \in Nat
  BY CoreAssumption
<1>2. (n \div Granule) * Granule = n
  BY <1>1, Quotients
<1> QED
  BY <1>2 DEF QuoteWeiFor, OutcomeWei

\* A queue of one operation.
LEMMA SingleOp ==
  ASSUME SlotsOK, nextOpId \in 1 .. MaxOps, NEW kind \in {"split", "merge"}, NEW n \in Nat
  PROVE  LET q == QueuedOp(kind, n)
         IN  /\ q # << >> /\ Tail(q) = << >>
             /\ Head(q).kind = kind /\ Head(q).opId = nextOpId
             /\ Head(q).wei = OutcomeWei(n)
<1> DEFINE x == [kind |-> kind, opId |-> nextOpId, wei |-> OutcomeWei(n)]
           q == Append(<< >>, x)
<1>1. /\ q \in Seq({x}) /\ q # << >> /\ Len(q) = 1 /\ Head(q) = x
  BY AppendProperties, EmptySeq
<1>2. Tail(q) \in Seq({x}) /\ Len(Tail(q)) = 0
  BY <1>1, HeadTailProperties
<1>3. Tail(q) = << >>
  BY <1>2, EmptySeq
<1> QED
  BY <1>1, <1>3 DEF QueuedOp

\* What Core finds at the head of its queue is what the slot waits for.
LEMMA HeadOp ==
  ASSUME TypeInv, BackingInv, ops # << >>
  PROVE  /\ Head(ops).opId = nextOpId /\ Tail(ops) = << >>
         /\ nextOpId \in 1 .. MaxOps /\ result[nextOpId] = "queued"
         /\ Head(ops).kind = "split" =>
              /\ pendingDeposit # NoDeposit /\ pendingRedeem = NoRedeem
              /\ Waits("split", pendingDeposit)
              /\ pendingDeposit.amount \in Nat
              /\ QuoteWeiFor(Head(ops).wei) = pendingDeposit.amount * WeiPerUnit
         /\ Head(ops).kind = "merge" =>
              /\ pendingRedeem # NoRedeem /\ pendingDeposit = NoDeposit
              /\ Waits("merge", pendingRedeem)
              /\ pendingRedeem.amount \in Nat
              /\ QuoteWeiFor(Head(ops).wei) = pendingRedeem.amount * WeiPerUnit
<1> USE TypeInvGroups
<1>1. CASE pendingDeposit # NoDeposit /\ pendingRedeem = NoRedeem /\ Waits("split", pendingDeposit)
  <2>1. /\ pendingDeposit.amount \in Nat /\ pendingDeposit.opId \in 1 .. MaxOps
        /\ pendingDeposit.opId = nextOpId /\ pendingDeposit.amount % Granule = 0
        /\ ops = QueuedOp("split", pendingDeposit.amount) /\ result[nextOpId] = "queued"
    BY <1>1, SlotTypes DEF Waits, Ended
  <2>2. /\ Tail(ops) = << >> /\ Head(ops).kind = "split" /\ Head(ops).opId = nextOpId
        /\ Head(ops).wei = OutcomeWei(pendingDeposit.amount)
    BY <2>1, SingleOp
  <2>3. QuoteWeiFor(Head(ops).wei) = pendingDeposit.amount * WeiPerUnit
    BY <2>1, <2>2, ExactCollateral
  <2> QED
    BY <1>1, <2>1, <2>2, <2>3
<1>2. CASE pendingRedeem # NoRedeem /\ pendingDeposit = NoDeposit /\ Waits("merge", pendingRedeem)
  <2>1. /\ pendingRedeem.amount \in Nat /\ pendingRedeem.opId \in 1 .. MaxOps
        /\ pendingRedeem.opId = nextOpId /\ pendingRedeem.amount % Granule = 0
        /\ ops = QueuedOp("merge", pendingRedeem.amount) /\ result[nextOpId] = "queued"
    BY <1>2, SlotTypes DEF Waits, Ended
  <2>2. /\ Tail(ops) = << >> /\ Head(ops).kind = "merge" /\ Head(ops).opId = nextOpId
        /\ Head(ops).wei = OutcomeWei(pendingRedeem.amount)
    BY <2>1, SingleOp
  <2>3. QuoteWeiFor(Head(ops).wei) = pendingRedeem.amount * WeiPerUnit
    BY <2>1, <2>2, ExactCollateral
  <2> QED
    BY <1>2, <2>1, <2>2, <2>3
<1> QED
  BY <1>1, <1>2 DEF BackingInv, OneOperation

LEMMA FinishBacking ==
  ASSUME TypeInv, BackingInv, ops # << >>, NEW r \in {"executed", "rejected"},
         Finish(Head(ops).opId, r), UNCHANGED <<verdict, slots, settled, coreStatus>>
  PROVE  /\ OneOperation' /\ FreshOps' /\ VerdictsTrue' /\ SettledIdle'
         /\ result' = [result EXCEPT ![nextOpId] = r] /\ result'[nextOpId] = r
<1> USE DEF BackingInv, slots
<1>1. /\ nextOpId \in 1 .. MaxOps /\ result[nextOpId] = "queued"
      /\ ops' = << >> /\ result' = [result EXCEPT ![nextOpId] = r]
  BY HeadOp DEF Finish
<1>2. result'[nextOpId] = r
  BY <1>1, TypeInvGroups DEF CoreTypeOK
<1>3. OneOperation'
  <2>1. Ended'
    BY <1>1, <1>2 DEF Ended
  <2>2. CASE pendingDeposit # NoDeposit /\ pendingRedeem = NoRedeem
             /\ Waits("split", pendingDeposit)
    <3>1. pendingDeposit'.opId = nextOpId' /\ pendingDeposit'.amount % Granule = 0
      BY <2>2 DEF Waits
    <3>2. Waits("split", pendingDeposit)'
      BY <2>1, <3>1, Zenon DEF Waits
    <3> QED
      BY <2>2, <3>2 DEF OneOperation
  <2>3. CASE pendingRedeem # NoRedeem /\ pendingDeposit = NoDeposit
             /\ Waits("merge", pendingRedeem)
    <3>1. pendingRedeem'.opId = nextOpId' /\ pendingRedeem'.amount % Granule = 0
      BY <2>3 DEF Waits
    <3>2. Waits("merge", pendingRedeem)'
      BY <2>1, <3>1, Zenon DEF Waits
    <3> QED
      BY <2>3, <3>2 DEF OneOperation
  <2> QED
    BY <2>2, <2>3 DEF OneOperation
<1>4. FreshOps'
  BY <1>1 DEF FreshOps
<1>5. VerdictsTrue'
  BY <1>1 DEF VerdictsTrue
<1>6. SettledIdle'
  BY DEF SettledIdle, Idle
<1> QED
  BY <1>1, <1>2, <1>3, <1>4, <1>5, <1>6

\* pairs units of collateral, n more or less.
LEMMA CollateralMoves ==
  ASSUME NEW pairs \in Nat, NEW n \in Nat
  PROVE  /\ (pairs + n) * WeiPerUnit = pairs * WeiPerUnit + n * WeiPerUnit
         /\ pairs * WeiPerUnit \in Nat /\ n * WeiPerUnit \in Nat
<1>1. WeiPerUnit \in Nat
  BY CoreAssumption
<1> QED
  BY <1>1

LEMMA CoreOpBacking ==
  ASSUME TypeInv, BackingInv, CoreStep, ApplySplit \/ ApplyMerge \/ DropOp
  PROVE  BackingInv'
<1> USE DEF slots, final, market, tokens
<1>1. ops # << >> /\ UNCHANGED <<verdict, slots, settled, coreStatus, yesSupply, noSupply>>
  BY DEF CoreStep, ApplySplit, ApplyMerge, DropOp
<1>2. /\ Head(ops).opId = nextOpId /\ nextOpId \in 1 .. MaxOps
      /\ result[nextOpId] = "queued"
  BY <1>1, HeadOp
<1>3. yesSupply \in Nat /\ noSupply \in Nat /\ collateral \in Nat
  BY TypeInvGroups DEF YesOK, NoOK, CoreTypeOK
<1> DEFINE w == QuoteWeiFor(Head(ops).wei)
<1>4. ASSUME Head(ops).kind = "split", NEW r \in {"executed", "rejected"},
             Finish(Head(ops).opId, r),
             r = "executed" => collateral' = collateral + w,
             r = "rejected" => collateral' = collateral
      PROVE  BackingInv'
  <2>1. /\ pendingDeposit # NoDeposit /\ pendingRedeem = NoRedeem
        /\ pendingDeposit.opId = nextOpId /\ pendingDeposit.amount \in Nat
        /\ w = pendingDeposit.amount * WeiPerUnit
    BY <1>1, <1>4, HeadOp DEF Waits
  <2>2. /\ OneOperation' /\ FreshOps' /\ VerdictsTrue' /\ SettledIdle'
        /\ result'[nextOpId] = r
    BY <1>1, <1>4, FinishBacking
  <2>3. /\ SplitUnclaimed = 0 /\ MergeUndone = 0 /\ MergeUndone' = 0
        /\ SplitUnclaimed' = IF r = "executed" THEN pendingDeposit.amount ELSE 0
    BY <1>1, <1>2, <2>1, <2>2 DEF SplitUnclaimed, MergeUndone
  <2> HIDE DEF w
  <2>4. PairsBacked'
    <3> SUFFICES ASSUME ~settled
                 PROVE  /\ yesSupply = noSupply
                        /\ coreStatus = "active" =>
                             collateral' = (yesSupply + SplitUnclaimed') * WeiPerUnit
      BY <1>1, <1>3, <2>1, <2>3 DEF PairsBacked
    <3>1. yesSupply = noSupply
      BY DEF BackingInv, PairsBacked
    <3>2. ASSUME coreStatus = "active"
          PROVE  collateral = yesSupply * WeiPerUnit
      BY <1>3, <2>3, <3>2 DEF BackingInv, PairsBacked
    <3>3. (yesSupply + pendingDeposit.amount) * WeiPerUnit = yesSupply * WeiPerUnit + w
      BY <1>3, <2>1, CollateralMoves
    <3> QED
      BY <1>3, <1>4, <2>1, <2>3, <3>1, <3>2, <3>3
  <2> QED
    BY <2>2, <2>4 DEF BackingInv
<1>5. ASSUME Head(ops).kind = "merge", NEW r \in {"executed", "rejected"},
             Finish(Head(ops).opId, r),
             r = "executed" => collateral >= w /\ collateral' = collateral - w,
             r = "rejected" => collateral' = collateral
      PROVE  BackingInv'
  <2>1. /\ pendingRedeem # NoRedeem /\ pendingDeposit = NoDeposit
        /\ pendingRedeem.opId = nextOpId /\ pendingRedeem.amount \in Nat
        /\ w = pendingRedeem.amount * WeiPerUnit
    BY <1>1, <1>5, HeadOp DEF Waits
  <2>2. /\ OneOperation' /\ FreshOps' /\ VerdictsTrue' /\ SettledIdle'
        /\ result'[nextOpId] = r
    BY <1>1, <1>5, FinishBacking
  <2>3. /\ SplitUnclaimed = 0 /\ SplitUnclaimed' = 0 /\ MergeUndone = pendingRedeem.amount
        /\ MergeUndone' = IF r = "executed" THEN 0 ELSE pendingRedeem.amount
    BY <1>1, <1>2, <2>1, <2>2 DEF SplitUnclaimed, MergeUndone
  <2> HIDE DEF w
  <2>4. PairsBacked'
    <3> SUFFICES ASSUME ~settled
                 PROVE  /\ yesSupply = noSupply
                        /\ coreStatus = "active" =>
                             collateral' = (yesSupply + MergeUndone') * WeiPerUnit
      BY <1>1, <1>3, <2>1, <2>3 DEF PairsBacked
    <3>1. yesSupply = noSupply
      BY DEF BackingInv, PairsBacked
    <3>2. ASSUME coreStatus = "active"
          PROVE  collateral = (yesSupply + pendingRedeem.amount) * WeiPerUnit
      BY <1>3, <2>1, <2>3, <3>2 DEF BackingInv, PairsBacked
    <3>3. /\ (yesSupply + pendingRedeem.amount) * WeiPerUnit = yesSupply * WeiPerUnit + w
          /\ yesSupply * WeiPerUnit \in Nat /\ w \in Nat
      BY <1>3, <2>1, CollateralMoves
    <3>4. yesSupply + 0 = yesSupply
      BY <1>3
    <3> QED
      BY <1>3, <1>5, <2>1, <2>3, <3>1, <3>2, <3>3, <3>4
  <2> QED
    BY <2>2, <2>4 DEF BackingInv
<1>6. Head(ops).kind \in {"split", "merge"}
  <2>1. ops \in Seq(OutcomeOp)
    BY TypeInvGroups DEF CoreTypeOK
  <2>2. Head(ops) \in OutcomeOp
    BY <1>1, <2>1, HeadTailProperties
  <2> QED
    BY <2>2 DEF OutcomeOp
<1>7. CASE ApplySplit
  BY <1>4, <1>7 DEF ApplySplit
<1>8. CASE ApplyMerge
  BY <1>5, <1>8 DEF ApplyMerge
<1>9. CASE DropOp
  BY <1>4, <1>5, <1>6, <1>9 DEF DropOp
<1> QED
  BY <1>7, <1>8, <1>9

\* An operation that takes the slot has a number no verdict was given for.
LEMMA StartBacking ==
  ASSUME TypeInv, BackingInv, Idle, nextOpId < MaxOps, nextOpId' = nextOpId + 1,
         result' = [result EXCEPT ![nextOpId + 1] = "queued"], UNCHANGED verdict
  PROVE  /\ ops = << >> /\ FreshOps' /\ VerdictsTrue' /\ result'[nextOpId'] = "queued"
         /\ SplitUnclaimed = 0 /\ MergeUndone = 0
         /\ pendingDeposit = NoDeposit /\ pendingRedeem = NoRedeem
<1> USE DEF BackingInv
<1>1. nextOpId + 1 \in 1 .. MaxOps /\ nextOpId \in Nat
  BY TypeInvGroups, CoreAssumption DEF SlotsOK
<1>2. pendingDeposit = NoDeposit /\ pendingRedeem = NoRedeem
  BY DEF Idle
<1>3. ops = << >> /\ SplitUnclaimed = 0 /\ MergeUndone = 0
  BY <1>2 DEF OneOperation, SplitUnclaimed, MergeUndone
<1>4. \A op \in 1 .. MaxOps :
        result'[op] = IF op = nextOpId + 1 THEN "queued" ELSE result[op]
  BY <1>1, TypeInvGroups DEF CoreTypeOK
<1>5. FreshOps'
  BY <1>1, <1>4 DEF FreshOps
<1>6. result[nextOpId + 1] = "none"
  BY <1>1 DEF FreshOps
<1>7. VerdictsTrue'
  BY <1>4, <1>6 DEF VerdictsTrue
<1> QED
  BY <1>1, <1>2, <1>3, <1>4, <1>5, <1>7

LEMMA DepositBacking ==
  ASSUME TypeInv, BackingInv, NEW user \in Users, NEW n \in Nat, Deposit(user, n)
  PROVE  BackingInv'
<1>1. /\ ops = << >> /\ FreshOps' /\ VerdictsTrue' /\ result'[nextOpId'] = "queued"
      /\ SplitUnclaimed = 0 /\ MergeUndone = 0
      /\ pendingDeposit = NoDeposit /\ pendingRedeem = NoRedeem
  BY StartBacking DEF Deposit
<1>2. /\ nextOpId' = nextOpId + 1
      /\ pendingDeposit' = [user |-> user, amount |-> n, opId |-> nextOpId',
                            quoteCoreBefore |-> coreWei]
      /\ pendingRedeem' = NoRedeem
      /\ ops' = Append(<< >>, [kind |-> "split", opId |-> nextOpId', wei |-> OutcomeWei(n)])
      /\ n % Granule = 0
  BY <1>1 DEF Deposit, Expressible
<1>3. pendingDeposit' # NoDeposit
  <2>1. pendingDeposit'.user \in Users
    BY <1>2
  <2> QED
    BY <2>1, VaultAssumption DEF NoDeposit
<1>4. Waits("split", pendingDeposit)'
  <2>1. /\ pendingDeposit'.opId = nextOpId' /\ pendingDeposit'.amount = n
    BY <1>2
  <2>2. ops' = QueuedOp("split", n)'
    BY <1>2 DEF QueuedOp
  <2> QED
    BY <1>1, <1>2, <2>1, <2>2 DEF Waits
<1>5. OneOperation'
  BY <1>2, <1>3, <1>4 DEF OneOperation
<1>6. SettledIdle'
  BY DEF Deposit, SettledIdle, final
<1>7. PairsBacked'
  <2>1. pendingDeposit'.opId = nextOpId'
    BY <1>2
  <2>2. SplitUnclaimed' = 0 /\ MergeUndone' = 0
    BY <1>1, <1>2, <2>1 DEF SplitUnclaimed, MergeUndone
  <2>3. UNCHANGED <<settled, yesSupply, noSupply, coreStatus, collateral>>
    BY DEF Deposit, final, market, tokens
  <2> QED
    BY <1>1, <2>2, <2>3 DEF BackingInv, PairsBacked
<1> QED
  BY <1>1, <1>5, <1>6, <1>7 DEF BackingInv

LEMMA RequestRedeemBacking ==
  ASSUME TypeInv, BackingInv, NEW user \in Users, NEW n \in Nat, RequestRedeem(user, n)
  PROVE  BackingInv'
<1>1. /\ ops = << >> /\ FreshOps' /\ VerdictsTrue' /\ result'[nextOpId'] = "queued"
      /\ SplitUnclaimed = 0 /\ MergeUndone = 0
      /\ pendingDeposit = NoDeposit /\ pendingRedeem = NoRedeem
  BY StartBacking DEF RequestRedeem
<1>2. /\ nextOpId' = nextOpId + 1
      /\ pendingRedeem' = [user |-> user, amount |-> n, opId |-> nextOpId']
      /\ pendingDeposit' = NoDeposit
      /\ ops' = Append(<< >>, [kind |-> "merge", opId |-> nextOpId', wei |-> OutcomeWei(n)])
      /\ n % Granule = 0
  BY <1>1 DEF RequestRedeem, Expressible
<1>3. pendingRedeem' # NoRedeem
  <2>1. pendingRedeem'.user \in Users
    BY <1>2
  <2> QED
    BY <2>1, VaultAssumption DEF NoRedeem
<1>4. Waits("merge", pendingRedeem)'
  <2>1. /\ pendingRedeem'.opId = nextOpId' /\ pendingRedeem'.amount = n
    BY <1>2
  <2>2. ops' = QueuedOp("merge", n)'
    BY <1>2 DEF QueuedOp
  <2> QED
    BY <1>1, <1>2, <2>1, <2>2 DEF Waits
<1>5. OneOperation'
  BY <1>2, <1>3, <1>4 DEF OneOperation
<1>6. SettledIdle'
  BY DEF RequestRedeem, SettledIdle, final
<1>7. PairsBacked'
  <2>1. pendingRedeem'.opId = nextOpId' /\ pendingRedeem'.amount = n
    BY <1>2
  <2>2. SplitUnclaimed' = 0 /\ MergeUndone' = n
    BY <1>1, <1>2, <1>3, <2>1 DEF SplitUnclaimed, MergeUndone
  <2>3. /\ UNCHANGED <<settled, coreStatus, collateral>>
        /\ yesSupply' = yesSupply - n /\ noSupply' = noSupply - n
    BY DEF RequestRedeem, final, market
  <2>4. yesSupply \in Nat /\ noSupply \in Nat /\ n <= yesSupply
    BY TypeInvGroups, BurnTypes DEF RequestRedeem, YesOK, NoOK
  <2>5. yesSupply' + SplitUnclaimed' + MergeUndone' = yesSupply + SplitUnclaimed + MergeUndone
    BY <1>1, <2>2, <2>3, <2>4
  <2> QED
    BY <2>3, <2>5 DEF BackingInv, PairsBacked
<1> QED
  BY <1>1, <1>5, <1>6, <1>7 DEF BackingInv

\* The slot is cleared once Core has ended its operation, and the verdict that
\* clears it says how.
LEMMA ResolveBacking ==
  ASSUME TypeInv, BackingInv, ClaimDeposit \/ CancelDeposit \/ ClaimRedeem \/ CancelRedeem
  PROVE  BackingInv'
<1>1. verifier \in Verifiers
  BY TypeInvGroups DEF RolesOK
<1>2. yesSupply \in Nat /\ noSupply \in Nat
  BY TypeInvGroups DEF YesOK, NoOK
<1>3. /\ UNCHANGED <<verdict, result, nextOpId, ops, settled, coreStatus, collateral>>
      /\ ~settled
  BY DEF ClaimDeposit, CancelDeposit, ClaimRedeem, CancelRedeem, core, final, market,
     BackingInv, SettledIdle, Idle
<1>4. FreshOps' /\ VerdictsTrue' /\ SettledIdle'
  BY <1>3 DEF BackingInv, FreshOps, VerdictsTrue, SettledIdle
<1>5. \A op \in 1 .. MaxOps :
        /\ StatusOf(op) = "Executed" => result[op] = "executed"
        /\ StatusOf(op) = "Failed" => result[op] = "rejected"
  BY <1>1 DEF BackingInv, VerdictsTrue, StatusOf
<1>6. CASE ClaimDeposit \/ CancelDeposit
  <2>1. /\ pendingDeposit # NoDeposit /\ pendingRedeem = NoRedeem
        /\ Waits("split", pendingDeposit)
        /\ pendingDeposit.amount \in Nat /\ pendingDeposit.opId \in 1 .. MaxOps
    BY <1>6, TypeInvGroups, SlotTypes DEF ClaimDeposit, CancelDeposit, BackingInv, OneOperation, Idle
  <2>0. /\ StatusOf(pendingDeposit.opId) = "Executed" => result[pendingDeposit.opId] = "executed"
        /\ StatusOf(pendingDeposit.opId) = "Failed" => result[pendingDeposit.opId] = "rejected"
    BY <1>5, <2>1
  <2>2. result[pendingDeposit.opId] \in {"executed", "rejected"}
    BY <1>6, <2>0 DEF ClaimDeposit, CancelDeposit
  <2>3. pendingDeposit' = NoDeposit /\ pendingRedeem' = NoRedeem /\ ops = << >>
    BY <1>6, <2>1, <2>2 DEF ClaimDeposit, CancelDeposit, Waits, Ended
  <2>4. OneOperation'
    BY <1>3, <2>3 DEF OneOperation, Idle
  <2>5. SplitUnclaimed' = 0 /\ MergeUndone' = 0 /\ MergeUndone = 0
    BY <2>1, <2>3 DEF SplitUnclaimed, MergeUndone
  <2>6. CASE ClaimDeposit
    <3>1. SplitUnclaimed = pendingDeposit.amount
      BY <2>0, <2>1, <2>6 DEF ClaimDeposit, SplitUnclaimed
    <3>2. /\ yesSupply' = yesSupply + pendingDeposit.amount
          /\ noSupply' = noSupply + pendingDeposit.amount
      BY <2>6 DEF ClaimDeposit, MintPair
    <3>3. yesSupply' + SplitUnclaimed' + MergeUndone' = yesSupply + SplitUnclaimed + MergeUndone
      BY <1>2, <2>1, <2>5, <3>1, <3>2
    <3>4. PairsBacked'
      BY <1>3, <3>2, <3>3 DEF BackingInv, PairsBacked
    <3> QED
      BY <1>4, <2>4, <3>4 DEF BackingInv
  <2>7. CASE CancelDeposit
    <3>1. SplitUnclaimed = 0
      BY <2>0, <2>1, <2>7 DEF CancelDeposit, SplitUnclaimed
    <3>2. yesSupply' = yesSupply /\ noSupply' = noSupply
      BY <2>7 DEF CancelDeposit, tokens
    <3>3. PairsBacked'
      BY <1>3, <2>5, <3>1, <3>2 DEF BackingInv, PairsBacked
    <3> QED
      BY <1>4, <2>4, <3>3 DEF BackingInv
  <2> QED
    BY <1>6, <2>6, <2>7
<1>7. CASE ClaimRedeem \/ CancelRedeem
  <2>1. /\ pendingRedeem # NoRedeem /\ pendingDeposit = NoDeposit
        /\ Waits("merge", pendingRedeem)
        /\ pendingRedeem.amount \in Nat /\ pendingRedeem.opId \in 1 .. MaxOps
    BY <1>7, TypeInvGroups, SlotTypes DEF ClaimRedeem, CancelRedeem, BackingInv, OneOperation, Idle
  <2>0. /\ StatusOf(pendingRedeem.opId) = "Executed" => result[pendingRedeem.opId] = "executed"
        /\ StatusOf(pendingRedeem.opId) = "Failed" => result[pendingRedeem.opId] = "rejected"
    BY <1>5, <2>1
  <2>2. result[pendingRedeem.opId] \in {"executed", "rejected"}
    BY <1>7, <2>0 DEF ClaimRedeem, CancelRedeem
  <2>3. pendingRedeem' = NoRedeem /\ pendingDeposit' = NoDeposit /\ ops = << >>
    BY <1>7, <2>1, <2>2 DEF ClaimRedeem, CancelRedeem, Waits, Ended
  <2>4. OneOperation'
    BY <1>3, <2>3 DEF OneOperation, Idle
  <2>5. SplitUnclaimed' = 0 /\ MergeUndone' = 0 /\ SplitUnclaimed = 0
    BY <2>1, <2>3 DEF SplitUnclaimed, MergeUndone
  <2>6. CASE CancelRedeem
    <3>1. MergeUndone = pendingRedeem.amount
      BY <2>0, <2>1, <2>6 DEF CancelRedeem, MergeUndone
    <3>2. /\ yesSupply' = yesSupply + pendingRedeem.amount
          /\ noSupply' = noSupply + pendingRedeem.amount
      BY <2>6 DEF CancelRedeem, MintPair
    <3>3. yesSupply' + SplitUnclaimed' + MergeUndone' = yesSupply + SplitUnclaimed + MergeUndone
      BY <1>2, <2>1, <2>5, <3>1, <3>2
    <3>4. PairsBacked'
      BY <1>3, <3>2, <3>3 DEF BackingInv, PairsBacked
    <3> QED
      BY <1>4, <2>4, <3>4 DEF BackingInv
  <2>7. CASE ClaimRedeem
    <3>1. MergeUndone = 0
      BY <2>0, <2>1, <2>7 DEF ClaimRedeem, MergeUndone
    <3>2. yesSupply' = yesSupply /\ noSupply' = noSupply
      BY <2>7 DEF ClaimRedeem, tokens
    <3>3. PairsBacked'
      BY <1>3, <2>5, <3>1, <3>2 DEF BackingInv, PairsBacked
    <3> QED
      BY <1>4, <2>4, <3>3 DEF BackingInv
  <2> QED
    BY <1>7, <2>6, <2>7
<1> QED
  BY <1>6, <1>7

LEMMA NextBacking ==
  ASSUME TypeInv, BackingInv, [Next]_vars
  PROVE  BackingInv'
<1>1. Amounts \subseteq Nat /\ Relayed \subseteq Nat
  BY VaultAssumption
<1>2. ASSUME NEW user \in Users, NEW n \in Amounts,
             \/ Deposit(user, n)
             \/ RequestRedeem(user, n)
             \/ RedeemYes(user, n)
             \/ RedeemNo(user, n)
             \/ \E to \in Users : TransferYes(user, to, n) \/ TransferNo(user, to, n)
      PROVE  BackingInv'
  <2>1. n \in Nat
    BY <1>1
  <2> QED
    BY <1>2, <2>1, DepositBacking, RequestRedeemBacking, SettleBacking, QuietSteps
<1>3. CASE CoreStep
  BY <1>3, QuietSteps, MarketBacking, CoreOpBacking DEF CoreStep, CoreNext
<1>4. ASSUME NEW v \in Verifiers, NEW op \in 1 .. MaxOps, Attest(v, op)
      PROVE  BackingInv'
  BY <1>4, AttestBacking
<1>5. ASSUME NEW caller \in Keepers, NEW f \in Relayed, Settle(caller, f)
      PROVE  BackingInv'
  BY <1>5, SettleBacking
<1>6. CASE ClaimDeposit \/ CancelDeposit \/ ClaimRedeem \/ CancelRedeem
  BY <1>6, ResolveBacking
<1> QED
  BY <1>2, <1>3, <1>4, <1>5, <1>6, QuietSteps DEF Next

\* Until settlement every oYES has its oNO, and while the outcome trades Core holds
\* exactly the collateral of the pairs, of splits not yet claimed and of redeems
\* not yet merged, whatever Core drops or loses and whoever clears a slot
\* (OutcomeVault.sol, claimDeposit, requestRedeem, cancelRedeem).
THEOREM PairsAreBacked == Spec => []PairsBacked
<1>1. Init => TypeInv /\ BackingInv
  BY InitType, InitBacking
<1>2. TypeInv /\ BackingInv /\ [Next]_vars => TypeInv' /\ BackingInv'
  BY NextType, StutterType, NextBacking
<1>3. BackingInv => PairsBacked
  BY DEF BackingInv
<1> QED
  BY <1>1, <1>2, <1>3, PTL DEF Spec

-----------------------------------------------------------------------------
(***************************************************************************)
(* The settlement pool.                                                    *)
(***************************************************************************)
LEMMA CancelFactor ==
  ASSUME NEW x \in Int, NEW y \in Int, NEW d \in Nat \ {0}, x * d <= y * d
  PROVE  x <= y
<1>1. SUFFICES ASSUME y + 1 <= x PROVE FALSE
  OBVIOUS
<1>2. (y + 1) * d <= x * d
  BY <1>1
<1>3. (y + 1) * d = y * d + d /\ y * d \in Int /\ x * d \in Int
  OBVIOUS
<1> QED
  BY <1>2, <1>3

\* Two parts rounded down are together at most the whole rounded down.
LEMMA FloorsAdd ==
  ASSUME NEW a \in Nat, NEW b \in Nat, NEW d \in Nat \ {0}, b <= a
  PROVE  (a - b) \div d + b \div d <= a \div d
<1> DEFINE p == (a - b) \div d
           q == b \div d
           r == a \div d
<1>1. /\ p \in Nat /\ q \in Nat /\ r \in Nat
      /\ p * d <= a - b /\ q * d <= b /\ a < r * d + d
  <2>1. a - b \in Nat
    OBVIOUS
  <2> QED
    BY <2>1, Quotients
<1> HIDE DEF p, q, r
<1>2. (p + q) * d = p * d + q * d /\ (r + 1) * d = r * d + d
  BY <1>1
<1>3. /\ p * d \in Int /\ q * d \in Int /\ r * d \in Int
  BY <1>1
<1>4. p + q <= r
  <2>1. SUFFICES ASSUME r + 1 <= p + q PROVE FALSE
    BY <1>1
  <2>2. (r + 1) * d <= (p + q) * d
    BY <1>1, <2>1
  <2> QED
    BY <1>1, <1>2, <1>3, <2>2
<1> QED
  BY <1>4 DEF p, q, r

\* A pool of U for claims of O pays one claim e, in full or pro rata, and stays as
\* good for the O2 that remain.
LEMMA PoolPays ==
  ASSUME NEW U \in Nat, NEW O \in Nat, NEW O2 \in Nat, NEW e \in Nat, NEW p \in Nat,
         O2 + e <= O,
         p = IF O > U THEN (e * U) \div O ELSE e
  PROVE  /\ p <= U
         /\ U * 10000 >= O * 9900 => (U - p) * 10000 >= O2 * 9900
<1>1. CASE O <= U
  BY <1>1
<1>2. CASE O > U
  <2>1. O \in Nat \ {0} /\ e * U \in Nat
    BY <1>2
  <2>2. p = (e * U) \div O
    BY <1>2
  <2>3. p * O <= e * U
    BY <2>1, <2>2, Quotients
  <2>4. e * U <= O * U /\ O * U = U * O
    BY SMTT(30)
  <2>5. /\ p * O \in Int /\ e * U \in Int /\ O * U \in Int /\ U * O \in Int
        /\ (U - p) * O = U * O - p * O
        /\ U * (O - e) = U * O - e * U
    BY SMTT(30)
  <2>6. p <= U
    <3>1. p * O <= U * O
      BY <2>3, <2>4, <2>5
    <3> QED
      BY <2>1, <3>1, CancelFactor
  <2>7. ASSUME U * 10000 >= O * 9900
        PROVE  (U - p) * 10000 >= O2 * 9900
    <3> DEFINE x == O - e
               v == U - p
    <3>1. x \in Nat /\ v \in Nat /\ O2 <= x
      BY <2>6
    <3>2. v * O >= U * x
      BY <2>3, <2>5
    <3> HIDE DEF x, v
    <3>3. (U * 10000) * x >= (O * 9900) * x
      BY <2>7, <3>1, SMTT(30)
    <3>4. /\ (U * 10000) * x = (U * x) * 10000
          /\ (O * 9900) * x = (x * 9900) * O
          /\ (v * O) * 10000 = (v * 10000) * O
          /\ U * x \in Int /\ v * O \in Int
      BY <3>1, SMTT(30)
    <3> DEFINE ux == U * x
               vO == v * O
               left == (O * 9900) * x
               mid == (U * 10000) * x
               owes == (x * 9900) * O
               has == (v * 10000) * O
    <3>7. /\ left \in Int /\ mid \in Int /\ ux \in Int /\ vO \in Int
          /\ left <= mid /\ ux <= vO
          /\ mid = ux * 10000 /\ left = owes
          /\ vO * 10000 = has
      BY <3>1, <3>2, <3>3, <3>4
    <3> HIDE DEF ux, vO, left, mid, owes, has
    <3>5. owes <= has
      BY <3>7
    <3>6. x * 9900 <= v * 10000
      BY <2>1, <3>1, <3>5, CancelFactor DEF owes, has
    <3> QED
      BY <3>1, <3>6 DEF v
  <2> QED
    BY <2>6, <2>7
<1> QED
  BY <1>1, <1>2

\* What a redemption after settlement takes from the pool and from what it owes.
LEMMA RedeemFromPool ==
  ASSUME TypeInv, NEW user \in Users, NEW n \in Nat,
         RedeemYes(user, n) \/ RedeemNo(user, n)
  PROVE  \E e \in Nat, payout \in Nat :
           /\ payout = ProRata(e) /\ payout > 0
           /\ Obligation' \in Nat /\ Obligation' + e <= Obligation
           /\ bal >= payout /\ bal' = bal - payout
           /\ totalPaidOutEvm' = totalPaidOutEvm + payout
<1> USE TypeInvGroups
<1>1. /\ One \in Nat \ {0} /\ settleFraction \in Nat /\ One - settleFraction \in Nat
      /\ settleFraction \in 0 .. One /\ One - settleFraction \in 0 .. One
  BY CoreAssumption DEF FinalOK
<1>2. yesSupply \in Nat /\ noSupply \in Nat
  BY DEF YesOK, NoOK
<1> DEFINE all == yesSupply * settleFraction + noSupply * (One - settleFraction)
<1>3. all \in Nat /\ Obligation = all \div One
  BY <1>1, <1>2 DEF Obligation
<1>4. ASSUME NEW fraction \in 0 .. One, RedeemSettled(n, fraction),
             n * fraction <= all, Obligation' = (all - n * fraction) \div One
      PROVE  \E e \in Nat, payout \in Nat :
               /\ payout = ProRata(e) /\ payout > 0
               /\ Obligation' \in Nat /\ Obligation' + e <= Obligation
               /\ bal >= payout /\ bal' = bal - payout
               /\ totalPaidOutEvm' = totalPaidOutEvm + payout
  <2> DEFINE e == (n * fraction) \div One
             payout == ProRata(e)
  <2>1. e \in Nat /\ payout \in Nat
    BY ShareFits
  <2>2. payout > 0 /\ bal >= payout /\ bal' = bal - payout
        /\ totalPaidOutEvm' = totalPaidOutEvm + payout
    BY <1>4 DEF RedeemSettled, PayFromBalance
  <2>3. n * fraction \in Nat /\ all - n * fraction \in Nat
    BY <1>1, <1>3, <1>4
  <2>4. Obligation' \in Nat
    BY <1>1, <1>4, <2>3, Quotients
  <2>5. (all - n * fraction) \div One + e <= all \div One
    BY <1>1, <1>3, <1>4, <2>3, FloorsAdd
  <2> HIDE DEF e, payout, all
  <2>6. Obligation' + e <= Obligation
    BY <1>3, <1>4, <2>5
  <2>7. payout = ProRata(e)
    BY DEF payout
  <2> QED
    BY <2>1, <2>2, <2>4, <2>6, <2>7
<1>5. CASE RedeemYes(user, n)
  <2>1. n <= yesSupply
    BY <1>5, BurnTypes DEF RedeemYes
  <2>2. /\ yesSupply' = yesSupply - n /\ noSupply' = noSupply
        /\ settleFraction' = settleFraction /\ RedeemSettled(n, settleFraction)
    BY <1>5 DEF RedeemYes, RedeemSettled, final
  <2>3. /\ n * settleFraction <= yesSupply * settleFraction
        /\ (yesSupply - n) * settleFraction = yesSupply * settleFraction - n * settleFraction
        /\ n * settleFraction \in Nat /\ yesSupply * settleFraction \in Nat
        /\ noSupply * (One - settleFraction) \in Nat
    BY <1>1, <1>2, <2>1, SMTT(30)
  <2>4. n * settleFraction <= all
    BY <2>3
  <2>5. Obligation' = (all - n * settleFraction) \div One
    <3>1. Obligation' = ((yesSupply - n) * settleFraction
                           + noSupply * (One - settleFraction)) \div One
      BY <2>2 DEF Obligation
    <3>2. (yesSupply - n) * settleFraction + noSupply * (One - settleFraction)
            = all - n * settleFraction
      BY <2>3
    <3> QED
      BY <3>1, <3>2
  <2> QED
    BY <1>1, <1>4, <2>2, <2>4, <2>5
<1>6. CASE RedeemNo(user, n)
  <2>1. n <= noSupply
    BY <1>6, BurnTypes DEF RedeemNo
  <2> DEFINE f == One - settleFraction
  <2>2. /\ noSupply' = noSupply - n /\ yesSupply' = yesSupply
        /\ settleFraction' = settleFraction /\ RedeemSettled(n, f)
    BY <1>6 DEF RedeemNo, RedeemSettled, final
  <2>3. /\ n * f <= noSupply * f
        /\ (noSupply - n) * f = noSupply * f - n * f
        /\ n * f \in Nat /\ noSupply * f \in Nat
        /\ yesSupply * settleFraction \in Nat
    BY <1>1, <1>2, <2>1, SMTT(30)
  <2>4. n * f <= all
    BY <2>3
  <2>5. Obligation' = (all - n * f) \div One
    <3>1. Obligation' = (yesSupply * settleFraction + (noSupply - n) * f) \div One
      BY <2>2 DEF Obligation
    <3>2. yesSupply * settleFraction + (noSupply - n) * f = all - n * f
      BY <2>3
    <3> QED
      BY <3>1, <3>2
  <2> QED
    BY <1>1, <1>4, <2>2, <2>4, <2>5
<1> QED
  BY <1>5, <1>6

LEMMA PoolGrows ==
  ASSUME TypeInv, PoolCovers, UNCHANGED <<yesSupply, noSupply, settleFraction>>,
         NEW grown \in Nat, Unreserved' = grown, grown >= Unreserved
  PROVE  PoolCovers'
<1>1. 0 \in Nat /\ 0 \in 0 .. One
  BY CoreAssumption
<1>2. Unreserved \in Nat /\ Obligation \in Nat
  BY <1>1, ShareFits
<1>3. Obligation' = Obligation
  BY DEF Obligation
<1>4. Unreserved * 10000 >= Obligation * 9900
  BY DEF PoolCovers, PayoutMinBps
<1>5. grown * 10000 >= Obligation * 9900
  BY <1>2, <1>4
<1> QED
  BY <1>3, <1>5 DEF PoolCovers, PayoutMinBps

LEMMA PoolStep ==
  ASSUME TypeInv, BackingInv, settled, PoolCovers, [Next]_vars
  PROVE  PoolCovers'
<1> USE DEF tokens, final, market, debts
<1>1. bal \in Nat /\ totalOwed \in Nat
  BY TypeInvGroups DEF CoreTypeOK, DebtsOK
<1>2. Amounts \subseteq Nat
  BY VaultAssumption
<1>3. pendingDeposit = NoDeposit /\ pendingRedeem = NoRedeem
  BY DEF BackingInv, SettledIdle, Idle
<1>4. Unreserved \in Nat /\ Obligation \in Nat
  <2>1. 0 \in Nat /\ 0 \in 0 .. One
    BY CoreAssumption
  <2> QED
    BY <2>1, ShareFits
<1>5. ASSUME UNCHANGED <<yesSupply, noSupply, settleFraction, totalOwed>>,
             NEW b \in Nat, bal' = b, b >= bal
      PROVE  PoolCovers'
  <2>1. Unreserved' = Less(b, totalOwed)
    BY <1>5 DEF Unreserved
  <2>2. Less(b, totalOwed) \in Nat /\ Less(b, totalOwed) >= Unreserved
    BY <1>1, <1>5 DEF Unreserved, Less
  <2> QED
    BY <1>5, <2>1, <2>2, PoolGrows
<1>6. ASSUME NEW user \in Users, NEW n \in Amounts,
             RedeemYes(user, n) \/ RedeemNo(user, n)
      PROVE  PoolCovers'
  <2>1. PICK e \in Nat, payout \in Nat :
          /\ payout = ProRata(e) /\ payout > 0
          /\ Obligation' \in Nat /\ Obligation' + e <= Obligation
          /\ bal >= payout /\ bal' = bal - payout
    BY <1>2, <1>6, RedeemFromPool
  <2>5. PICK left \in Nat : left = Obligation'
    BY <2>1
  <2>6. left + e <= Obligation
    BY <2>1, <2>5
  <2>2. payout <= Unreserved /\ (Unreserved - payout) * 10000 >= left * 9900
    <3>1. payout = IF Obligation > Unreserved THEN (e * Unreserved) \div Obligation ELSE e
      BY <2>1 DEF ProRata
    <3>2. Unreserved * 10000 >= Obligation * 9900
      BY DEF PoolCovers, PayoutMinBps
    <3> QED
      BY <1>4, <2>6, <3>1, <3>2, PoolPays
  <2>3. totalOwed' = totalOwed
    BY <1>6 DEF RedeemYes, RedeemNo, RedeemSettled
  <2>4. Unreserved' = Unreserved - payout
    BY <1>1, <2>1, <2>2, <2>3 DEF Unreserved, Less
  <2> QED
    BY <2>2, <2>4, <2>5 DEF PoolCovers, PayoutMinBps
<1>7. ASSUME NEW user \in Users, Withdraw(user)
      PROVE  PoolCovers'
  <2>1. owed[user] \in Nat /\ owed[user] <= totalOwed
    BY <1>7, WithdrawType, TypeInvGroups DEF DebtsOK
  <2>2. bal >= owed[user] /\ bal' = bal - owed[user] /\ totalOwed' = totalOwed - owed[user]
    BY <1>7 DEF Withdraw, PayFromBalance
  <2>3. Unreserved' = Unreserved
    BY <1>1, <2>1, <2>2 DEF Unreserved, Less
  <2> QED
    BY <1>4, <1>7, <2>3, PoolGrows DEF Withdraw
<1>8. CASE CoreStep
  <2>1. bal' \in Nat /\ bal' >= bal
    <3>1. CASE ApplySend
      <4>1. sends # << >> /\ sends \in Seq(Nat)
        BY <3>1, TypeInvGroups DEF ApplySend, CoreTypeOK
      <4>2. Head(sends) \in Nat
        BY <4>1, HeadTailProperties
      <4>3. Head(sends) \div WeiPerUnit \in Nat
        BY <4>2, CoreAssumption, Quotients
      <4> QED
        BY <1>1, <3>1, <4>3 DEF ApplySend
    <3>2. CASE ~ApplySend
      <4>1. bal' = bal
        BY <1>8, <3>2 DEF CoreStep, CoreNext, CreditTransfers, LoseTransfers, ApplySplit,
           ApplyMerge, DropOp, DropSend, CreditStray, SettleOutcome, PruneOutcome,
           CreditSettlement
      <4> QED
        BY <1>1, <4>1
    <3> QED
      BY <3>1, <3>2
  <2> QED
    BY <1>5, <1>8, <2>1 DEF CoreStep
<1>9. ASSUME NEW v \in Verifiers, NEW op \in 1 .. MaxOps, Attest(v, op)
      PROVE  PoolCovers'
  BY <1>1, <1>5, <1>9 DEF Attest, core
<1>10. CASE Donate
  <2>1. bal' \in Nat /\ bal' >= bal
    BY <1>1, <1>10, VaultAssumption DEF Donate
  <2> QED
    BY <1>5, <1>10, <2>1 DEF Donate
<1>11. ASSUME NEW caller \in Owners,
              \/ \E v \in Verifiers : SetVerifier(caller, v)
              \/ \E k \in Keepers : SetKeeper(caller, k)
              \/ \E o \in Owners : SetOwner(caller, o)
              \/ ClearOutbound(caller)
       PROVE  PoolCovers'
  <2>1. UNCHANGED <<bal, yesSupply, noSupply, settleFraction, totalOwed>>
    BY <1>11 DEF SetVerifier, SetKeeper, SetOwner, ClearOutbound, core
  <2> QED
    BY <1>1, <1>5, <2>1
<1>12. ASSUME NEW user \in Users, NEW n \in Amounts, NEW to \in Users,
              TransferYes(user, to, n) \/ TransferNo(user, to, n)
       PROVE  PoolCovers'
  <2>1. UNCHANGED <<bal, yesSupply, noSupply, settleFraction, totalOwed>>
    BY <1>12 DEF TransferYes, TransferNo, core
  <2> QED
    BY <1>1, <1>5, <2>1
<1>13. CASE PullSettledFunds
  BY <1>1, <1>5, <1>13 DEF PullSettledFunds
<1>14. CASE UNCHANGED vars
  BY <1>1, <1>5, <1>14 DEF vars, core
<1> QED
  BY <1>3, <1>6, <1>7, <1>8, <1>9, <1>10, <1>11, <1>12, <1>13, <1>14
     DEF Next, Deposit, RequestRedeem, ClaimDeposit, CancelDeposit, ClaimRedeem,
         CancelRedeem, Settle

\* No order of redemptions, withdrawals, pulls and late sends leaves a pool that
\* covered the outstanding tokens short for those that redeem last
\* (OutcomeVault.sol, _redeemSettled and withdraw).
THEOREM PoolRemainsCovered == Spec => PoolStaysCovered
<1>1. Init => TypeInv /\ BackingInv
  BY InitType, InitBacking
<1>2. TypeInv /\ BackingInv /\ [Next]_vars => TypeInv' /\ BackingInv'
  BY NextType, StutterType, NextBacking
<1>3. TypeInv /\ BackingInv /\ [Next]_vars => [settled /\ PoolCovers => PoolCovers']_vars
  BY PoolStep
<1> QED
  BY <1>1, <1>2, <1>3, PTL DEF Spec, PoolStaysCovered

-----------------------------------------------------------------------------
(***************************************************************************)
(* Queued sends.  c[i] is what the first i sends carry, in quote units; a  *)
(* send of the vault is a positive whole number of units.                  *)
(***************************************************************************)
WholeUnits(q) == \A i \in 1 .. Len(q) : q[i] > 0 /\ q[i] % WeiPerUnit = 0

UnitSums(c, q) ==
  /\ c \in [0 .. Len(q) -> Nat]
  /\ c[0] = 0
  /\ \A i \in 1 .. Len(q) : c[i] = c[i - 1] + q[i] \div WeiPerUnit
  /\ \A i, j \in 0 .. Len(q) : i <= j => c[i] <= c[j]

LEMMA UnitsOfNone ==
  WholeUnits(<< >>) /\ \E c : UnitSums(c, << >>) /\ c[0] = 0
<1> DEFINE c == [i \in 0 .. 0 |-> 0]
<1>1. UnitSums(c, << >>) /\ c[0] = 0
  BY DEF UnitSums
<1> QED
  BY <1>1 DEF WholeUnits

LEMMA UnitsAppend ==
  ASSUME NEW q \in Seq(Nat), NEW x \in Nat, NEW c, UnitSums(c, q)
  PROVE  \E d : /\ UnitSums(d, Append(q, x))
               /\ d[Len(q) + 1] = c[Len(q)] + x \div WeiPerUnit
               /\ \A i \in 0 .. Len(q) : d[i] = c[i]
<1> DEFINE n == Len(q)
           u == x \div WeiPerUnit
           r == Append(q, x)
           d == [i \in 0 .. n + 1 |-> IF i <= n THEN c[i] ELSE c[n] + u]
<1>1. u \in Nat /\ n \in Nat
  BY Quotients, CoreAssumption
<1>2. /\ r \in Seq(Nat) /\ Len(r) = n + 1 /\ r[n + 1] = x
      /\ \A i \in 1 .. n : r[i] = q[i]
  BY AppendProperties
<1>3. /\ c \in [0 .. n -> Nat] /\ c[0] = 0
      /\ \A i \in 1 .. n : c[i] = c[i - 1] + q[i] \div WeiPerUnit
      /\ \A i, j \in 0 .. n : i <= j => c[i] <= c[j]
  BY DEF UnitSums
<1> HIDE DEF n, u, r
<1>4. d \in [0 .. n + 1 -> Nat] /\ d[0] = 0 /\ d[n + 1] = c[n] + u
  BY <1>1, <1>3
<1>5. \A i \in 0 .. n : d[i] = c[i]
  BY <1>1
<1> HIDE DEF d
<1>6. \A i \in 1 .. n + 1 : d[i] = d[i - 1] + r[i] \div WeiPerUnit
  <2> TAKE i \in 1 .. n + 1
  <2>1. CASE i <= n
    BY SMTT(40), <1>1, <1>2, <1>3, <1>5, <2>1
  <2>2. CASE i = n + 1
    BY <1>1, <1>2, <1>4, <1>5, <2>2 DEF u
  <2> QED
    BY <1>1, <2>1, <2>2
<1>7. \A i, j \in 0 .. n + 1 : i <= j => d[i] <= d[j]
  <2> SUFFICES ASSUME NEW i \in 0 .. n + 1, NEW j \in 0 .. n + 1, i <= j
               PROVE  d[i] <= d[j]
    OBVIOUS
  <2>1. CASE j <= n
    BY <1>1, <1>3, <1>5, <2>1
  <2>2. CASE i <= n /\ j = n + 1
    <3>1. c[i] <= c[n] /\ c[i] \in Nat /\ c[n] \in Nat
      BY <1>1, <1>3, <2>2
    <3> QED
      BY <1>1, <1>4, <1>5, <2>2, <3>1
  <2>3. CASE i = n + 1
    BY <1>1, <1>4, <2>3
  <2> QED
    BY <1>1, <2>1, <2>2, <2>3
<1> QED
  BY ZenonT(40), <1>2, <1>4, <1>5, <1>6, <1>7 DEF UnitSums, n, u, r

LEMMA UnitsTail ==
  ASSUME NEW q \in Seq(Nat), q # << >>, NEW c, UnitSums(c, q), WholeUnits(q)
  PROVE  /\ WholeUnits(Tail(q)) /\ Len(Tail(q)) = Len(q) - 1 /\ Len(q) \in Nat \ {0}
         /\ Head(q) \in Nat /\ Head(q) > 0 /\ Head(q) % WeiPerUnit = 0
         /\ \E d : /\ UnitSums(d, Tail(q))
                  /\ \A i \in 0 .. Len(q) - 1 :
                        /\ Head(q) \div WeiPerUnit <= c[i + 1]
                        /\ d[i] = c[i + 1] - Head(q) \div WeiPerUnit
<1> DEFINE n == Len(q)
           h == Head(q) \div WeiPerUnit
           t == Tail(q)
           d == [i \in 0 .. n - 1 |-> c[i + 1] - h]
<1>1. n \in Nat \ {0} /\ q[1] = Head(q) /\ Head(q) \in Nat
  BY EmptySeq, HeadTailProperties
<1>2. h \in Nat
  BY <1>1, Quotients, CoreAssumption
<1>3. t \in Seq(Nat) /\ Len(t) = n - 1 /\ \A i \in 1 .. n - 1 : t[i] = q[i + 1]
  BY HeadTailProperties
<1>4. /\ c \in [0 .. n -> Nat] /\ c[0] = 0
      /\ \A i \in 1 .. n : c[i] = c[i - 1] + q[i] \div WeiPerUnit
      /\ \A i, j \in 0 .. n : i <= j => c[i] <= c[j]
  BY DEF UnitSums
<1>5. \A i \in 1 .. n : q[i] > 0 /\ q[i] % WeiPerUnit = 0
  BY DEF WholeUnits
<1>6. c[1] = h
  BY <1>1, <1>2, <1>4
<1> HIDE DEF n, h, t
<1>7. \A i \in 0 .. n - 1 : h <= c[i + 1]
  BY <1>1, <1>4, <1>6
<1>8. d \in [0 .. n - 1 -> Nat] /\ d[0] = 0
  <2>1. \A i \in 0 .. n - 1 : c[i + 1] \in Nat /\ c[i + 1] - h \in Nat
    BY <1>1, <1>2, <1>4, <1>7
  <2>2. d[0] = 0
    BY <1>1, <1>2, <1>6
  <2> QED
    BY <2>1, <2>2
<1>9. \A i \in 0 .. n - 1 : d[i] = c[i + 1] - h
  OBVIOUS
<1> HIDE DEF d
<1>10. \A i \in 1 .. n - 1 : d[i] = d[i - 1] + t[i] \div WeiPerUnit
  <2> TAKE i \in 1 .. n - 1
  <2>1. c[i + 1] = c[i] + q[i + 1] \div WeiPerUnit /\ c[i + 1] \in Nat /\ c[i] \in Nat
    BY SMTT(40), <1>1, <1>4
  <2>2. d[i] = c[i + 1] - h /\ d[i - 1] = c[i] - h /\ t[i] = q[i + 1]
    BY <1>1, <1>3, <1>9
  <2>3. q[i + 1] \div WeiPerUnit \in Nat
    <3>1. q[i + 1] \in Nat
      BY <1>1 DEF n
    <3> QED
      BY <3>1, Quotients, CoreAssumption
  <2> QED
    BY <1>2, <2>1, <2>2, <2>3
<1>11. \A i, j \in 0 .. n - 1 : i <= j => d[i] <= d[j]
  <2> SUFFICES ASSUME NEW i \in 0 .. n - 1, NEW j \in 0 .. n - 1, i <= j
               PROVE  d[i] <= d[j]
    OBVIOUS
  <2>1. c[i + 1] <= c[j + 1] /\ c[i + 1] \in Nat /\ c[j + 1] \in Nat
    BY <1>1, <1>4
  <2> QED
    BY <1>2, <1>9, <2>1
<1>12. WholeUnits(t)
  <2>1. \A i \in 1 .. n - 1 : t[i] > 0 /\ t[i] % WeiPerUnit = 0
    <3> TAKE i \in 1 .. n - 1
    <3>1. i + 1 \in 1 .. n /\ t[i] = q[i + 1]
      BY <1>1, <1>3
    <3> QED
      BY <1>5, <3>1
  <2> QED
    BY <1>3, <2>1 DEF WholeUnits
<1>13. UnitSums(d, t)
  BY <1>3, <1>8, <1>10, <1>11 DEF UnitSums
<1>14. Head(q) > 0 /\ Head(q) % WeiPerUnit = 0
  BY <1>1, <1>5
<1> QED
  BY <1>1, <1>3, <1>7, <1>9, <1>12, <1>13, <1>14 DEF n, h, t

\* Whole units leave no remainder.
LEMMA UnitsExact ==
  ASSUME NEW x \in Nat, x % WeiPerUnit = 0
  PROVE  (x \div WeiPerUnit) * WeiPerUnit = x /\ x \div WeiPerUnit \in Nat
BY Quotients, CoreAssumption

\* A set of naturals that holds 0, and the next of each, holds them all: how the
\* proofs below go along a queue.
LEMMA SetInduction ==
  ASSUME NEW S, 0 \in S, \A n \in Nat : n \in S => n + 1 \in S
  PROVE  Nat \subseteq S
<1>1. SUFFICES ASSUME Nat \ S # {} PROVE FALSE
  OBVIOUS
<1>2. PICK R : R = OpToRel(<, Nat) /\ IsWellFoundedOn(R, Nat)
  BY NatLessThanWellFounded
<1>3. PICK x \in Nat \ S : \A y \in Nat \ S : ~(<<y, x>> \in R)
  BY <1>1, <1>2, WFMin
<1>4. x # 0 /\ x - 1 \in Nat
  BY <1>3
<1>5. x - 1 \notin S
  BY <1>3, <1>4
<1>6. <<x - 1, x>> \in R
  BY <1>2, <1>3, <1>4 DEF OpToRel
<1> QED
  BY <1>3, <1>4, <1>5, <1>6

\* The account after each send of a queue.
Accounts(f, wei, q, n) ==
  f = [i \in 0 .. n |-> IF i = 0 THEN [wei |-> wei, units |-> 0] ELSE Land(f[i - 1], q[i])]

LEMMA AccountsExist ==
  ASSUME NEW wei, NEW q
  PROVE  \A n \in Nat : \E f : Accounts(f, wei, q, n)
<1> DEFINE S == {n \in Nat : \E f : Accounts(f, wei, q, n)}
<1>1. 0 \in S
  <2>1. Accounts([i \in 0 .. 0 |-> [wei |-> wei, units |-> 0]], wei, q, 0)
    BY DEF Accounts
  <2> QED
    BY <2>1
<1>2. ASSUME NEW n \in Nat, n \in S
      PROVE  n + 1 \in S
  <2>1. PICK f : Accounts(f, wei, q, n)
    BY <1>2
  <2> DEFINE g == [i \in 0 .. n + 1 |-> IF i <= n THEN f[i] ELSE Land(f[n], q[n + 1])]
             h == [i \in 0 .. n + 1 |-> IF i = 0 THEN [wei |-> wei, units |-> 0]
                                        ELSE Land(g[i - 1], q[i])]
  <2>2. \A i \in 0 .. n : f[i] = IF i = 0 THEN [wei |-> wei, units |-> 0]
                                ELSE Land(f[i - 1], q[i])
    BY <2>1 DEF Accounts
  <2>3. \A i \in 0 .. n + 1 : g[i] = h[i]
    <3> TAKE i \in 0 .. n + 1
    <3>1. CASE i = 0
      BY <2>2, <3>1
    <3>2. CASE i # 0 /\ i <= n
      <4>1. i \in 0 .. n /\ i - 1 \in 0 .. n + 1 /\ i - 1 <= n
        BY <3>2
      <4>2. g[i] = f[i] /\ g[i - 1] = f[i - 1] /\ h[i] = Land(g[i - 1], q[i])
        BY <3>2, <4>1
      <4>3. f[i] = Land(f[i - 1], q[i])
        BY <2>2, <3>2, <4>1
      <4> QED
        BY <4>2, <4>3
    <3>3. CASE i = n + 1
      BY <3>3
    <3> QED
      BY <3>1, <3>2, <3>3
  <2>4. g = h
    BY <2>3
  <2>5. Accounts(g, wei, q, n + 1)
    BY <2>4, Zenon DEF Accounts
  <2> HIDE DEF g
  <2> QED
    BY <2>5
<1>3. Nat \subseteq S
  <2> HIDE DEF S
  <2> QED
    BY <1>1, <1>2, SetInduction
<1> QED
  BY <1>3

LEMMA LandedAccounts ==
  ASSUME NEW wei, NEW q, Len(q) \in Nat
  PROVE  \E f : Accounts(f, wei, q, Len(q)) /\ Landed(wei, q) = f[Len(q)]
<1> DEFINE f == CHOOSE f : Accounts(f, wei, q, Len(q))
<1>1. \E g : Accounts(g, wei, q, Len(q))
  BY AccountsExist
<1>2. Accounts(f, wei, q, Len(q))
  BY <1>1, Zenon
<1>3. Landed(wei, q) = f[Len(q)]
  BY DEF Landed, Accounts
<1> QED
  BY <1>2, <1>3

\* Whatever Core drops for want of quote, no more than the queue carries lands, and
\* no less than a prefix the account can pay.
LEMMA LandingBounds ==
  ASSUME NEW wei \in Nat, NEW q \in Seq(Nat), WholeUnits(q), NEW c, UnitSums(c, q),
         NEW k \in 0 .. Len(q), c[k] * WeiPerUnit <= wei
  PROVE  /\ Landed(wei, q).units \in Nat
         /\ c[k] <= Landed(wei, q).units
         /\ Landed(wei, q).units <= c[Len(q)]
<1> DEFINE N == Len(q)
<1>1. N \in Nat /\ WeiPerUnit \in Nat \ {0}
  BY CoreAssumption
<1>2. PICK f : Accounts(f, wei, q, N) /\ Landed(wei, q) = f[N]
  BY <1>1, LandedAccounts
<1>3. /\ c \in [0 .. N -> Nat] /\ c[0] = 0
      /\ \A i \in 1 .. N : c[i] = c[i - 1] + q[i] \div WeiPerUnit
      /\ \A i, j \in 0 .. N : i <= j => c[i] <= c[j]
  BY DEF UnitSums
<1>4. \A i \in 1 .. N : /\ q[i] \in Nat /\ q[i] \div WeiPerUnit \in Nat
                        /\ q[i] = (q[i] \div WeiPerUnit) * WeiPerUnit
  <2> TAKE i \in 1 .. N
  <2>1. q[i] \in Nat /\ q[i] % WeiPerUnit = 0
    BY <1>1 DEF WholeUnits
  <2> QED
    BY <2>1, UnitsExact
<1> DEFINE Good(a, n) ==
             /\ a.wei \in Nat /\ a.units \in Nat /\ a.units <= c[n]
             /\ n <= k => a.units = c[n] /\ a.wei + c[n] * WeiPerUnit = wei
             /\ k <= n => c[k] <= a.units
           S == {n \in Nat : n <= N => Good(f[n], n)}
<1> HIDE DEF N
<1>5. f[0] = [wei |-> wei, units |-> 0]
  BY <1>1, <1>2 DEF Accounts
<1>6. 0 \in S
  <2>1. f[0].wei = wei /\ f[0].units = 0
    BY <1>5
  <2>2. k <= 0 => k = 0
    BY <1>1
  <2>3. c[0] * WeiPerUnit = 0
    BY <1>1, <1>3
  <2> QED
    BY <1>3, <2>1, <2>2, <2>3
<1>7. ASSUME NEW n \in Nat, n \in S
      PROVE  n + 1 \in S
  <2> SUFFICES ASSUME n + 1 <= N PROVE Good(f[n + 1], n + 1)
    OBVIOUS
  <2> DEFINE u == q[n + 1] \div WeiPerUnit
  <2>1. n \in 0 .. N /\ n + 1 \in 1 .. N /\ n + 1 \in 0 .. N /\ k \in 0 .. N
    BY <1>1 DEF N
  <2>2. f[n + 1] = Land(f[n], q[n + 1])
    BY <1>1, <1>2, <2>1 DEF Accounts
  <2>3. Good(f[n], n)
    BY <1>7, <2>1
  <2>4. u \in Nat /\ q[n + 1] = u * WeiPerUnit /\ q[n + 1] \in Nat
    BY <1>4, <2>1
  <2>5. c[n + 1] = c[n] + u
    BY <1>3, <2>1
  <2>6. c[n + 1] \in Nat /\ c[n] \in Nat /\ c[k] \in Nat
    BY <1>3, <2>1
  <2>7. n + 1 <= k => c[n + 1] <= c[k]
    BY <1>3, <2>1
  <2> HIDE DEF u
  <2> DEFINE pn == c[n] * WeiPerUnit
             pm == c[n + 1] * WeiPerUnit
             pk == c[k] * WeiPerUnit
             x == q[n + 1]
             cn == c[n]
             cm == c[n + 1]
             ck == c[k]
             a == f[n]
             b == f[n + 1]
  <2>8. /\ pn \in Nat /\ pm \in Nat /\ pk \in Nat /\ x \in Nat /\ pk <= wei
        /\ cn \in Nat /\ cm \in Nat /\ ck \in Nat /\ cm = cn + u
    <3>0. \A m \in Nat : m * WeiPerUnit \in Nat
      BY <1>1
    <3>1. pn \in Nat /\ pm \in Nat /\ pk \in Nat
      BY <2>6, <3>0, Zenon
    <3> QED
      BY <2>4, <2>5, <2>6, <3>1
  <2>9. pm = pn + x
    BY <1>1, <2>4, <2>5, <2>6
  <2>10. n + 1 <= k => pm <= pk
    BY <1>1, <2>6, <2>7
  <2>11. /\ a.wei \in Nat /\ a.units \in Nat /\ a.units <= cn
         /\ n <= k => a.units = cn /\ a.wei + pn = wei
         /\ k <= n => ck <= a.units
    BY <2>3
  <2>12. b = IF a.wei >= x THEN [wei |-> a.wei - x, units |-> a.units + u] ELSE a
    BY <2>2 DEF Land, u
  <2>13. SUFFICES /\ b.wei \in Nat /\ b.units \in Nat /\ b.units <= cm
                  /\ n + 1 <= k => b.units = cm /\ b.wei + pm = wei
                  /\ k <= n + 1 => ck <= b.units
    OBVIOUS
  <2>14. k = n + 1 => ck = cm
    OBVIOUS
  <2>15. k \in Int
    BY <1>1, <2>1
  <2> HIDE DEF pn, pm, pk, x, cn, cm, ck, a, b
  <2>16. n + 1 <= k => a.wei >= x
    BY SMTT(40), <2>8, <2>9, <2>10, <2>11, <2>15
  <2>17. CASE a.wei >= x
    <3> DEFINE aw == a.wei
               au == a.units
               bw == b.wei
               bu == b.units
    <3>1. bw = aw - x /\ bu = au + u
      BY <2>12, <2>17
    <3>2. /\ aw \in Nat /\ au \in Nat /\ au <= cn /\ aw >= x
          /\ n <= k => au = cn /\ aw + pn = wei
          /\ k <= n => ck <= au
      BY <2>11, <2>17
    <3> HIDE DEF aw, au, bw, bu
    <3>3. bw \in Nat /\ bu \in Nat /\ bu <= cm
      BY <2>4, <2>8, <3>1, <3>2
    <3>4. n + 1 <= k => bu = cm /\ bw + pm = wei
      BY <2>4, <2>8, <2>9, <2>15, <3>1, <3>2
    <3>5. k <= n + 1 => ck <= bu
      BY <2>4, <2>8, <2>14, <2>15, <3>1, <3>2, <3>4
    <3> QED
      BY <3>3, <3>4, <3>5 DEF bw, bu
  <2>18. CASE ~(a.wei >= x)
    <3>1. b = a /\ ~(n + 1 <= k)
      BY <2>12, <2>16, <2>18
    <3> QED
      BY <2>4, <2>8, <2>11, <2>15, <3>1
  <2> QED
    BY <2>17, <2>18
<1>8. N \in S
  <2> HIDE DEF S
  <2>1. Nat \subseteq S
    BY <1>6, <1>7, SetInduction
  <2> QED
    BY <1>1, <2>1
<1>9. Good(f[N], N)
  BY <1>1, <1>8
<1> QED
  BY <1>2, <1>9 DEF N

-----------------------------------------------------------------------------
(***************************************************************************)
(* What is in flight, n units in all: what the EVM side still expects      *)
(* counts it (unless the owner restarted the trackers), before settlement  *)
(* Core holds it and a deposit waits until none of it is left, and what is *)
(* owed is here or in the first k sends, which Core can pay.               *)
(***************************************************************************)
TrackedBy(n) ==
  clears = 0 => n + bal + totalPaidOutEvm <= outboundExpectedEvm + gifts * Gift

DwellBy(n) ==
  clears = 0 /\ gifts = 0 /\ ~settled =>
    /\ n * WeiPerUnit <= coreWei
    /\ sends # << >> => /\ n * WeiPerUnit <= outboundWei
                       /\ outboundTarget + n * WeiPerUnit <= coreWei
    /\ pendingDeposit # NoDeposit => sends = << >>

CoverFor(k, m) ==
  clears = 0 /\ gifts = 0 /\ drops = 0 =>
    /\ ~settled => k = Len(sends)
    /\ m * WeiPerUnit <= coreWei
    /\ totalOwed <= bal + m

SendInv ==
  /\ WholeUnits(sends)
  /\ \E c : /\ UnitSums(c, sends)
           /\ TrackedBy(c[Len(sends)])
           /\ DwellBy(c[Len(sends)])
           /\ \E k \in 0 .. Len(sends) : CoverFor(k, c[k])

LEMMA WeiOfUnits ==
  /\ \A m \in Nat : m * WeiPerUnit \in Nat
  /\ \A m, n \in Nat : (m + n) * WeiPerUnit = m * WeiPerUnit + n * WeiPerUnit
  /\ \A m, n \in Nat : n <= m => /\ (m - n) * WeiPerUnit = m * WeiPerUnit - n * WeiPerUnit
                               /\ n * WeiPerUnit <= m * WeiPerUnit
  /\ \A m \in Nat : (m * WeiPerUnit) \div WeiPerUnit = m /\ (m * WeiPerUnit) % WeiPerUnit = 0
  /\ \A m \in Nat : m > 0 => m * WeiPerUnit > 0
<1>1. WeiPerUnit \in Nat \ {0}
  BY CoreAssumption
<1>2. \A m \in Nat : m * WeiPerUnit \in Nat
  BY <1>1
<1>3. \A m, n \in Nat : (m + n) * WeiPerUnit = m * WeiPerUnit + n * WeiPerUnit
  BY <1>1
<1>4. \A m, n \in Nat : n <= m => (m - n) * WeiPerUnit = m * WeiPerUnit - n * WeiPerUnit
  BY <1>1
<1>5. \A m, n \in Nat : n <= m => n * WeiPerUnit <= m * WeiPerUnit
  BY <1>1
<1>6. \A m \in Nat : m > 0 => m * WeiPerUnit > 0
  BY <1>1
<1>7. ASSUME NEW m \in Nat
      PROVE  (m * WeiPerUnit) \div WeiPerUnit = m /\ (m * WeiPerUnit) % WeiPerUnit = 0
  <2> DEFINE x == m * WeiPerUnit
             q == x \div WeiPerUnit
  <2>1. x \in Nat
    BY <1>2
  <2>2. q \in Nat /\ q * WeiPerUnit <= x /\ x < q * WeiPerUnit + WeiPerUnit
    BY <1>1, <2>1, Quotients
  <2>3. q <= m
    BY <1>1, <2>2, CancelFactor
  <2>4. m <= q
    <3>1. SUFFICES ASSUME q + 1 <= m PROVE FALSE
      BY <2>2
    <3>2. (q + 1) * WeiPerUnit <= m * WeiPerUnit
      BY <1>5, <2>2, <3>1
    <3>3. (q + 1) * WeiPerUnit = q * WeiPerUnit + 1 * WeiPerUnit
      BY <1>3, <2>2
    <3>4. 1 * WeiPerUnit = WeiPerUnit
      BY <1>1
    <3>5. q * WeiPerUnit \in Nat
      BY <1>2, <2>2
    <3> QED
      BY <1>1, <2>1, <2>2, <3>2, <3>3, <3>4, <3>5
  <2>5. q = m
    BY <2>2, <2>3, <2>4
  <2>6. x = WeiPerUnit * (x \div WeiPerUnit) + (x % WeiPerUnit) /\ x % WeiPerUnit \in Nat
    BY <1>1, <2>1
  <2>7. WeiPerUnit * q = x
    BY <1>1, <2>5
  <2> HIDE DEF x
  <2>8. x % WeiPerUnit = 0
    BY <2>1, <2>6, <2>7
  <2> QED
    BY <2>5, <2>8 DEF x
<1> QED
  BY <1>2, <1>3, <1>4, <1>5, <1>6, <1>7, Zenon

LEMMA InitSend == Init => SendInv
<1> SUFFICES ASSUME Init PROVE SendInv
  OBVIOUS
<1>1. sends = << >> /\ Len(sends) = 0
  BY DEF Init, CoreInit
<1>2. PICK c : UnitSums(c, << >>) /\ c[0] = 0
  BY UnitsOfNone
<1>3. 0 * WeiPerUnit = 0 /\ 0 * Gift = 0
  BY CoreAssumption, VaultAssumption
<1>4. TrackedBy(0) /\ DwellBy(0) /\ CoverFor(0, 0)
  BY <1>1, <1>3 DEF Init, CoreInit, TrackedBy, DwellBy, CoverFor
<1>5. 0 \in 0 .. Len(sends)
  BY <1>1
<1> QED
  BY <1>1, <1>2, <1>4, <1>5, UnitsOfNone DEF SendInv

\* The numbers the invariant compares.
LEMMA Numbers ==
  ASSUME TypeInv
  PROVE  /\ bal \in Nat /\ coreWei \in Nat /\ totalOwed \in Nat /\ totalPaidOutEvm \in Nat
         /\ outboundExpectedEvm \in Nat /\ outboundWei \in Nat /\ outboundTarget \in Nat
         /\ gifts \in Nat /\ clears \in Nat /\ drops \in Nat /\ gifts * Gift \in Nat
         /\ sends \in Seq(Nat) /\ Len(sends) \in Nat
<1>1. gifts \in Nat /\ clears \in Nat
  BY TypeInvGroups, VaultAssumption DEF CountsOK
<1>2. drops \in Nat
  BY TypeInvGroups, CoreAssumption DEF CoreTypeOK
<1>3. gifts * Gift \in Nat
  BY <1>1, VaultAssumption
<1>4. sends \in Seq(Nat) /\ Len(sends) \in Nat
  BY TypeInvGroups DEF CoreTypeOK
<1> QED
  BY <1>1, <1>2, <1>3, <1>4, TypeInvGroups DEF CoreTypeOK, DebtsOK, PaidOK, TrackersOK

\* The sends in flight: n units, of which m are in the first k sends.
Flying(c, k, n, m) ==
  /\ UnitSums(c, sends) /\ k \in 0 .. Len(sends)
  /\ n = c[Len(sends)] /\ m = c[k] /\ m <= n
  /\ sends = << >> => n = 0 /\ k = 0
  /\ sends # << >> => n > 0
  /\ k = 0 => m = 0
  /\ TrackedBy(n) /\ DwellBy(n) /\ CoverFor(k, m)

LEMMA InFlight ==
  ASSUME TypeInv, SendInv
  PROVE  \E c, k : \E n, m \in Nat : Flying(c, k, n, m)
<1>1. PICK c : /\ UnitSums(c, sends)
               /\ TrackedBy(c[Len(sends)]) /\ DwellBy(c[Len(sends)])
               /\ \E k \in 0 .. Len(sends) : CoverFor(k, c[k])
  BY DEF SendInv
<1>2. PICK k \in 0 .. Len(sends) : CoverFor(k, c[k])
  BY <1>1
<1>3. sends \in Seq(Nat) /\ Len(sends) \in Nat
  BY Numbers
<1>4. Len(sends) \in 0 .. Len(sends) /\ 0 \in 0 .. Len(sends) /\ k <= Len(sends)
  BY <1>3
<1>5. /\ c \in [0 .. Len(sends) -> Nat] /\ c[0] = 0
      /\ \A i, j \in 0 .. Len(sends) : i <= j => c[i] <= c[j]
  BY <1>1 DEF UnitSums
<1>6. c[Len(sends)] \in Nat /\ c[k] \in Nat
  BY <1>4, <1>5, Zenon
<1>7. c[k] <= c[Len(sends)]
  BY <1>2, <1>4, <1>5, Zenon
<1>8. sends = << >> => Len(sends) = 0 /\ k = 0
  BY <1>2
<1>9. sends # << >> => c[Len(sends)] > 0
  <2> SUFFICES ASSUME sends # << >> PROVE c[Len(sends)] > 0
    OBVIOUS
  <2>1. Len(sends) \in Nat \ {0} /\ 1 \in 1 .. Len(sends) /\ 1 \in 0 .. Len(sends)
    BY <1>3, EmptySeq
  <2>2. sends[1] \in Nat /\ sends[1] > 0 /\ sends[1] % WeiPerUnit = 0
    BY <1>3, <2>1 DEF SendInv, WholeUnits
  <2>3. (sends[1] \div WeiPerUnit) * WeiPerUnit = sends[1] /\ sends[1] \div WeiPerUnit \in Nat
    BY <2>2, UnitsExact
  <2>4. sends[1] \div WeiPerUnit # 0
    <3>1. 0 * WeiPerUnit = 0
      BY CoreAssumption
    <3> QED
      BY <2>2, <2>3, <3>1
  <2>5. c[1] = c[0] + sends[1] \div WeiPerUnit /\ c[1] <= c[Len(sends)]
    <3>1. \A i \in 1 .. Len(sends) : c[i] = c[i - 1] + sends[i] \div WeiPerUnit
      BY <1>1 DEF UnitSums
    <3>2. 1 <= Len(sends) /\ 1 - 1 = 0
      BY <2>1
    <3> QED
      BY <1>4, <1>5, <2>1, <3>1, <3>2
  <2> QED
    BY <1>5, <1>6, <2>3, <2>4, <2>5
<1>10. Flying(c, k, c[Len(sends)], c[k])
  BY <1>1, <1>2, <1>5, <1>7, <1>8, <1>9, Zenon DEF Flying
<1> QED
  BY <1>6, <1>10, Zenon

\* Steps that queue, apply and drop no send.
LEMMA SteadySends ==
  ASSUME TypeInv, TypeInv', SendInv, UNCHANGED sends,
         clears' = 0 => clears = 0, gifts' = 0 => gifts = 0, drops' = 0 => drops = 0,
         ~settled' => ~settled,
         clears' = 0 => bal' + totalPaidOutEvm' + outboundExpectedEvm + gifts * Gift
                          <= bal + totalPaidOutEvm + outboundExpectedEvm' + gifts' * Gift,
         clears' = 0 /\ gifts' = 0 =>
           \/ sends = << >>
           \/ /\ coreWei' >= coreWei
              /\ ~settled => outboundWei' = outboundWei /\ outboundTarget' = outboundTarget
              /\ pendingDeposit' # NoDeposit => pendingDeposit # NoDeposit,
         gifts' = 0 => totalOwed' + bal <= totalOwed + bal' \/ totalOwed' <= bal'
  PROVE  SendInv'
<1>1. PICK c, k : \E n, m \in Nat : Flying(c, k, n, m)
  BY InFlight, Zenon
<1>2. PICK n \in Nat, m \in Nat : Flying(c, k, n, m)
  BY <1>1, Zenon
<1>3. /\ UnitSums(c, sends) /\ k \in 0 .. Len(sends)
      /\ n = c[Len(sends)] /\ m = c[k] /\ m <= n
      /\ sends = << >> => n = 0 /\ k = 0
      /\ k = 0 => m = 0
  BY <1>2, Zenon DEF Flying
<1>f. TrackedBy(n) /\ DwellBy(n) /\ CoverFor(k, m)
  BY <1>2, Zenon DEF Flying
<1>4. PICK nw \in Nat, mw \in Nat : nw = n * WeiPerUnit /\ mw = m * WeiPerUnit
  BY WeiOfUnits
<1>5. sends = << >> => nw = 0 /\ mw = 0
  <2>1. 0 * WeiPerUnit = 0 /\ (n = 0 => m = 0)
    BY <1>3, CoreAssumption
  <2> QED
    BY <1>3, <1>4, <2>1
<1>6. PICK b0, o0, p0, e0, w0, g0, ow0, t0 \in Nat :
        /\ b0 = bal /\ o0 = totalOwed /\ p0 = totalPaidOutEvm
        /\ e0 = outboundExpectedEvm /\ w0 = coreWei /\ g0 = gifts * Gift
        /\ ow0 = outboundWei /\ t0 = outboundTarget
  BY Numbers
<1>7. PICK b, o, p, e, w, g \in Nat :
        /\ b = bal' /\ o = totalOwed' /\ p = totalPaidOutEvm'
        /\ e = outboundExpectedEvm' /\ w = coreWei' /\ g = gifts' * Gift
  <2>1. /\ bal' \in Nat /\ coreWei' \in Nat /\ totalOwed' \in Nat
        /\ totalPaidOutEvm' \in Nat /\ outboundExpectedEvm' \in Nat /\ gifts' \in Nat
    BY VaultAssumption
       DEF TypeInv, TypeOK, CoreTypeOK
  <2>2. \A x \in Nat : x * Gift \in Nat
    BY VaultAssumption
  <2>3. gifts' * Gift \in Nat
    BY <2>1, <2>2, Zenon
  <2> QED
    BY <2>1, <2>3
<1>8. TrackedBy(n)'
  <2>1. ASSUME clears' = 0
        PROVE  n + b + p <= e + g
    <3>1. n + b0 + p0 <= e0 + g0
      BY <1>f, <1>6, <2>1 DEF TrackedBy
    <3>2. b + p + e0 + g0 <= b0 + p0 + e + g
      BY <1>6, <1>7, <2>1
    <3> QED
      BY <3>1, <3>2
  <2> QED
    BY <1>7, <2>1 DEF TrackedBy
<1>9. DwellBy(n)'
  <2>1. ASSUME clears' = 0, gifts' = 0, ~settled'
        PROVE  /\ nw <= w
               /\ sends # << >> => nw <= outboundWei' /\ outboundTarget' + nw <= w
               /\ pendingDeposit' # NoDeposit => sends = << >>
    <3>1. /\ nw <= w0
          /\ sends # << >> => nw <= ow0 /\ t0 + nw <= w0
          /\ pendingDeposit # NoDeposit => sends = << >>
      BY <1>f, <1>4, <1>6, <2>1 DEF DwellBy
    <3>2. CASE sends = << >>
      BY <1>5, <1>7, <3>2
    <3>3. CASE sends # << >>
      <4>1. /\ w >= w0 /\ outboundWei' = ow0 /\ outboundTarget' = t0
            /\ pendingDeposit' # NoDeposit => pendingDeposit # NoDeposit
        BY <1>6, <1>7, <2>1, <3>3
      <4>3. nw <= w /\ t0 + nw <= w
        BY <3>1, <3>3, <4>1
      <4> QED
        BY <3>1, <3>3, <4>1, <4>3
    <3> QED
      BY <3>2, <3>3
  <2> QED
    BY <1>4, <1>7, <2>1 DEF DwellBy
<1>10. CoverFor(k, m)'
  <2>1. ASSUME clears' = 0, gifts' = 0, drops' = 0
        PROVE  /\ ~settled' => k = Len(sends)
               /\ mw <= w
               /\ o <= b + m
    <3>1. /\ ~settled => k = Len(sends)
          /\ mw <= w0
          /\ o0 <= b0 + m
      BY <1>f, <1>4, <1>6, <2>1 DEF CoverFor
    <3>2. mw <= w
      <4>1. CASE sends = << >>
        BY <1>5, <4>1
      <4>2. CASE sends # << >>
        <5>1. w >= w0
          BY <1>6, <1>7, <2>1, <4>2
        <5> QED
          BY <3>1, <5>1
      <4> QED
        BY <4>1, <4>2
    <3>3. o + b0 <= o0 + b \/ o <= b
      BY <1>6, <1>7, <2>1
    <3>4. o <= b + m
      BY <3>1, <3>3
    <3> QED
      BY <2>1, <3>1, <3>2, <3>4
  <2> QED
    BY <1>4, <1>7, <2>1 DEF CoverFor
<1>11. WholeUnits(sends)' /\ UnitSums(c, sends)' /\ Len(sends)' = Len(sends)
  BY <1>3 DEF SendInv, WholeUnits, UnitSums
<1> QED
  BY <1>3, <1>8, <1>9, <1>10, <1>11 DEF SendInv

\* A step that queues a send of r units, credited to a user before settlement, swept
\* from Core after it.
LEMMA QueuedSend ==
  ASSUME TypeInv, SendInv, NEW r \in Nat, r > 0, SpotSendOut(r),
         UNCHANGED <<bal, coreWei, totalPaidOutEvm, clears, gifts, drops, settled>>,
         \/ settled /\ totalOwed' = totalOwed
         \/ /\ ~settled /\ totalOwed' = totalOwed + r /\ pendingDeposit' = NoDeposit
            /\ r + Unlanded <= CoreUnits
  PROVE  SendInv'
<1>1. PICK c, k : \E n, m \in Nat : Flying(c, k, n, m)
  BY InFlight, Zenon
<1>2. PICK n \in Nat, m \in Nat : Flying(c, k, n, m)
  BY <1>1, Zenon
<1>3. /\ UnitSums(c, sends) /\ k \in 0 .. Len(sends)
      /\ n = c[Len(sends)] /\ m = c[k] /\ m <= n
      /\ sends = << >> => n = 0 /\ k = 0
      /\ k = 0 => m = 0
  BY <1>2, Zenon DEF Flying
<1>f. TrackedBy(n) /\ DwellBy(n) /\ CoverFor(k, m)
  BY <1>2, Zenon DEF Flying
<1>4. PICK nw \in Nat, mw \in Nat, rw \in Nat, nrw \in Nat :
        /\ nw = n * WeiPerUnit /\ mw = m * WeiPerUnit /\ rw = r * WeiPerUnit
        /\ nrw = (n + r) * WeiPerUnit
  <2>1. n + r \in Nat
    OBVIOUS
  <2> QED
    BY <2>1, WeiOfUnits
<1>5. nrw = nw + rw /\ rw > 0
  BY <1>4, WeiOfUnits
<1>6. sends = << >> => nw = 0
  <2>1. 0 * WeiPerUnit = 0
    BY CoreAssumption
  <2> QED
    BY <1>3, <1>4, <2>1
<1>7. PICK b, o, p, e, w, g, ow, t \in Nat :
        /\ b = bal /\ o = totalOwed /\ p = totalPaidOutEvm
        /\ e = outboundExpectedEvm /\ w = coreWei /\ g = gifts * Gift
        /\ ow = outboundWei /\ t = outboundTarget
  BY Numbers
<1>8. /\ sends' = Append(sends, rw) /\ outboundExpectedEvm' = e + r
      /\ outboundWei' = ow + rw /\ outboundTarget' = Less(w, ow + rw)
  BY <1>4, <1>7 DEF SpotSendOut
<1>9. sends \in Seq(Nat) /\ Len(sends) \in Nat
  BY Numbers
<1>10. /\ Len(sends') = Len(sends) + 1 /\ sends'[Len(sends) + 1] = rw
       /\ \A i \in 1 .. Len(sends) : sends'[i] = sends[i]
  BY <1>8, <1>9, AppendProperties
<1>11. rw \div WeiPerUnit = r /\ rw % WeiPerUnit = 0
  BY <1>4, WeiOfUnits
<1>12. WholeUnits(sends')
  <2>1. \A i \in 1 .. Len(sends) : sends[i] > 0 /\ sends[i] % WeiPerUnit = 0
    BY DEF SendInv, WholeUnits
  <2>2. \A i \in 1 .. Len(sends) + 1 : i \in 1 .. Len(sends) \/ i = Len(sends) + 1
    BY <1>9
  <2> QED
    BY <1>5, <1>10, <1>11, <2>1, <2>2, Zenon DEF WholeUnits
<1>13. PICK d : /\ UnitSums(d, sends') /\ d[Len(sends) + 1] = n + r
                /\ \A i \in 0 .. Len(sends) : d[i] = c[i]
  BY <1>3, <1>8, <1>9, <1>11, UnitsAppend
<1>14. TrackedBy(n + r)'
  <2>1. ASSUME clears = 0 PROVE n + r + b + p <= e + r + g
    <3>1. n + b + p <= e + g
      BY <1>f, <1>7, <2>1 DEF TrackedBy
    <3> QED
      BY <3>1
  <2> QED
    BY <1>7, <1>8, <2>1 DEF TrackedBy
<1>15. CASE settled /\ totalOwed' = totalOwed
  <2>1. DwellBy(n + r)'
    BY <1>15 DEF DwellBy
  <2>2. CoverFor(k, m)'
    BY <1>f, <1>15 DEF CoverFor
  <2>3. k \in 0 .. Len(sends') /\ d[k] = m /\ d[Len(sends')] = n + r
    BY <1>3, <1>9, <1>10, <1>13
  <2> QED
    BY <1>12, <1>13, <1>14, <2>1, <2>2, <2>3 DEF SendInv
<1>16. CASE /\ ~settled /\ totalOwed' = totalOwed + r /\ pendingDeposit' = NoDeposit
            /\ r + Unlanded <= CoreUnits
  <2>1. PICK cu \in Nat, cw \in Nat : cu = CoreUnits /\ cw = cu * WeiPerUnit /\ cw <= w
    <3>1. CoreUnits \in Nat /\ CoreUnits * WeiPerUnit <= coreWei
      BY CreditFits, TypeInvGroups, Zenon
    <3>2. CoreUnits * WeiPerUnit \in Nat
      BY <3>1, WeiOfUnits
    <3> QED
      BY <1>7, <3>1, <3>2
  <2>2. ASSUME clears = 0, gifts = 0 PROVE nrw <= w
    <3>1. 0 * Gift = 0
      BY VaultAssumption
    <3>2. n + b + p <= e
      BY <1>f, <1>7, <2>2, <3>1 DEF TrackedBy
    <3>3. r + Less(e, b + p) <= cu
      BY <1>7, <1>16, <2>1 DEF Unlanded
    <3>4. n + r <= cu /\ n + r \in Nat
      BY <3>2, <3>3 DEF Less
    <3>5. nrw <= cw
      BY <1>4, <2>1, <3>4, WeiOfUnits
    <3> QED
      BY <2>1, <3>5
  <2>3. DwellBy(n + r)'
    <3>1. ASSUME clears = 0, gifts = 0
          PROVE  /\ nrw <= w /\ nrw <= ow + rw /\ Less(w, ow + rw) + nrw <= w
      <4>1. nw <= ow
        BY <1>f, <1>4, <1>6, <1>7, <1>16, <3>1 DEF DwellBy
      <4> QED
        BY <1>5, <2>2, <3>1, <4>1 DEF Less
    <3> QED
      BY <1>4, <1>7, <1>8, <1>16, <3>1 DEF DwellBy
  <2>l. PICK l \in Nat : l = Len(sends) + 1
    BY <1>9
  <2>4. CoverFor(l, n + r)'
    <3>1. ASSUME clears = 0, gifts = 0, drops = 0
          PROVE  nrw <= w /\ o + r <= b + (n + r)
      <4>1. o <= b + m
        BY <1>f, <1>7, <3>1 DEF CoverFor
      <4> QED
        BY SMTT(40), <1>3, <2>2, <3>1, <4>1
    <3> QED
      BY <1>4, <1>7, <1>10, <1>16, <2>l, <3>1 DEF CoverFor
  <2>5. l \in 0 .. Len(sends') /\ d[l] = n + r /\ l = Len(sends')
    BY <1>9, <1>10, <1>13, <2>l
  <2> QED
    BY <1>12, <1>13, <1>14, <2>3, <2>4, <2>5 DEF SendInv
<1> QED
  BY <1>15, <1>16

\* A step that takes the oldest send off the queue, carried out or not.
LEMMA TakenSend ==
  ASSUME TypeInv, SendInv, sends # << >>, sends' = Tail(sends),
         UNCHANGED <<totalPaidOutEvm, clears, gifts, settled, totalOwed, outboundWei,
                     outboundTarget, outboundExpectedEvm, pendingDeposit>>,
         \/ /\ coreWei >= Head(sends) /\ UNCHANGED drops
            /\ coreWei' = coreWei - Head(sends)
            /\ bal' = bal + Head(sends) \div WeiPerUnit
         \/ /\ UNCHANGED <<coreWei, bal>>
            /\ \/ drops' # 0
               \/ coreWei < Head(sends) /\ UNCHANGED drops
  PROVE  SendInv'
<1>1. PICK c, k : \E n, m \in Nat : Flying(c, k, n, m)
  BY InFlight, Zenon
<1>2. PICK n \in Nat, m \in Nat : Flying(c, k, n, m)
  BY <1>1, Zenon
<1>3. /\ UnitSums(c, sends) /\ k \in 0 .. Len(sends)
      /\ n = c[Len(sends)] /\ m = c[k] /\ m <= n
      /\ k = 0 => m = 0
  BY <1>2, Zenon DEF Flying
<1>f. TrackedBy(n) /\ DwellBy(n) /\ CoverFor(k, m)
  BY <1>2, Zenon DEF Flying
<1>s. sends \in Seq(Nat) /\ Len(sends) \in Nat /\ WholeUnits(sends)
  BY Numbers DEF SendInv
<1>4. /\ WholeUnits(Tail(sends)) /\ Len(Tail(sends)) = Len(sends) - 1
      /\ Len(sends) \in Nat \ {0}
      /\ Head(sends) \in Nat /\ Head(sends) > 0 /\ Head(sends) % WeiPerUnit = 0
  BY <1>3, <1>s, UnitsTail
<1>5. PICK d : /\ UnitSums(d, Tail(sends))
               /\ \A i \in 0 .. Len(sends) - 1 :
                    d[i] = c[i + 1] - Head(sends) \div WeiPerUnit
  BY <1>3, <1>s, UnitsTail
<1>6. PICK h \in Nat, u \in Nat : /\ h = Head(sends) /\ u = Head(sends) \div WeiPerUnit
                                 /\ u * WeiPerUnit = h
  BY <1>4, UnitsExact
<1>7. d[Len(sends) - 1] = n - u /\ n - u \in Nat /\ u <= n
  <2>1. Len(sends) - 1 \in 0 .. Len(sends) - 1 /\ (Len(sends) - 1) + 1 = Len(sends)
    BY <1>4
  <2>2. d[Len(sends) - 1] = n - u
    BY <1>3, <1>5, <1>6, <2>1
  <2>3. d[Len(sends) - 1] \in Nat
    BY <1>4, <1>5, <2>1 DEF UnitSums
  <2> QED
    BY <2>2, <2>3
<1>8. k # 0 => k - 1 \in 0 .. Len(sends) - 1 /\ d[k - 1] = m - u /\ m - u \in Nat /\ u <= m
  <2> SUFFICES ASSUME k # 0
               PROVE  k - 1 \in 0 .. Len(sends) - 1 /\ d[k - 1] = m - u /\ m - u \in Nat /\ u <= m
    OBVIOUS
  <2>1. k - 1 \in 0 .. Len(sends) - 1 /\ (k - 1) + 1 = k
    BY <1>3, <1>4
  <2>2. d[k - 1] = m - u
    BY <1>3, <1>5, <1>6, <2>1
  <2>3. d[k - 1] \in Nat
    BY <1>4, <1>5, <2>1 DEF UnitSums
  <2> QED
    BY <2>1, <2>2, <2>3
<1>9. d[0] = 0 /\ 0 \in 0 .. Len(sends) - 1
  BY <1>4, <1>5 DEF UnitSums
<1>10. PICK nw \in Nat, mw \in Nat, nuw \in Nat :
         /\ nw = n * WeiPerUnit /\ mw = m * WeiPerUnit /\ nuw = (n - u) * WeiPerUnit
  BY <1>7, WeiOfUnits
<1>11. nuw = nw - h
  BY <1>6, <1>7, <1>10, WeiOfUnits
<1>12. k # 0 => (m - u) * WeiPerUnit = mw - h /\ h <= mw
  BY SMTT(40), <1>6, <1>8, <1>10, WeiOfUnits
<1>13. PICK b, o, p, e, w, g, ow, t \in Nat :
        /\ b = bal /\ o = totalOwed /\ p = totalPaidOutEvm
        /\ e = outboundExpectedEvm /\ w = coreWei /\ g = gifts * Gift
        /\ ow = outboundWei /\ t = outboundTarget
  BY Numbers
<1>14. ASSUME clears = 0 PROVE n + b + p <= e + g
  BY <1>f, <1>13, <1>14 DEF TrackedBy
<1>15. ASSUME clears = 0, gifts = 0, ~settled
       PROVE  nw <= w /\ nw <= ow /\ t + nw <= w /\ pendingDeposit = NoDeposit
  BY <1>f, <1>10, <1>13, <1>15 DEF DwellBy
<1>16. ASSUME clears = 0, gifts = 0, drops = 0
       PROVE  (~settled => k = Len(sends)) /\ mw <= w /\ o <= b + m
  BY <1>f, <1>10, <1>13, <1>16 DEF CoverFor
<1>17. CASE /\ coreWei >= Head(sends) /\ UNCHANGED drops
            /\ coreWei' = coreWei - Head(sends)
            /\ bal' = bal + Head(sends) \div WeiPerUnit
  <2>1. w >= h /\ coreWei' = w - h /\ bal' = b + u
    BY <1>6, <1>13, <1>17
  <2>2. TrackedBy(n - u)'
    <3>1. clears = 0 => (n - u) + (b + u) + p <= e + g
      BY <1>7, <1>14
    <3> QED
      BY <1>13, <2>1, <3>1 DEF TrackedBy
  <2>3. DwellBy(n - u)'
    <3>1. clears = 0 /\ gifts = 0 /\ ~settled =>
            nuw <= w - h /\ nuw <= ow /\ t + nuw <= w - h
      BY <1>11, <1>15, <2>1
    <3> QED
      BY <1>10, <1>13, <1>15, <2>1, <3>1 DEF DwellBy
  <2>4. CASE k = 0
    <3>1. CoverFor(0, 0)'
      <4>1. 0 * WeiPerUnit = 0
        BY CoreAssumption
      <4>2. clears = 0 /\ gifts = 0 /\ drops = 0 => settled /\ 0 <= w - h /\ o <= (b + u) + 0
        BY <1>3, <1>4, <1>16, <2>1, <2>4
      <4> QED
        BY <1>13, <1>17, <2>1, <4>1, <4>2 DEF CoverFor
    <3> QED
      BY <1>4, <1>5, <1>7, <1>9, <2>2, <2>3, <3>1 DEF SendInv
  <2>5. CASE k # 0
    <3>1. CoverFor(k - 1, m - u)'
      <4>1. ASSUME clears = 0, gifts = 0, drops = 0
            PROVE  /\ ~settled => k - 1 = Len(sends) - 1
                   /\ mw - h <= w - h /\ o <= (b + u) + (m - u)
        BY <1>8, <1>16, <2>5, <4>1
      <4> QED
        BY <1>4, <1>12, <1>13, <1>17, <2>1, <2>5, <4>1 DEF CoverFor
    <3> QED
      BY <1>4, <1>5, <1>7, <1>8, <2>2, <2>3, <2>5, <3>1 DEF SendInv
  <2> QED
    BY <2>4, <2>5
<1>18. CASE /\ UNCHANGED <<coreWei, bal>>
            /\ \/ drops' # 0
               \/ coreWei < Head(sends) /\ UNCHANGED drops
  <2>1. coreWei' = w /\ bal' = b
    BY <1>13, <1>18
  <2>2. TrackedBy(n - u)'
    <3>1. clears = 0 => (n - u) + b + p <= e + g
      BY <1>7, <1>14
    <3> QED
      BY <1>13, <2>1, <3>1 DEF TrackedBy
  <2>3. DwellBy(n - u)'
    <3>1. clears = 0 /\ gifts = 0 /\ ~settled =>
            nuw <= w /\ nuw <= ow /\ t + nuw <= w
      BY <1>11, <1>15
    <3> QED
      BY <1>10, <1>13, <1>15, <2>1, <3>1 DEF DwellBy
  <2>4. CoverFor(0, 0)'
    <3>1. 0 * WeiPerUnit = 0
      BY CoreAssumption
    <3>2. ASSUME clears = 0, gifts = 0, drops' = 0
          PROVE  settled /\ 0 <= w /\ o <= b + 0
      <4>1. w < h /\ drops = 0
        BY <1>6, <1>13, <1>18, <3>2
      <4>2. k = 0
        BY <1>12, <1>16, <3>2, <4>1
      <4> QED
        BY <1>3, <1>4, <1>16, <3>2, <4>1, <4>2
    <3> QED
      BY <1>13, <2>1, <3>1, <3>2 DEF CoverFor
  <2> QED
    BY <1>4, <1>5, <1>7, <1>9, <2>2, <2>3, <2>4 DEF SendInv
<1> QED
  BY <1>17, <1>18

\* One step each, or a group of steps that do alike.
LEMMA CoreSends ==
  ASSUME TypeInv, TypeInv', BackingInv, SendInv, CoreStep
  PROVE  SendInv'
<1> USE DEF slots, debts, final, trackers, tokens, counts, market, bounds
<1>1. UNCHANGED <<pendingDeposit, totalOwed, settled, outboundTarget, outboundWei,
                  outboundExpectedEvm, totalPaidOutEvm, clears, gifts>>
  BY DEF CoreStep
<1>2. coreWei \in Nat /\ bal \in Nat /\ inbound \in Nat /\ collateral \in Nat
      /\ drops \in Nat
  BY TypeInvGroups, CoreAssumption DEF CoreTypeOK
<1>3. ASSUME UNCHANGED <<sends, bal>>, drops' = 0 => drops = 0,
             coreWei' >= coreWei \/ (clears = 0 /\ gifts = 0 => sends = << >>)
      PROVE  SendInv'
  <2>1. /\ totalOwed \in Nat /\ totalPaidOutEvm \in Nat /\ outboundExpectedEvm \in Nat
        /\ gifts * Gift \in Nat
    BY Numbers
  <2> QED
    BY <1>1, <1>2, <1>3, <2>1, SteadySends
<1>4. CASE CreditTransfers \/ LoseTransfers \/ CreditStray \/ SettleOutcome \/ PruneOutcome
  <2>1. coreWei' >= coreWei /\ UNCHANGED <<sends, bal, drops>>
    BY <1>2, <1>4, CoreAssumption
       DEF CreditTransfers, LoseTransfers, CreditStray, SettleOutcome, PruneOutcome
  <2> QED
    BY <1>3, <2>1
<1>5. CASE CreditSettlement
  <2>1. AfterFee(collateral) \in Nat
    BY <1>2, FeeFits
  <2>2. coreWei' >= coreWei /\ UNCHANGED <<sends, bal, drops>>
    BY <1>2, <1>5, <2>1 DEF CreditSettlement
  <2> QED
    BY <1>3, <2>2
<1>6. CASE DropOp
  <2>1. UNCHANGED <<sends, bal, coreWei>> /\ drops' # 0
    BY <1>2, <1>6 DEF DropOp
  <2> QED
    BY <1>2, <1>3, <2>1
<1>7. CASE ApplySplit
  <2>1. UNCHANGED <<sends, bal, drops>>
    BY <1>7 DEF ApplySplit
  <2>2. pendingDeposit # NoDeposit /\ pendingRedeem = NoRedeem
    BY <1>7, HeadOp DEF ApplySplit
  <2>3. clears = 0 /\ gifts = 0 => sends = << >>
    BY <2>2 DEF SendInv, DwellBy, BackingInv, SettledIdle, Idle
  <2> QED
    BY <1>3, <2>1, <2>3
<1>8. CASE ApplyMerge
  <2>1. UNCHANGED <<sends, bal, drops>>
    BY <1>8 DEF ApplyMerge
  <2>2. /\ QuoteWeiFor(Head(ops).wei) = pendingRedeem.amount * WeiPerUnit
        /\ pendingRedeem.amount \in Nat
    BY <1>8, HeadOp DEF ApplyMerge
  <2>3. QuoteWeiFor(Head(ops).wei) \in Nat
    BY <2>2, WeiOfUnits
  <2>4. AfterFee(QuoteWeiFor(Head(ops).wei)) \in Nat
    BY <2>3, FeeFits
  <2>5. coreWei' >= coreWei
    BY <1>2, <1>8, <2>4 DEF ApplyMerge
  <2> QED
    BY <1>3, <2>1, <2>5
<1>9. CASE ApplySend
  <2>1. sends # << >> /\ sends' = Tail(sends) /\ UNCHANGED drops
    BY <1>9 DEF ApplySend
  <2>2. Head(sends) % WeiPerUnit = 0 /\ Head(sends) \in Nat
    <3>1. sends \in Seq(Nat) /\ WholeUnits(sends)
      BY Numbers DEF SendInv
    <3>2. PICK c : UnitSums(c, sends)
      BY DEF SendInv
    <3> QED
      BY <2>1, <3>1, <3>2, UnitsTail
  <2>3. \/ /\ coreWei >= Head(sends)
           /\ coreWei' = coreWei - Head(sends)
           /\ bal' = bal + Head(sends) \div WeiPerUnit
        \/ UNCHANGED <<coreWei, bal>> /\ coreWei < Head(sends)
    BY <1>2, <1>9, <2>2 DEF ApplySend
  <2> QED
    BY <1>1, <2>1, <2>3, TakenSend
<1>10. CASE DropSend
  <2>1. /\ sends # << >> /\ sends' = Tail(sends) /\ UNCHANGED <<coreWei, bal>>
        /\ drops' # 0
    BY <1>2, <1>10 DEF DropSend
  <2> QED
    BY <1>1, <2>1, TakenSend
<1> QED
  BY <1>4, <1>5, <1>6, <1>7, <1>8, <1>9, <1>10 DEF CoreStep, CoreNext

LEMMA PayOutSends ==
  ASSUME TypeInv, BackingInv, SendInv, CancelDeposit \/ ClaimRedeem
  PROVE  SendInv'
<1>1. PICK user, n : n \in Nat /\ PayOut(user, n)
  BY SlotTypes, TypeInvGroups DEF CancelDeposit, ClaimRedeem
<1>2. PICK r \in Nat : r = Credit(n)
  BY <1>1, TypeInvGroups, CreditFits
<1>3. r > 0 /\ SpotSendOut(r) /\ totalOwed' = totalOwed + r
  BY <1>1, <1>2 DEF PayOut
<1>4. r + Unlanded <= CoreUnits
  BY <1>1, <1>2, <1>3, TypeInvGroups, CreditFits
<1>5. ~settled /\ pendingDeposit' = NoDeposit
  BY DEF CancelDeposit, ClaimRedeem, BackingInv, SettledIdle, Idle, OneOperation
<1>6. UNCHANGED <<bal, coreWei, totalPaidOutEvm, clears, gifts, drops, settled>>
  BY DEF CancelDeposit, ClaimRedeem, counts, bounds, final
<1> QED
  BY <1>3, <1>4, <1>5, <1>6, QueuedSend

LEMMA PullSends ==
  ASSUME TypeInv, SendInv, PullSettledFunds
  PROVE  SendInv'
<1>1. CoreUnits \in Nat
  BY TypeInvGroups, CreditFits
<1> QED
  BY <1>1, QueuedSend DEF PullSettledFunds, debts, final, bounds

\* A deposit waits for the sends in flight: one that starts finds none.
LEMMA DepositSends ==
  ASSUME TypeInv, TypeInv', SendInv, NEW user, NEW a, Deposit(user, a)
  PROVE  SendInv'
<1>1. ASSUME clears = 0, gifts = 0 PROVE sends = << >>
  <2>1. PICK c, k : \E n, m \in Nat : Flying(c, k, n, m)
    BY InFlight, Zenon
  <2>2. PICK n \in Nat, m \in Nat : Flying(c, k, n, m)
    BY <2>1, Zenon
  <2>3. (sends # << >> => n > 0) /\ DwellBy(n)
    BY <2>2, Zenon DEF Flying
  <2>4. PICK nw \in Nat : nw = n * WeiPerUnit /\ (n > 0 => nw > 0)
    BY WeiOfUnits
  <2>5. SUFFICES ASSUME sends # << >> PROVE FALSE
    OBVIOUS
  <2>6. nw > 0 /\ nw <= outboundWei /\ outboundTarget + nw <= coreWei
    BY <1>1, <2>3, <2>4, <2>5 DEF DwellBy, Deposit
  <2>7. outboundWei = 0 \/ coreWei <= outboundTarget
    BY DEF Deposit, OutboundLanded
  <2> QED
    BY <2>6, <2>7, Numbers
<1>2. UNCHANGED <<bal, coreWei, sends, totalPaidOutEvm, outboundExpectedEvm, totalOwed,
                  clears, gifts, drops, settled>>
  BY DEF Deposit, debts, counts, bounds, final
<1>3. bal \in Nat /\ totalOwed \in Nat /\ totalPaidOutEvm \in Nat
      /\ outboundExpectedEvm \in Nat /\ gifts * Gift \in Nat
  BY Numbers
<1> QED
  BY <1>1, <1>2, <1>3, SteadySends

\* Quote leaves: a withdrawal pays what is owed, a redemption what is not reserved.
LEMMA PaidSends ==
  ASSUME TypeInv, TypeInv', SendInv, NEW n \in Nat, bal >= n, bal' = bal - n,
         totalPaidOutEvm' = totalPaidOutEvm + n,
         \/ n <= totalOwed /\ totalOwed' = totalOwed - n
         \/ n <= Unreserved /\ totalOwed' = totalOwed,
         UNCHANGED <<coreWei, sends, outboundExpectedEvm, outboundWei, outboundTarget,
                     pendingDeposit, clears, gifts, drops, settled>>
  PROVE  SendInv'
<1>1. bal \in Nat /\ totalOwed \in Nat /\ totalPaidOutEvm \in Nat /\ coreWei \in Nat
      /\ outboundExpectedEvm \in Nat /\ gifts * Gift \in Nat
  BY Numbers
<1>2. bal' + totalPaidOutEvm' = bal + totalPaidOutEvm
  BY <1>1
<1>3. totalOwed' + bal <= totalOwed + bal' \/ totalOwed' <= bal'
  BY <1>1 DEF Unreserved, Less
<1> QED
  BY <1>1, <1>2, <1>3, SteadySends

LEMMA OtherSends ==
  ASSUME TypeInv, TypeInv', SendInv,
         \/ \E v \in Verifiers, op \in 1 .. MaxOps : Attest(v, op)
         \/ Donate
         \/ \E caller \in Owners :
              \/ \E v \in Verifiers : SetVerifier(caller, v)
              \/ \E k \in Keepers : SetKeeper(caller, k)
              \/ \E o \in Owners : SetOwner(caller, o)
              \/ ClearOutbound(caller)
         \/ \E user, n :
              \/ RequestRedeem(user, n)
              \/ \E to : TransferYes(user, to, n) \/ TransferNo(user, to, n)
         \/ ClaimDeposit \/ CancelRedeem
         \/ \E caller, f : Settle(caller, f)
         \/ UNCHANGED vars
  PROVE  SendInv'
<1> USE DEF slots, debts, final, trackers, tokens, counts, market, bounds, roles
<1>1. bal \in Nat /\ totalOwed \in Nat /\ totalPaidOutEvm \in Nat /\ coreWei \in Nat
      /\ outboundExpectedEvm \in Nat /\ gifts \in Nat /\ clears \in Nat
      /\ gifts * Gift \in Nat
  BY Numbers
<1>2. ASSUME UNCHANGED <<bal, coreWei, sends, totalPaidOutEvm, totalOwed, outboundTarget,
                         outboundWei, outboundExpectedEvm, clears, gifts, drops>>,
             ~settled' => ~settled,
             pendingDeposit' # NoDeposit => pendingDeposit # NoDeposit
      PROVE  SendInv'
  BY <1>1, <1>2, SteadySends
<1>3. CASE \E v \in Verifiers, op \in 1 .. MaxOps : Attest(v, op)
  BY <1>2, <1>3 DEF Attest, core
<1>4. CASE Donate
  <2>1. gifts' # 0 /\ gifts' = gifts + 1 /\ bal' = bal + Gift
    BY <1>1, <1>4 DEF Donate
  <2>2. gifts' * Gift = gifts * Gift + Gift /\ Gift \in Nat
    BY <1>1, <2>1, VaultAssumption
  <2> QED
    BY <1>1, <1>4, <2>1, <2>2, SteadySends DEF Donate
<1>5. ASSUME NEW caller \in Owners,
             \/ \E v \in Verifiers : SetVerifier(caller, v)
             \/ \E k \in Keepers : SetKeeper(caller, k)
             \/ \E o \in Owners : SetOwner(caller, o)
      PROVE  SendInv'
  BY <1>2, <1>5 DEF SetVerifier, SetKeeper, SetOwner, core
<1>6. ASSUME NEW caller \in Owners, ClearOutbound(caller)
      PROVE  SendInv'
  <2>1. clears' # 0 /\ clears' = clears + 1
    BY <1>1, <1>6 DEF ClearOutbound
  <2>2. UNCHANGED <<bal, coreWei, sends, totalOwed, settled, pendingDeposit, drops, gifts>>
    BY <1>6 DEF ClearOutbound, core
  <2> QED
    BY <1>1, <2>1, <2>2, SteadySends
<1>7. ASSUME NEW user, NEW n, \/ RequestRedeem(user, n)
                             \/ \E to : TransferYes(user, to, n) \/ TransferNo(user, to, n)
      PROVE  SendInv'
  BY <1>2, <1>7 DEF RequestRedeem, TransferYes, TransferNo, core
<1>8. CASE ClaimDeposit \/ CancelRedeem
  BY <1>2, <1>8 DEF ClaimDeposit, CancelRedeem, core
<1>9. ASSUME NEW caller, NEW f, Settle(caller, f)
      PROVE  SendInv'
  BY <1>2, <1>9 DEF Settle, core
<1>10. CASE UNCHANGED vars
  BY <1>2, <1>10 DEF vars, core
<1> QED
  BY <1>3, <1>4, <1>5, <1>6, <1>7, <1>8, <1>9, <1>10

LEMMA NextSends ==
  ASSUME TypeInv, TypeInv', BackingInv, SendInv, [Next]_vars
  PROVE  SendInv'
<1>1. Amounts \subseteq Nat
  BY VaultAssumption
<1>2. ASSUME NEW user \in Users, Withdraw(user)
      PROVE  SendInv'
  <2>1. owed[user] \in Nat /\ owed[user] <= totalOwed
    BY <1>2, WithdrawType, TypeInvGroups DEF DebtsOK
  <2>2. /\ bal >= owed[user] /\ bal' = bal - owed[user] /\ totalOwed' = totalOwed - owed[user]
        /\ totalPaidOutEvm' = totalPaidOutEvm + owed[user]
    BY <1>2 DEF Withdraw, PayFromBalance
  <2>3. UNCHANGED <<coreWei, sends, outboundExpectedEvm, outboundWei, outboundTarget,
                    pendingDeposit, clears, gifts, drops, settled>>
    BY <1>2 DEF Withdraw, slots, trackers, counts, bounds, final
  <2> QED
    BY <2>1, <2>2, <2>3, PaidSends
<1>3. ASSUME NEW user \in Users, NEW n \in Amounts,
             RedeemYes(user, n) \/ RedeemNo(user, n)
      PROVE  SendInv'
  <2>1. PICK e \in Nat, payout \in Nat :
          /\ payout = ProRata(e)
          /\ Obligation' \in Nat /\ Obligation' + e <= Obligation
          /\ bal >= payout /\ bal' = bal - payout
          /\ totalPaidOutEvm' = totalPaidOutEvm + payout
    BY <1>1, <1>3, RedeemFromPool
  <2>2. PICK left \in Nat : left = Obligation'
    BY <2>1
  <2>3. Unreserved \in Nat /\ Obligation \in Nat
    <3>1. 0 \in Nat /\ 0 \in 0 .. One
      BY CoreAssumption
    <3> QED
      BY <3>1, ShareFits
  <2>4. payout <= Unreserved
    <3>1. payout = IF Obligation > Unreserved THEN (e * Unreserved) \div Obligation ELSE e
      BY <2>1 DEF ProRata
    <3>2. left + e <= Obligation
      BY <2>1, <2>2
    <3> QED
      BY <2>3, <3>1, <3>2, PoolPays
  <2>5. UNCHANGED <<coreWei, sends, outboundExpectedEvm, outboundWei, outboundTarget,
                    pendingDeposit, clears, gifts, drops, settled, totalOwed>>
    BY <1>3 DEF RedeemYes, RedeemNo, RedeemSettled, slots, trackers, counts, bounds, final,
       debts
  <2> QED
    BY <2>1, <2>4, <2>5, PaidSends
<1>4. ASSUME NEW user \in Users, NEW n \in Amounts, Deposit(user, n)
      PROVE  SendInv'
  BY <1>4, DepositSends
<1>5. ASSUME NEW user \in Users, NEW n \in Amounts,
             \/ RequestRedeem(user, n)
             \/ \E to \in Users : TransferYes(user, to, n) \/ TransferNo(user, to, n)
      PROVE  SendInv'
  BY <1>5, OtherSends
<1>6. CASE CoreStep
  BY <1>6, CoreSends
<1>7. CASE CancelDeposit \/ ClaimRedeem
  BY <1>7, PayOutSends
<1>8. CASE PullSettledFunds
  BY <1>8, PullSends
<1> QED
  BY <1>2, <1>3, <1>4, <1>5, <1>6, <1>7, <1>8, OtherSends DEF Next

\* What withdraw() owes is here or in sends Core can pay, and what is in the air is
\* known to be.
LEMMA SendsCover ==
  ASSUME TypeInv, SendInv
  PROVE  PayoutsCovered
<1>1. PICK c, k : \E n, m \in Nat : Flying(c, k, n, m)
  BY InFlight, Zenon
<1>2. PICK n \in Nat, m \in Nat : Flying(c, k, n, m)
  BY <1>1, Zenon
<1>3. /\ UnitSums(c, sends) /\ k \in 0 .. Len(sends)
      /\ n = c[Len(sends)] /\ m = c[k] /\ m <= n
      /\ k = 0 => m = 0
  BY <1>2, Zenon DEF Flying
<1>f. TrackedBy(n) /\ CoverFor(k, m)
  BY <1>2, Zenon DEF Flying
<1>4. coreWei \in Nat /\ sends \in Seq(Nat) /\ WholeUnits(sends) /\ Len(sends) \in Nat
  BY Numbers DEF SendInv
<1>5. Arriving \in Nat /\ Arriving <= n
  <2>1. 0 \in 0 .. Len(sends) /\ c[0] = 0 /\ 0 * WeiPerUnit = 0
    BY <1>3, <1>4, CoreAssumption DEF UnitSums
  <2>2. c[0] * WeiPerUnit <= coreWei
    BY <1>4, <2>1
  <2> QED
    BY <1>3, <1>4, <2>1, <2>2, LandingBounds DEF Arriving
<1>6. OwedCovered
  <2>1. SUFFICES ASSUME drops = 0, gifts = 0, clears = 0 PROVE totalOwed <= bal + Arriving
    BY DEF OwedCovered
  <2>2. m * WeiPerUnit <= coreWei /\ totalOwed <= bal + m
    BY <1>f, <2>1 DEF CoverFor
  <2>3. c[k] * WeiPerUnit <= coreWei
    BY <1>3, <2>2
  <2>4. m <= Arriving
    BY <1>3, <1>4, <2>3, LandingBounds DEF Arriving
  <2> QED
    BY SMTT(40), <1>5, <2>2, <2>4, Numbers
<1>7. SendsTracked
  <2>1. SUFFICES ASSUME clears = 0 PROVE Arriving <= Unlanded + gifts * Gift
    BY DEF SendsTracked
  <2>2. PICK b, p, e, g \in Nat : /\ b = bal /\ p = totalPaidOutEvm
                                  /\ e = outboundExpectedEvm /\ g = gifts * Gift
    BY Numbers
  <2>3. n + b + p <= e + g
    BY <1>f, <2>1, <2>2 DEF TrackedBy
  <2>4. Arriving <= Less(e, b + p) + g
    BY <1>5, <2>3 DEF Less
  <2> QED
    BY <2>2, <2>4 DEF Unlanded
<1> QED
  BY <1>6, <1>7 DEF PayoutsCovered, TypeInv

\* Whatever happens to Core's queues, and whoever cancels, claims, withdraws and
\* redeems in whatever order: while no send was dropped, what withdraw() owes is on
\* the EVM side or in sends Core can carry out, and redeemSettled never finds the
\* pool complete while part of it is in the air (OutcomeVault.sol, _payOut,
\* _spotSendOut and _unlandedEvm).
THEOREM PayoutsAreCovered == Spec => []PayoutsCovered
<1>1. Init => TypeInv /\ BackingInv /\ SendInv
  BY InitType, InitBacking, InitSend
<1>2. TypeInv /\ BackingInv /\ SendInv /\ [Next]_vars => TypeInv' /\ BackingInv' /\ SendInv'
  BY NextType, StutterType, NextBacking, NextSends
<1>3. TypeInv /\ SendInv => PayoutsCovered
  BY SendsCover
<1> QED
  BY <1>1, <1>2, <1>3, PTL DEF Spec

-----------------------------------------------------------------------------
(***************************************************************************)
(* The refund of a deposit.  Until its split is executed, what Core holds  *)
(* and what is on its way there exceed the baseline by the deposit.        *)
(***************************************************************************)
Recovering ==
  /\ clears = 0 /\ gifts = 0 /\ lost = 0
  /\ pendingDeposit # NoDeposit
  /\ result[pendingDeposit.opId] # "executed"

RecoverInv ==
  Recovering =>
    pendingDeposit.quoteCoreBefore + pendingDeposit.amount * WeiPerUnit <= coreWei + inbound

LEMMA InitRecover == Init => RecoverInv
BY DEF Init, RecoverInv, Recovering

LEMMA DepositTypes ==
  ASSUME TypeInv, pendingDeposit # NoDeposit
  PROVE  /\ pendingDeposit.quoteCoreBefore \in Nat
         /\ pendingDeposit.amount * WeiPerUnit \in Nat
<1>1. pendingDeposit \in PendingDeposit
  BY TypeInvGroups DEF SlotsOK
<1>2. pendingDeposit.quoteCoreBefore \in Nat /\ pendingDeposit.amount \in Nat
  BY <1>1 DEF PendingDeposit
<1> QED
  BY <1>2, WeiOfUnits

\* Steps after which Core holds, or will, no less.
LEMMA RecoverKept ==
  ASSUME TypeInv, TypeInv', RecoverInv,
         Recovering' => /\ Recovering /\ pendingDeposit' = pendingDeposit
                        /\ coreWei + inbound <= coreWei' + inbound'
  PROVE  RecoverInv'
<1>1. SUFFICES ASSUME Recovering'
               PROVE  pendingDeposit'.quoteCoreBefore + pendingDeposit'.amount * WeiPerUnit
                        <= coreWei' + inbound'
  BY DEF RecoverInv
<1>2. PICK x, y \in Nat : /\ x = pendingDeposit.quoteCoreBefore
                          /\ y = pendingDeposit.amount * WeiPerUnit
  BY <1>1, DepositTypes DEF Recovering
<1>3. PICK w, i \in Nat : w = coreWei /\ i = inbound
  BY TypeInvGroups DEF CoreTypeOK
<1>4. PICK v, j \in Nat : v = coreWei' /\ j = inbound'
  BY DEF TypeInv, TypeOK, CoreTypeOK
<1>5. x + y <= w + i
  BY <1>1, <1>2, <1>3 DEF RecoverInv
<1>6. w + i <= v + j
  BY <1>1, <1>3, <1>4
<1>7. x + y <= v + j
  BY <1>5, <1>6
<1> QED
  BY <1>1, <1>2, <1>4, <1>7

LEMMA CoreRecover ==
  ASSUME TypeInv, TypeInv', BackingInv, SendInv, RecoverInv, CoreStep
  PROVE  RecoverInv'
<1> USE DEF slots, counts, bounds, market
<1>1. UNCHANGED <<pendingDeposit, clears, gifts>>
  BY DEF CoreStep
<1>2. /\ coreWei \in Nat /\ inbound \in Nat /\ collateral \in Nat /\ lost \in Nat
      /\ strays \in Nat
      /\ result \in [1 .. MaxOps -> {"none", "queued", "executed", "rejected"}]
  BY TypeInvGroups, CoreAssumption DEF CoreTypeOK
<1>3. ASSUME UNCHANGED <<result, lost>>, coreWei + inbound <= coreWei' + inbound'
      PROVE  RecoverInv'
  <2>1. Recovering' => Recovering
    BY <1>1, <1>3 DEF Recovering
  <2> QED
    BY <1>1, <1>3, <2>1, RecoverKept
<1>4. CASE CreditTransfers \/ CreditStray \/ SettleOutcome \/ PruneOutcome \/ DropSend
  <2>1. coreWei + inbound <= coreWei' + inbound' /\ UNCHANGED <<result, lost>>
    BY <1>2, <1>4, CoreAssumption
       DEF CreditTransfers, CreditStray, SettleOutcome, PruneOutcome, DropSend
  <2> QED
    BY <1>3, <2>1
<1>5. CASE LoseTransfers
  <2>1. lost' # 0
    BY <1>2, <1>5 DEF LoseTransfers
  <2> QED
    BY <2>1 DEF RecoverInv, Recovering
<1>6. CASE CreditSettlement
  <2>1. AfterFee(collateral) \in Nat
    BY <1>2, FeeFits
  <2>2. coreWei + inbound <= coreWei' + inbound' /\ UNCHANGED <<result, lost>>
    BY <1>2, <1>6, <2>1 DEF CreditSettlement
  <2> QED
    BY <1>3, <2>2
<1>7. CASE ApplySplit \/ DropOp
  <2>1. ops # << >>
    BY <1>7 DEF ApplySplit, DropOp
  <2>2. /\ Head(ops).opId = nextOpId /\ nextOpId \in 1 .. MaxOps
        /\ result[nextOpId] = "queued"
    BY <2>1, HeadOp
  <2>3. pendingDeposit # NoDeposit => pendingDeposit.opId = nextOpId
    BY DEF BackingInv, OneOperation, Waits, Idle
  <2>4. UNCHANGED <<lost, inbound>>
    BY <1>7 DEF ApplySplit, DropOp
  <2>5. \/ UNCHANGED coreWei
        \/ result' = [result EXCEPT ![nextOpId] = "executed"]
    BY <1>7, <2>2 DEF ApplySplit, DropOp, Finish
  <2>6. CASE UNCHANGED coreWei
    <3>1. Recovering' => Recovering
      BY <1>1, <2>2, <2>3, <2>4 DEF Recovering
    <3> QED
      BY <1>1, <1>2, <2>4, <2>6, <3>1, RecoverKept
  <2>7. CASE result' = [result EXCEPT ![nextOpId] = "executed"]
    <3>1. result'[nextOpId] = "executed"
      BY <1>2, <2>2, <2>7
    <3> QED
      BY <1>1, <2>3, <3>1 DEF RecoverInv, Recovering
  <2> QED
    BY <2>5, <2>6, <2>7
<1>8. CASE ApplyMerge
  <2>1. pendingDeposit = NoDeposit
    BY <1>8, HeadOp DEF ApplyMerge
  <2> QED
    BY <1>1, <2>1 DEF RecoverInv, Recovering
<1>9. CASE ApplySend
  <2>1. clears = 0 /\ gifts = 0 => pendingDeposit = NoDeposit
    BY <1>9 DEF ApplySend, SendInv, DwellBy, BackingInv, SettledIdle, Idle
  <2> QED
    BY <1>1, <2>1 DEF RecoverInv, Recovering
<1> QED
  BY <1>4, <1>5, <1>6, <1>7, <1>8, <1>9 DEF CoreStep, CoreNext

LEMMA DepositRecover ==
  ASSUME TypeInv, NEW user, NEW n \in Nat, Deposit(user, n)
  PROVE  RecoverInv'
<1>1. PICK w, i, y \in Nat : w = coreWei /\ i = inbound /\ y = n * WeiPerUnit
  BY WeiOfUnits, TypeInvGroups DEF CoreTypeOK
<1>2. /\ pendingDeposit'.quoteCoreBefore = w /\ pendingDeposit'.amount * WeiPerUnit = y
      /\ coreWei' = w /\ inbound' = i + y
  BY <1>1 DEF Deposit
<1>3. w + y <= w + (i + y)
  BY <1>1
<1> QED
  BY <1>2, <1>3 DEF RecoverInv

LEMMA NextRecover ==
  ASSUME TypeInv, TypeInv', BackingInv, SendInv, RecoverInv, [Next]_vars
  PROVE  RecoverInv'
<1> USE DEF slots, counts, bounds, market
<1>1. Amounts \subseteq Nat
  BY VaultAssumption
<1>2. coreWei \in Nat /\ inbound \in Nat /\ clears \in Nat /\ gifts \in Nat
  BY TypeInvGroups, Numbers DEF CoreTypeOK
<1>3. ASSUME UNCHANGED <<coreWei, inbound>>,
             pendingDeposit' = NoDeposit \/ UNCHANGED <<pendingDeposit, result>>,
             clears' = 0 => clears = 0, gifts' = 0 => gifts = 0, lost' = lost
      PROVE  RecoverInv'
  <2>1. Recovering' => Recovering /\ pendingDeposit' = pendingDeposit
    BY <1>3 DEF Recovering
  <2> QED
    BY <1>2, <1>3, <2>1, RecoverKept
<1>4. ASSUME NEW user \in Users, NEW n \in Amounts, Deposit(user, n)
      PROVE  RecoverInv'
  BY <1>1, <1>4, DepositRecover
<1>5. ASSUME NEW user \in Users, NEW n \in Amounts, RequestRedeem(user, n)
      PROVE  RecoverInv'
  BY <1>3, <1>5 DEF RequestRedeem, Idle
<1>6. ASSUME NEW user \in Users, NEW n \in Amounts,
             \/ RedeemYes(user, n)
             \/ RedeemNo(user, n)
             \/ \E to \in Users : TransferYes(user, to, n) \/ TransferNo(user, to, n)
      PROVE  RecoverInv'
  BY <1>3, <1>6 DEF RedeemYes, RedeemNo, RedeemSettled, TransferYes, TransferNo, core
<1>7. CASE ClaimDeposit \/ CancelDeposit \/ ClaimRedeem \/ CancelRedeem
  BY <1>3, <1>7 DEF ClaimDeposit, CancelDeposit, ClaimRedeem, CancelRedeem, core
<1>8. ASSUME NEW v \in Verifiers, NEW op \in 1 .. MaxOps, Attest(v, op)
      PROVE  RecoverInv'
  BY <1>3, <1>8 DEF Attest, core
<1>9. CASE Donate
  BY <1>2, <1>3, <1>9 DEF Donate
<1>10. ASSUME NEW caller \in Owners,
              \/ \E v \in Verifiers : SetVerifier(caller, v)
              \/ \E k \in Keepers : SetKeeper(caller, k)
              \/ \E o \in Owners : SetOwner(caller, o)
              \/ ClearOutbound(caller)
       PROVE  RecoverInv'
  BY <1>2, <1>3, <1>10 DEF SetVerifier, SetKeeper, SetOwner, ClearOutbound, core
<1>11. ASSUME NEW user \in Users, Withdraw(user)
       PROVE  RecoverInv'
  BY <1>3, <1>11 DEF Withdraw
<1>12. ASSUME NEW caller \in Keepers, NEW f \in Relayed, Settle(caller, f)
       PROVE  RecoverInv'
  BY <1>3, <1>12 DEF Settle, core
<1>13. CASE PullSettledFunds
  BY <1>3, <1>13 DEF PullSettledFunds
<1>14. CASE UNCHANGED vars
  BY <1>3, <1>14 DEF vars, core
<1> QED
  BY <1>4, <1>5, <1>6, <1>7, <1>8, <1>9, <1>10, <1>11, <1>12, <1>13, <1>14, CoreRecover
     DEF Next

\* A refund never waits for a proof that cannot come: once a rejected deposit's
\* credit has landed, Core's balance shows it, whatever sends were in flight, landed
\* or dropped before (OutcomeVault.sol, _requireOutboundLanded and cancelDeposit).
THEOREM DepositsAreRecoverable == Spec => []DepositRecoverable
<1>1. Init => TypeInv /\ BackingInv /\ SendInv /\ RecoverInv
  BY InitType, InitBacking, InitSend, InitRecover
<1>2. TypeInv /\ BackingInv /\ SendInv /\ RecoverInv /\ [Next]_vars
        => TypeInv' /\ BackingInv' /\ SendInv' /\ RecoverInv'
  BY NextType, StutterType, NextBacking, NextSends, NextRecover
<1>3. TypeInv /\ RecoverInv => DepositRecoverable
  <2>1. SUFFICES ASSUME TypeInv, RecoverInv, Recovering, inbound = 0 PROVE CreditArrived
    BY DEF DepositRecoverable, Recovering
  <2>2. PICK x, y, w \in Nat : /\ x = pendingDeposit.quoteCoreBefore
                               /\ y = pendingDeposit.amount * WeiPerUnit /\ w = coreWei
    BY <2>1, DepositTypes, Numbers DEF Recovering
  <2>3. x + y <= w
    BY <2>1, <2>2 DEF RecoverInv
  <2> QED
    BY <2>2, <2>3 DEF CreditArrived
<1> QED
  BY <1>1, <1>2, <1>3, PTL DEF Spec
=============================================================================
