------------------------------ MODULE Pricing ------------------------------
(***************************************************************************)
(* The arithmetic of a quote (pricing.ts, infoApi.ts, server.ts): bigints, *)
(* divided towards zero.  Probabilities and prices are in parts of WAD,    *)
(* rates in parts of BPS, money in the token's units.                      *)
(***************************************************************************)
EXTENDS Integers, Sequences, SequencesExt, FiniteSetsExt

CONSTANTS WAD, BPS

ASSUME PricingAssumption == {WAD, BPS} \subseteq Nat \ {0}

\* The edge on n legs
TotalEdge(n, edgeBps, legBps) == edgeBps + legBps * Max({0, n - 1})

\* Legs are taken as independent
Joint(prices) == FoldLeft(LAMBDA joint, p : (joint * p) \div WAD, WAD, prices)

\* Mutant: the edge is the taker's.
Discounted(joint, edge) == joint - (joint * (WAD - joint) * edge) \div (WAD * BPS)
\* The edge is charged on p(1 - p)
PriceOf(joint, edge) == joint + (joint * (WAD - joint) * edge) \div (WAD * BPS)

\* Mutant: the contract's floor is not applied.
UncappedPayout(stake, price, minPremiumBps) == (stake * WAD) \div price
PayoutAt(stake, price, minPremiumBps) ==
  Min({(stake * WAD) \div price, (stake * BPS) \div minPremiumBps})

\* A leg alone would pay as much
Dominated(prices, stake, payout) ==
  \E i \in DOMAIN prices : prices[i] > 0 /\ payout <= (stake * WAD) \div prices[i]

\* Mutant: rounded up.
FitStakeUp(stake, headroom, risk) == (stake * headroom + risk - 1) \div risk
\* The stake that a refused quote advertises as one that fits
FitStake(stake, headroom, risk) == (stake * headroom) \div risk

\* The ask that covers minDepth: the average price of the levels needed, never
\* below the best; 0 for a book that is too thin.  A level is <<price, size>>.
BestAsk(asks, minDepth) ==
  LET size(i) == MapThenSumSet(LAMBDA j : asks[j][2], 1 .. i)
      cost(i) == MapThenSumSet(LAMBDA j : asks[j][1] * asks[j][2], 1 .. i)
      deep == {i \in DOMAIN asks : size(i) > 0 /\ size(i) >= minDepth}
  IN IF deep = {} THEN 0
     ELSE LET i == Min(deep) IN Max({cost(i) \div size(i), asks[1][1]})
=============================================================================
