---------------------- MODULE WriterServiceProofs ----------------------
(***************************************************************************)
(* Proofs about what the writer answers to a visitor.                      *)
(*                                                                         *)
(* QuotePath: a quote ends before its markets do, and its terms are sound, *)
(* for every fixed-point base, rate, stake and price, whatever book gave   *)
(* the prices; no visitor gets more than the limit in a window.            *)
(*                                                                         *)
(* Waitlist: what was answered is kept, and the sheet tells the truth, for *)
(* every number of emails, accounts, cohorts and mishaps.                  *)
(***************************************************************************)
EXTENDS QuotePath, Waitlist, WellFoundedInduction, FiniteSetTheorems, SequenceTheorems, TLAPS

-----------------------------------------------------------------------------
(* Arithmetic *)

\* Division rounds down.
LEMMA Divides ==
  ASSUME NEW a \in Int, NEW b \in Nat, b > 0
  PROVE  a \div b \in Int /\ (a \div b) * b <= a /\ a < (a \div b) * b + b
OBVIOUS

\* Multiplying by a natural number keeps an order.
LEMMA Scales ==
  ASSUME NEW a \in Int, NEW b \in Int, NEW c \in Nat, a <= b PROVE a * c <= b * c
OBVIOUS

\* The smaller of two payouts is one of them and no more than either.
LEMMA MinOfTwo ==
  ASSUME NEW a \in Int, NEW b \in Int
  PROVE  LET m == Min({a, b}) IN m \in Int /\ m <= a /\ m <= b /\ (m = a \/ m = b)
<1>1. \E x \in {a, b} : \A y \in {a, b} : x <= y
  OBVIOUS
<1>2. Min({a, b}) \in {a, b} /\ \A y \in {a, b} : Min({a, b}) <= y
  BY <1>1, Zenon DEF Min
<1> QED
  BY <1>2

\* A stake that is cut in proportion to the headroom risks no more than the
\* headroom at the same rate a/b: the rounding of payout and stake does not
\* add up to a unit.
LEMMA FitAtRate ==
  ASSUME NEW s \in Nat, NEW a \in Nat, NEW b \in Nat, b > 0,
         NEW r \in Nat, r > 0, (s * a) \div b = s + r,
         NEW h \in Nat, h < r
  PROVE  LET f == (s * h) \div r IN f \in Nat /\ (f * a) \div b - f <= h
<1> DEFINE f == (s * h) \div r
           paid == (f * a) \div b
<1>1. s * h \in Nat /\ s * a \in Nat
  OBVIOUS
<1>2. f \in Int /\ f * r <= s * h /\ s * h < f * r + r
  BY <1>1, Divides
<1>3. f \in Nat
  <2>1. SUFFICES ASSUME f <= -1 PROVE FALSE
    BY <1>2
  <2>2. f * r <= (-1) * r
    BY <1>2, <2>1, Scales
  <2> QED
    BY <1>1, <1>2, <2>2
<1> HIDE DEF f
<1>4. f * a \in Nat
  BY <1>3
<1>5. paid \in Int /\ paid * b <= f * a
  BY <1>4, Divides
<1>6. s * a < (s + r) * b + b
  BY <1>1, Divides
<1> HIDE DEF paid
<1>7. SUFFICES ASSUME paid >= f + h + 1 PROVE FALSE
  BY <1>3, <1>5 DEF f, paid
<1>8. (f + h + 1) * b <= f * a
  <2>1. (f + h + 1) * b <= paid * b
    BY <1>3, <1>5, <1>7, Scales
  <2>2. (f + h + 1) * b \in Int /\ paid * b \in Int
    BY <1>3, <1>5
  <2> QED
    BY <1>4, <1>5, <2>1, <2>2
<1> DEFINE c == a - b
<1>9. c \in Int /\ (h + 1) * b <= f * c
  <2>1. (f + h + 1) * b = f * b + (h + 1) * b /\ f * (a - b) = f * a - f * b
    BY <1>3
  <2>2. f * b \in Int /\ (h + 1) * b \in Int
    BY <1>3
  <2> QED
    BY <1>4, <1>8, <2>1, <2>2
<1>10. s * c <= r * b + b - 1
  <2>1. s * (a - b) = s * a - s * b /\ (s + r) * b = s * b + r * b
    OBVIOUS
  <2>2. s * b \in Int /\ r * b \in Int
    OBVIOUS
  <2> QED
    BY <1>1, <1>6, <2>1, <2>2
<1> HIDE DEF c
<1>11. (h + 1) * b \in Nat /\ (h + 1) * b > 0
  <2>1. 1 * b <= (h + 1) * b
    BY Scales
  <2> QED
    BY <2>1
<1>12. c \in Nat
  <2>1. SUFFICES ASSUME c <= 0 PROVE FALSE
    BY <1>9
  <2>2. c * f <= 0 * f
    BY <1>3, <1>9, <2>1, Scales
  <2>3. c * f = f * c /\ 0 * f = 0
    BY <1>3, <1>9
  <2> QED
    BY <1>3, <1>9, <1>11, <2>2, <2>3
<1>13. ((h + 1) * b) * r <= (s * h) * c
  <2>1. ((h + 1) * b) * r <= (f * c) * r
    BY <1>3, <1>9, <1>11, <1>12, Scales
  <2>2. (f * r) * c <= (s * h) * c
    BY <1>1, <1>2, <1>12, Scales
  <2>3. (f * c) * r = (f * r) * c
    BY <1>3, <1>12
  <2>4. ((h + 1) * b) * r \in Int /\ (f * c) * r \in Int /\ (s * h) * c \in Int
    BY <1>1, <1>3, <1>12, <1>11
  <2> QED
    BY <2>1, <2>2, <2>3, <2>4
<1>14. (s * c) * h <= (r * b + b - 1) * h
  BY <1>10, <1>12, Scales
<1>15. (s * h) * c = (s * c) * h
  BY <1>12
<1>16. ((h + 1) * b) * r = (h * b) * r + b * r
  OBVIOUS
<1>17. (r * b + b - 1) * h = (h * b) * r + b * h - h
  OBVIOUS
<1>18. b * r <= b * h - h
  <2>1. (h * b) * r \in Int /\ b * r \in Int /\ b * h \in Int /\ (s * c) * h \in Int
    BY <1>12
  <2> QED
    BY <1>13, <1>14, <1>15, <1>16, <1>17, <2>1
<1>19. b * r >= b * h + b
  <2>1. (h + 1) * b <= r * b
    BY Scales
  <2>2. (h + 1) * b = b * h + b /\ r * b = b * r
    OBVIOUS
  <2> QED
    BY <2>1, <2>2
<1> QED
  BY <1>18, <1>19

\* The smaller of two payouts risks no more than either does.
LEMMA FitsWithin ==
  ASSUME NEW f \in Nat, NEW a \in Nat, NEW b \in Nat, b > 0, NEW c \in Nat, NEW d \in Nat, d > 0,
         NEW h \in Nat, (f * a) \div b - f <= h \/ (f * c) \div d - f <= h
  PROVE  Min({(f * a) \div b, (f * c) \div d}) - f <= h
<1>1. f * a \in Nat /\ f * c \in Nat
  OBVIOUS
<1>2. (f * a) \div b \in Int /\ (f * c) \div d \in Int
  BY <1>1, Divides
<1>3. PICK x \in Int, y \in Int : x = (f * a) \div b /\ y = (f * c) \div d
  BY <1>2
<1>4. Min({x, y}) \in Int /\ Min({x, y}) <= x /\ Min({x, y}) <= y
  BY MinOfTwo
<1> QED
  BY <1>3, <1>4

-----------------------------------------------------------------------------
(* The terms of an offer *)

\* The edge on any number of legs is a natural number.
LEMMA EdgeIsNat ==
  ASSUME NEW n \in Nat PROVE TotalEdge(n, EdgeBps, LegBps) \in Nat
<1>1. \E x \in {0, n - 1} : \A y \in {0, n - 1} : x >= y
  OBVIOUS
<1>2. Max({0, n - 1}) \in {0, n - 1} /\ \A y \in {0, n - 1} : Max({0, n - 1}) >= y
  BY <1>1, Zenon DEF Max
<1>3. PICK m \in Nat : Max({0, n - 1}) = m
  BY <1>2
<1>4. EdgeBps \in Nat /\ LegBps \in Nat
  BY QuoteAssumption
<1>5. EdgeBps + LegBps * m \in Nat
  BY <1>4
<1> QED
  BY <1>3, <1>5 DEF TotalEdge

\* The price of a joint probability is not below it.
LEMMA PriceIsDearer ==
  ASSUME NEW joint \in 1 .. WAD - 1, NEW edge \in Nat
  PROVE  PriceOf(joint, edge) \in Nat /\ joint <= PriceOf(joint, edge)
<1>1. WAD \in Nat /\ BPS \in Nat /\ WAD > 0 /\ BPS > 0
  BY PricingAssumption
<1>2. WAD - joint \in Nat /\ joint \in Nat
  BY <1>1
<1>3. PICK x \in Nat : x = joint * (WAD - joint) * edge
  BY <1>2
<1>4. PICK y \in Nat : y = WAD * BPS /\ y > 0
  <2>1. WAD * BPS \in Nat
    BY <1>1
  <2>2. 1 * BPS <= WAD * BPS
    BY <1>1, Scales
  <2> QED
    BY <1>1, <2>1, <2>2
<1>5. x \div y \in Nat
  BY <1>4
<1>6. PriceOf(joint, edge) = joint + x \div y
  BY <1>3, <1>4 DEF PriceOf
<1> QED
  BY <1>2, <1>5, <1>6

\* The terms of an offer are those of a sale that the vault accepts and that is
\* no better than fair, and a refusal's stake fits the headroom.
LEMMA OfferIsSound ==
  ASSUME NEW prices, Len(prices) \in Nat, NEW stake \in Nat, stake > 0, Offered(prices, stake)
  PROVE  LET payout == Payout(prices, stake)
         IN /\ payout \in Nat /\ stake < payout
            /\ stake * BPS >= payout * MinPremiumBps
            /\ payout * Joint(prices) <= stake * WAD
            /\ \A headroom \in 0 .. payout - stake - 1 :
                 LET fit == FitStake(stake, headroom, payout - stake)
                 IN Payout(prices, fit) - fit <= headroom
<1>1. /\ WAD \in Nat /\ WAD > 0 /\ BPS \in Nat /\ BPS > 0
      /\ MinPremiumBps \in Nat /\ MinPremiumBps > 0
  <2>1. {MinPremiumBps, Limit, Window, Width} \subseteq Nat \ {0}
    BY QuoteAssumption, Zenon
  <2> QED
    BY <2>1, PricingAssumption
<1>2. PICK joint \in 1 .. WAD - 1 : joint = Joint(prices)
  BY DEF Offered
<1>3. PICK edge \in Nat : edge = TotalEdge(Len(prices), EdgeBps, LegBps)
  BY EdgeIsNat
<1>4. PICK price \in Nat : price = PriceOf(joint, edge) /\ joint <= price
  BY PriceIsDearer
<1>5. price > 0
  BY <1>4
<1>6. \A s : Payout(prices, s) = Min({(s * WAD) \div price, (s * BPS) \div MinPremiumBps})
  BY <1>2, <1>3, <1>4 DEF Payout, PayoutAt
<1>7. PICK market : market = (stake * WAD) \div price
  OBVIOUS
<1>8. PICK capped : capped = (stake * BPS) \div MinPremiumBps
  OBVIOUS
<1>9. stake * WAD \in Nat /\ stake * BPS \in Nat
  BY <1>1
<1>10. /\ market \in Int /\ market * price <= stake * WAD
       /\ capped \in Int /\ capped * MinPremiumBps <= stake * BPS
  BY <1>1, <1>5, <1>7, <1>8, <1>9, Divides
<1>11. PICK payout \in Int : /\ payout = Payout(prices, stake)
                             /\ payout <= market /\ payout <= capped
                             /\ payout = market \/ payout = capped
  BY <1>6, <1>7, <1>8, <1>10, MinOfTwo
<1>12. stake < payout /\ payout \in Nat
  BY <1>11 DEF Offered
<1>13. stake * BPS >= payout * MinPremiumBps
  <2>1. payout * MinPremiumBps <= capped * MinPremiumBps
    BY <1>1, <1>10, <1>11, Scales
  <2>2. payout * MinPremiumBps \in Int /\ capped * MinPremiumBps \in Int
    BY <1>1, <1>10
  <2> QED
    BY <1>9, <1>10, <2>1, <2>2
<1>14. payout * joint <= stake * WAD
  <2>1. payout * price <= market * price
    BY <1>10, <1>11, Scales
  <2>2. joint * payout <= price * payout
    BY <1>4, <1>12, Scales
  <2>3. payout * joint = joint * payout /\ payout * price = price * payout
    BY <1>12
  <2>4. payout * price \in Int /\ market * price \in Int /\ payout * joint \in Int
    BY <1>10, <1>12
  <2> QED
    BY <1>9, <1>10, <2>1, <2>2, <2>3, <2>4
<1>15. ASSUME NEW headroom \in 0 .. payout - stake - 1
       PROVE  Payout(prices, FitStake(stake, headroom, payout - stake))
                - FitStake(stake, headroom, payout - stake) <= headroom
  <2>1. PICK risk \in Nat : risk = payout - stake /\ risk > 0 /\ headroom \in Nat /\ headroom < risk
    BY <1>12
  <2>2. PICK fit : fit = (stake * headroom) \div risk
    OBVIOUS
  <2>3. FitStake(stake, headroom, payout - stake) = fit
    BY <2>1, <2>2 DEF FitStake
  <2>4. CASE payout = market
    <3>1. (stake * WAD) \div price = stake + risk
      BY <1>7, <2>1, <2>4
    <3>2. fit \in Nat /\ (fit * WAD) \div price - fit <= headroom
      BY <1>1, <1>5, <2>1, <2>2, <3>1, FitAtRate
    <3> QED
      BY <2>1, <3>2, FitsWithin, <1>1, <1>5, <1>6, <2>3
  <2>5. CASE payout = capped
    <3>1. (stake * BPS) \div MinPremiumBps = stake + risk
      BY <1>8, <2>1, <2>5
    <3>2. fit \in Nat /\ (fit * BPS) \div MinPremiumBps - fit <= headroom
      BY <1>1, <2>1, <2>2, <3>1, FitAtRate
    <3> QED
      BY <2>1, <3>2, FitsWithin, <1>1, <1>5, <1>6, <2>3
  <2> QED
    BY <1>11, <2>4, <2>5
<1> QED
  BY <1>2, <1>11, <1>12, <1>13, <1>14, <1>15, Zenon

-----------------------------------------------------------------------------
(* The path of a request *)

Asked == [at : {"auth", "pricing"}, since : Nat, legs : Seq(Markets), stake : Int]

\* The markets of a request were open when it came, with time to spare.
OpenSince == \A i \in DOMAIN request.legs : request.since < Expires[request.legs[i]] - Lockout

\* A request under way: what was checked of it, and that it is not old.
PathInv ==
  /\ now \in Nat
  /\ request.at \in {"answered", "auth", "pricing", "room", "refused", "quoted"}
  /\ request.at \in {"auth", "pricing"} => request \in Asked
  /\ UnderWay => /\ request.since \in Nat /\ request.legs \in Seq(Markets)
                 /\ request.since <= now /\ now <= request.since + MaxLatency
  /\ request.at \in {"pricing", "room"} => request.stake \in Nat /\ request.stake > 0 /\ OpenSince
  /\ request.at = "room" => Len(request.prices) \in Nat
  /\ QuoteEndsBeforeExpiry /\ SoundTerms

\* Nothing is asked at first.
LEMMA InitOK == ASSUME Init PROVE PathInv
BY DEF Init, PathInv, Answered, UnderWay, Quoted, QuoteEndsBeforeExpiry, SoundTerms,
       PricedIsAccepted, NeverBetterThanFair, FitStakeFits

\* A request that is answered owes nothing.
LEMMA AnsweredOK == ASSUME PathInv, request' = Answered, now' = now PROVE PathInv'
BY DEF PathInv, Answered, UnderWay, Quoted, QuoteEndsBeforeExpiry, SoundTerms,
       PricedIsAccepted, NeverBetterThanFair, FitStakeFits

\* A request comes.
LEMMA ArriveOK ==
  ASSUME PathInv, NEW legs \in Legs, NEW stake \in Stakes, Arrive(legs, stake) PROVE PathInv'
<1>1. now' = now
  BY DEF Arrive
<1>2. CASE request' = Answered
  BY <1>1, <1>2, AnsweredOK
<1>3. CASE request' = [at |-> "auth", since |-> now, legs |-> legs, stake |-> stake]
  <2>1. now \in Nat
    BY DEF PathInv
  <2>2. legs \in Seq(Markets)
    <3>1. PICK n \in 0 .. MaxLegs + 1 : legs \in [1 .. n -> Markets]
      BY DEF Legs
    <3>2. n \in Nat
      BY <3>1, QuoteAssumption
    <3> QED
      BY <3>1, <3>2
  <2>3. stake \in Int /\ MaxLatency \in Nat
    BY QuoteAssumption
  <2>4. request' \in Asked
    BY <1>3, <2>1, <2>2, <2>3 DEF Asked
  <2>5. request'.at = "auth" /\ request'.since = now /\ request'.legs = legs
    BY <1>3
  <2> QED
    BY <1>1, <2>1, <2>2, <2>3, <2>4, <2>5
    DEF PathInv, UnderWay, Quoted, QuoteEndsBeforeExpiry, SoundTerms,
        PricedIsAccepted, NeverBetterThanFair, FitStakeFits
<1> QED
  BY <1>2, <1>3 DEF Arrive

\* It is validated: no market of it is locked.
LEMMA ValidateOK == ASSUME PathInv, Validate PROVE PathInv'
<1>1. now' = now /\ request.at = "auth" /\ request \in Asked
  BY DEF Validate, PathInv
<1>2. CASE request' = Answered
  BY <1>1, <1>2, AnsweredOK
<1>3. CASE Valid(request.legs, request.stake) /\ request' = [request EXCEPT !.at = "pricing"]
  <2>1. /\ request' \in Asked /\ request'.at = "pricing" /\ request'.since = request.since
        /\ request'.legs = request.legs /\ request'.stake = request.stake
    BY <1>1, <1>3 DEF Asked
  <2>2. /\ request.since \in Nat /\ request.legs \in Seq(Markets) /\ now \in Nat
        /\ request.since <= now /\ now <= request.since + MaxLatency
    BY <1>1 DEF PathInv, UnderWay
  <2>3. request.stake \in Nat /\ request.stake > 0
    BY <1>1, <1>3 DEF Asked, Valid
  <2>4. ASSUME NEW i \in DOMAIN request.legs
        PROVE  request.since < Expires[request.legs[i]] - Lockout
    <3>1. Expires[request.legs[i]] \in Int /\ Lockout \in Nat
      <4>1. request.legs[i] \in Markets
        BY <2>2
      <4> QED
        BY <4>1, QuoteAssumption
    <3>2. ~(now >= Expires[request.legs[i]] - Lockout)
      BY <1>3 DEF Valid, Locked
    <3> QED
      BY <2>2, <3>1, <3>2
  <2>5. OpenSince'
    BY <2>1, <2>4 DEF OpenSince
  <2> QED
    BY <1>1, <2>1, <2>2, <2>3, <2>5
    DEF PathInv, UnderWay, Quoted, QuoteEndsBeforeExpiry, SoundTerms,
        PricedIsAccepted, NeverBetterThanFair, FitStakeFits
<1> QED
  BY <1>2, <1>3 DEF Validate

\* Its legs are priced.
LEMMA FetchOK == ASSUME PathInv, FetchPrices PROVE PathInv'
<1>1. now' = now /\ request.at = "pricing" /\ request.legs \in Seq(Markets)
  BY DEF FetchPrices, PathInv, UnderWay
<1>2. CASE request' = Answered
  BY <1>1, <1>2, AnsweredOK
<1>3. CASE request' # Answered
  <2>1. PICK prices : /\ DOMAIN prices = DOMAIN request.legs
                      /\ prices = [i \in DOMAIN prices |-> prices[i]]
                      /\ request' = [at |-> "room", since |-> request.since, legs |-> request.legs,
                                     stake |-> request.stake, prices |-> prices]
    BY <1>3 DEF FetchPrices, Priced
  <2>2. Len(prices) \in Nat
    BY <1>1, <2>1
  <2>3. /\ request'.at = "room" /\ request'.since = request.since /\ request'.legs = request.legs
        /\ request'.stake = request.stake /\ request'.prices = prices
    BY <2>1
  <2>4. OpenSince'
    BY <1>1, <2>3 DEF OpenSince, PathInv
  <2> QED
    BY <1>1, <2>2, <2>3, <2>4
    DEF PathInv, UnderWay, Quoted, QuoteEndsBeforeExpiry, SoundTerms,
        PricedIsAccepted, NeverBetterThanFair, FitStakeFits
<1> QED
  BY <1>2, <1>3

\* An offer is signed: it ends before the lockout that it passed.
LEMMA SignOK == ASSUME PathInv, Sign PROVE PathInv'
<1>1. /\ now' = now /\ now \in Nat /\ request.at = "room" /\ Offered(request.prices, request.stake)
      /\ request' = [at |-> "quoted", payout |-> Payout(request.prices, request.stake),
                     premium |-> request.stake, prices |-> request.prices, legs |-> request.legs,
                     deadline |-> now + Ttl]
  BY DEF Sign, Quote, PathInv
<1>2. /\ request.since \in Nat /\ request.legs \in Seq(Markets) /\ now <= request.since + MaxLatency
      /\ request.stake \in Nat /\ request.stake > 0 /\ OpenSince /\ Len(request.prices) \in Nat
  BY <1>1 DEF PathInv, UnderWay
<1>3. /\ request'.at = "quoted" /\ request'.payout = Payout(request.prices, request.stake)
      /\ request'.premium = request.stake /\ request'.prices = request.prices
      /\ request'.legs = request.legs /\ request'.deadline = now + Ttl
  BY <1>1
<1>4. ASSUME NEW i \in DOMAIN request.legs PROVE now + Ttl < Expires[request.legs[i]]
  <2>1. Expires[request.legs[i]] \in Int /\ {Lockout, MaxLatency, Ttl} \subseteq Nat
        /\ Lockout > MaxLatency + Ttl
    <3>1. {Lockout, Ttl} \subseteq Nat /\ MaxLatency \in Nat /\ Lockout > MaxLatency + Ttl
      BY QuoteAssumption
    <3>2. request.legs[i] \in Markets
      BY <1>2
    <3> QED
      BY <3>1, <3>2, QuoteAssumption
  <2>2. request.since < Expires[request.legs[i]] - Lockout
    BY <1>2 DEF OpenSince
  <2> QED
    BY <1>1, <1>2, <2>1, <2>2
<1>5. QuoteEndsBeforeExpiry'
  BY <1>3, <1>4 DEF QuoteEndsBeforeExpiry
<1>6. LET payout == Payout(request.prices, request.stake)
      IN /\ payout \in Nat /\ request.stake < payout
         /\ request.stake * BPS >= payout * MinPremiumBps
         /\ payout * Joint(request.prices) <= request.stake * WAD
  BY <1>1, <1>2, OfferIsSound
<1>7. SoundTerms'
  <2>1. PricedIsAccepted'
    BY <1>2, <1>3, <1>6 DEF PricedIsAccepted
  <2>2. NeverBetterThanFair'
    BY <1>3, <1>6 DEF NeverBetterThanFair
  <2>3. FitStakeFits'
    BY <1>3 DEF FitStakeFits
  <2> QED
    BY <2>1, <2>2, <2>3 DEF SoundTerms
<1> QED
  BY <1>1, <1>3, <1>5, <1>7 DEF PathInv, UnderWay

\* An offer does not fit: a stake that does is answered.
LEMMA RefuseOK == ASSUME PathInv, Refuse PROVE PathInv'
<1>1. now' = now /\ request.at = "room" /\ Offered(request.prices, request.stake)
  BY DEF Refuse
<1>2. PICK headroom \in 0 .. Payout(request.prices, request.stake) - request.stake - 1 :
        request' = [at |-> "refused", prices |-> request.prices, headroom |-> headroom,
                    maxStake |-> FitStake(request.stake, headroom,
                                          Payout(request.prices, request.stake) - request.stake)]
  BY DEF Refuse
<1>3. request.stake \in Nat /\ request.stake > 0 /\ Len(request.prices) \in Nat
  BY <1>1 DEF PathInv, UnderWay
<1>4. /\ request'.at = "refused" /\ request'.prices = request.prices
      /\ request'.headroom = headroom
      /\ request'.maxStake = FitStake(request.stake, headroom,
                                      Payout(request.prices, request.stake) - request.stake)
  BY <1>2
<1>5. FitStakeFits'
  <2>1. LET fit == FitStake(request.stake, headroom,
                            Payout(request.prices, request.stake) - request.stake)
        IN Payout(request.prices, fit) - fit <= headroom
    BY <1>1, <1>3, OfferIsSound
  <2>2. Payout(request'.prices, request'.maxStake) - request'.maxStake <= request'.headroom
    BY <1>4, <2>1
  <2> QED
    BY <2>2, Zenon DEF FitStakeFits
<1>6. SoundTerms' /\ QuoteEndsBeforeExpiry'
  BY <1>4, <1>5 DEF SoundTerms, QuoteEndsBeforeExpiry, PricedIsAccepted, NeverBetterThanFair, Quoted
<1> QED
  BY <1>1, <1>4, <1>6 DEF PathInv, UnderWay

\* Time passes, no longer than the calls take.
LEMMA TickOK == ASSUME PathInv, Tick PROVE PathInv'
<1>1. now' = now + 1 /\ request' = request
  BY DEF Tick
<1>2. UnderWay => now' <= request.since + MaxLatency /\ request.since <= now'
  <2>1. MaxLatency \in Nat
    BY QuoteAssumption
  <2> QED
    BY <1>1, <2>1 DEF Tick, PathInv
<1> QED
  BY <1>1, <1>2 DEF PathInv, UnderWay, OpenSince, Quoted, QuoteEndsBeforeExpiry, SoundTerms,
                    PricedIsAccepted, NeverBetterThanFair, FitStakeFits

-----------------------------------------------------------------------------
(* The theorems *)

\* Every step keeps the invariant.
LEMMA StepOK == ASSUME PathInv, [Next]_vars PROVE PathInv'
<1>1. ASSUME NEW legs \in Legs, NEW stake \in Stakes, Arrive(legs, stake) PROVE PathInv'
  BY <1>1, ArriveOK
<1>2. CASE Drop
  BY <1>2, AnsweredOK DEF Drop
<1>3. CASE UNCHANGED vars
  BY <1>3 DEF vars, PathInv, UnderWay, OpenSince, Quoted, QuoteEndsBeforeExpiry, SoundTerms,
              PricedIsAccepted, NeverBetterThanFair, FitStakeFits
<1> QED
  BY <1>1, <1>2, <1>3, ValidateOK, FetchOK, SignOK, RefuseOK, TickOK DEF Next

\* Every signed quote's deadline is before the end of each of its markets.
THEOREM QuotesEndInTime == Spec => []QuoteEndsBeforeExpiry
<1>1. PathInv => QuoteEndsBeforeExpiry
  BY DEF PathInv
<1> QED
  BY <1>1, InitOK, StepOK, PTL DEF Spec

\* Every signed quote is one that the vault accepts and that is no better than
\* fair, and every refusal names a stake that fits, at any precision.
THEOREM TermsAreSound == Spec => []SoundTerms
<1>1. PathInv => SoundTerms
  BY DEF PathInv
<1> QED
  BY <1>1, InitOK, StepOK, PTL DEF Spec

-----------------------------------------------------------------------------
(* The limiter *)

\* A set of naturals that holds 0, and the next of each, holds them all.
LEMMA SetInduction ==
  ASSUME NEW S, 0 \in S, \A n \in Nat : n \in S => n + 1 \in S
  PROVE  Nat \subseteq S
<1>1. SUFFICES ASSUME Nat \ S # {} PROVE FALSE
  OBVIOUS
<1>2. PICK R : R = OpToRel(<, Nat) /\ IsWellFoundedOn(R, Nat)
  BY NatLessThanWellFounded
<1>3. PICK x \in Nat \ S : \A y \in Nat \ S : ~(<<y, x>> \in R)
  BY <1>1, <1>2, WFMin
<1>4. x # 0 /\ x - 1 \in Nat
  BY <1>3
<1>5. x - 1 \notin S
  BY <1>3, <1>4
<1>6. <<x - 1, x>> \in R
  BY <1>2, <1>3, <1>4 DEF OpToRel
<1> QED
  BY <1>3, <1>4, <1>5, <1>6

\* The hits from the one after k on.
From(hs, k) == [j \in 1 .. Len(hs) - k |-> hs[k + j]]

\* The first m hits are past, the others are not.
SplitAt(hs, m) ==
  /\ \A i \in 1 .. m : ~(now - hs[i] < Window)
  /\ \A i \in m + 1 .. Len(hs) : now - hs[i] < Window

Ordered(hs) == \A i, j \in DOMAIN hs : i <= j => hs[i] <= hs[j]

\* The filter keeps what is after the split.
LEMMA RecentIsSuffix ==
  ASSUME NEW hs \in Seq(Int), NEW m \in 0 .. Len(hs), SplitAt(hs, m)
  PROVE  Recent(hs) = From(hs, m)
<1> DEFINE Grown(f, i) == IF i = 0 THEN << >>
                          ELSE IF now - hs[i] < Window THEN Append(f[i - 1], hs[i]) ELSE f[i - 1]
           IsKept(f) == f = [i \in 0 .. Len(hs) |-> Grown(f, i)]
           Size(i) == IF i <= m THEN 0 ELSE i - m
           g == [i \in 0 .. Len(hs) |-> [j \in 1 .. Size(i) |-> hs[m + j]]]
<1>1. Len(hs) \in Nat /\ m \in Nat /\ m <= Len(hs)
  OBVIOUS
<1>2. ASSUME NEW i \in 0 .. Len(hs) PROVE g[i] = Grown(g, i)
  <2>1. CASE i = 0
    BY <1>1, <2>1
  <2>2. CASE i # 0 /\ i <= m
    <3>1. g[i] = << >> /\ g[i - 1] = << >>
      BY <1>1, <2>2
    <3>2. ~(now - hs[i] < Window)
      BY <1>1, <2>2 DEF SplitAt
    <3> QED
      BY <2>2, <3>1, <3>2
  <2>3. CASE i # 0 /\ i > m
    <3>1. now - hs[i] < Window
      BY <1>1, <2>3 DEF SplitAt
    <3>2. PICK k \in Nat : k = i - 1 - m
      BY <1>1, <2>3
    <3>3. Size(i) = k + 1 /\ Size(i - 1) = k /\ i - 1 \in 0 .. Len(hs)
      BY <1>1, <2>3, <3>2
    <3>4. g[i] = [j \in 1 .. k + 1 |-> hs[m + j]] /\ g[i - 1] = [j \in 1 .. k |-> hs[m + j]]
      BY <3>3
    <3>5. \A j \in 1 .. k + 1 : hs[m + j] \in Int
      BY <1>1, <2>3, <3>2
    <3>6. Append([j \in 1 .. k |-> hs[m + j]], hs[i]) = [j \in 1 .. k + 1 |-> hs[m + j]]
      <4>1. i = m + (k + 1) /\ k \in Nat
        BY <1>1, <3>2
      <4>2. PICK a : a = [j \in 1 .. k |-> hs[m + j]]
        OBVIOUS
      <4>3. a \in Seq(Int) /\ Len(a) = k
        <5>1. a \in [1 .. k -> Int] /\ k \in Nat
          BY <3>2, <3>5, <4>2
        <5> QED
          BY <5>1
      <4>4. /\ Append(a, hs[i]) = [j \in 1 .. k + 1 |-> IF j <= k THEN a[j] ELSE hs[i]]
        BY <4>3
      <4> QED
        BY <4>1, <4>2, <4>4
    <3> QED
      BY <2>3, <3>1, <3>4, <3>6
  <2> QED
    BY <1>1, <2>1, <2>2, <2>3
<1>3. IsKept(g)
  <2> DEFINE h == [i \in 0 .. Len(hs) |-> Grown(g, i)]
  <2>1. \A i \in 0 .. Len(hs) : g[i] = h[i]
    BY <1>2
  <2>2. DOMAIN g = 0 .. Len(hs) /\ DOMAIN h = 0 .. Len(hs)
    OBVIOUS
  <2>3. g = h
    BY <2>1, <2>2
  <2> QED
    BY <2>3
<1> DEFINE kept == CHOOSE f : IsKept(f)
<1>4. IsKept(kept)
  <2> HIDE DEF IsKept, g
  <2> QED
    BY <1>3
<1>5. \A i \in 0 .. Len(hs) : kept[i] = Grown(kept, i)
  <2> HIDE DEF kept
  <2> QED
    BY <1>4
<1> DEFINE S == {n \in Nat : n <= Len(hs) => kept[n] = g[n]}
<1> HIDE DEF kept, g
<1>6. Nat \subseteq S
  <2>1. 0 \in S
    BY <1>1, <1>2, <1>5
  <2>2. ASSUME NEW n \in Nat, n \in S PROVE n + 1 \in S
    <3>1. SUFFICES ASSUME n + 1 <= Len(hs) PROVE kept[n + 1] = g[n + 1]
      OBVIOUS
    <3>2. n + 1 \in 0 .. Len(hs) /\ n + 1 # 0 /\ (n + 1) - 1 = n
      BY <1>1, <3>1
    <3>3. kept[n] = g[n]
      BY <1>1, <2>2, <3>1
    <3>4. kept[n + 1] = Grown(kept, n + 1) /\ g[n + 1] = Grown(g, n + 1)
      BY <1>2, <1>5, <3>2
    <3> QED
      BY <3>2, <3>3, <3>4
  <2> HIDE DEF S
  <2> QED
    BY <2>1, <2>2, SetInduction
<1>7. kept[Len(hs)] = g[Len(hs)]
  BY <1>1, <1>6
<1>8. g[Len(hs)] = From(hs, m)
  BY <1>1 DEF g, From
<1>9. Recent(hs) = kept[Len(hs)]
  BY DEF Recent, kept
<1> QED
  BY <1>7, <1>8, <1>9

\* Hits in their order have a split.
LEMMA OrderedSplits ==
  ASSUME now \in Int, NEW hs \in Seq(Int), Ordered(hs)
  PROVE  \E m \in 0 .. Len(hs) : SplitAt(hs, m)
<1> DEFINE Splits(n, m) == /\ \A i \in 1 .. m : ~(now - hs[i] < Window)
                           /\ \A i \in m + 1 .. n : now - hs[i] < Window
           S == {n \in Nat : n <= Len(hs) => \E m \in 0 .. n : Splits(n, m)}
<1>0. Len(hs) \in Nat /\ DOMAIN hs = 1 .. Len(hs) /\ \A i \in 1 .. Len(hs) : hs[i] \in Int
  OBVIOUS
<1>1. 0 \in S
  OBVIOUS
<1>2. ASSUME NEW n \in Nat, n \in S PROVE n + 1 \in S
  <2>1. SUFFICES ASSUME n + 1 <= Len(hs) PROVE \E m \in 0 .. n + 1 : Splits(n + 1, m)
    OBVIOUS
  <2>2. PICK m \in 0 .. n : Splits(n, m)
    BY <1>0, <1>2, <2>1
  <2>3. CASE now - hs[n + 1] < Window
    <3>1. ASSUME NEW i \in m + 1 .. n + 1 PROVE now - hs[i] < Window
      <4>1. i = n + 1 \/ i \in m + 1 .. n
        OBVIOUS
      <4> QED
        BY <2>2, <2>3, <4>1
    <3>2. Splits(n + 1, m)
      BY <2>2, <3>1
    <3> HIDE DEF Splits
    <3> QED
      BY <3>2
  <2>4. CASE ~(now - hs[n + 1] < Window)
    <3>1. ASSUME NEW i \in 1 .. n + 1 PROVE ~(now - hs[i] < Window)
      <4>1. Window \in Nat
        BY QuoteAssumption
      <4>2. hs[i] \in Int /\ hs[n + 1] \in Int /\ hs[i] <= hs[n + 1]
        BY <1>0, <2>1 DEF Ordered
      <4> QED
        BY <2>4, <4>1, <4>2
    <3>2. Splits(n + 1, n + 1)
      BY <3>1
    <3> HIDE DEF Splits
    <3> QED
      BY <3>2
  <2> QED
    BY <2>3, <2>4
<1>3. Nat \subseteq S
  <2> HIDE DEF S
  <2> QED
    BY <1>1, <1>2, SetInduction
<1>4. PICK m \in 0 .. Len(hs) : Splits(Len(hs), m)
  <2>1. Len(hs) \in S
    <3> HIDE DEF S
    <3> QED
      BY <1>0, <1>3
  <2> HIDE DEF Splits
  <2> QED
    BY <1>0, <2>1
<1> QED
  BY <1>4 DEF SplitAt

\* What the limiter remembers of whom it let through: what it forgot is past,
\* and no more than the limit ever fell into a window.
LimiterOK ==
  /\ Ordered(served)
  /\ \A i \in DOMAIN served : served[i] <= now
  /\ \E k \in 0 .. Len(served) :
       hits = From(served, k) /\ \A j \in 1 .. k : now - served[j] >= Window
  /\ \A i \in DOMAIN served :
       i + Limit \in DOMAIN served => served[i + Limit] - served[i] >= Window

LEMMA LimiterConstants == /\ Window \in Nat /\ Limit \in Nat /\ Limit > 0
                          /\ MaxTime \in Nat /\ MaxLatency \in Nat
<1>1. {MinPremiumBps, Limit, Window, Width} \subseteq Nat \ {0}
  BY QuoteAssumption, Zenon
<1>2. {MaxLatency, MaxTime} \subseteq Nat
  BY QuoteAssumption, Zenon
<1> QED
  BY <1>1, <1>2

\* The rest of a list is a list.
LEMMA FromIsSeq ==
  ASSUME NEW S, NEW hs \in Seq(S), NEW k \in 0 .. Len(hs)
  PROVE  /\ From(hs, k) \in Seq(S) /\ Len(From(hs, k)) = Len(hs) - k
         /\ DOMAIN From(hs, k) = 1 .. Len(hs) - k
         /\ \A j \in 1 .. Len(hs) - k : From(hs, k)[j] = hs[k + j] /\ k + j \in DOMAIN hs
<1>0. /\ Len(hs) \in Nat /\ DOMAIN hs = 1 .. Len(hs)
      /\ \A j \in 1 .. Len(hs) : hs[j] \in S
  BY LenProperties
<1>1. PICK n \in Nat : n = Len(hs) - k
  <2>1. Len(hs) - k \in Nat
    BY <1>0
  <2> QED
    BY <2>1
<1>2. \A j \in 1 .. n : k + j \in DOMAIN hs /\ hs[k + j] \in S
  BY <1>0, <1>1
<1>3. From(hs, k) \in [1 .. n -> S] /\ \A j \in 1 .. n : From(hs, k)[j] = hs[k + j]
  BY <1>1, <1>2 DEF From
<1>4. From(hs, k) \in Seq(S)
  BY <1>3, SeqDef
<1>5. DOMAIN From(hs, k) = 1 .. n
  BY <1>3
<1>6. Len(From(hs, k)) = n
  BY <1>4, <1>5, LenProperties
<1> QED
  BY <1>1, <1>2, <1>3, <1>4, <1>5, <1>6

\* At its next check, the limiter has of the hits those after some K.
LEMMA RecentOfServed ==
  ASSUME now \in Nat, served \in Seq(Nat), LimiterOK, hits \in Seq(Nat)
  PROVE  \E K \in 0 .. Len(served) :
           /\ Recent(Swept(hits)) = From(served, K)
           /\ Len(From(served, K)) <= Len(hits)
           /\ \A j \in 1 .. K : now - served[j] >= Window
<1>0. Window \in Nat
  BY LimiterConstants
<1>a. PICK n \in Nat : n = Len(served)
  OBVIOUS
<1>b. \A j \in 1 .. n : served[j] \in Nat /\ j \in DOMAIN served
  BY <1>a
<1>c. \A i, j \in 1 .. n : i <= j => served[i] <= served[j]
  BY <1>b DEF LimiterOK, Ordered
<1>1. PICK k \in 0 .. n : hits = From(served, k) /\ \A j \in 1 .. k : now - served[j] >= Window
  BY <1>a DEF LimiterOK
<1>2. Len(hits) = n - k /\ \A j \in 1 .. n - k : hits[j] = served[k + j]
  BY <1>1, <1>a, FromIsSeq
<1>3. \E k1 \in k .. n : /\ Swept(hits) = From(served, k1)
                         /\ \A j \in 1 .. k1 : now - served[j] >= Window
  <2>1. CASE Swept(hits) = hits
    BY <1>1, <2>1
  <2>2. CASE hits # << >> /\ now - Last(hits) >= Window /\ Swept(hits) = << >>
    <3>1. From(served, n) = << >>
      BY <1>a DEF From
    <3>2. n - k > 0 /\ Last(hits) = served[n]
      <4>1. Len(hits) \in Nat /\ Len(hits) # 0
        BY <2>2
      <4>2. Last(hits) = hits[n - k]
        BY <1>2 DEF Last
      <4> QED
        BY <1>2, <4>1, <4>2
    <3>3. ASSUME NEW j \in 1 .. n PROVE now - served[j] >= Window
      <4>1. served[j] <= served[n] /\ served[j] \in Nat /\ served[n] \in Nat
        BY <1>b, <1>c, <3>2
      <4> QED
        BY SMTT(40), <1>0, <2>2, <3>2, <4>1
    <3> QED
      BY <2>2, <3>1, <3>3
  <2> QED
    BY <2>1, <2>2 DEF Swept
<1>4. PICK k1 \in k .. n : /\ Swept(hits) = From(served, k1)
                          /\ \A j \in 1 .. k1 : now - served[j] >= Window
  BY <1>3
<1>5. PICK hs : hs = From(served, k1)
  OBVIOUS
<1>6. /\ hs \in Seq(Nat) /\ Len(hs) = n - k1 /\ DOMAIN hs = 1 .. n - k1
      /\ \A j \in 1 .. n - k1 : hs[j] = served[k1 + j]
  <2>1. k1 \in 0 .. Len(served)
    BY <1>a, <1>4
  <2> QED
    BY <1>a, <1>5, <2>1, FromIsSeq
<1>7. hs \in Seq(Int)
  BY <1>6
<1>8. Ordered(hs)
  <2>1. ASSUME NEW i \in 1 .. n - k1, NEW j \in 1 .. n - k1, i <= j PROVE hs[i] <= hs[j]
    <3>1. k1 + i \in 1 .. n /\ k1 + j \in 1 .. n /\ k1 + i <= k1 + j
      BY <1>4, <2>1
    <3>2. served[k1 + i] <= served[k1 + j]
      BY <1>c, <3>1
    <3> QED
      BY <1>6, <3>2
  <2> QED
    BY <1>6, <2>1 DEF Ordered
<1>9. PICK m \in 0 .. Len(hs) : SplitAt(hs, m)
  BY <1>7, <1>8, OrderedSplits
<1>10. Recent(hs) = From(hs, m)
  BY <1>7, <1>9, RecentIsSuffix
<1>11. k1 + m \in 0 .. n /\ m \in Nat /\ k1 \in Nat /\ n - (k1 + m) = (n - k1) - m
  BY <1>4, <1>6, <1>9
<1>12. From(hs, m) = From(served, k1 + m)
  <2>1. From(served, k1 + m) = [j \in 1 .. (n - k1) - m |-> served[(k1 + m) + j]]
    BY <1>a, <1>11 DEF From
  <2>2. From(hs, m) = [j \in 1 .. (n - k1) - m |-> hs[m + j]]
    BY <1>6 DEF From
  <2>3. ASSUME NEW j \in 1 .. (n - k1) - m PROVE hs[m + j] = served[(k1 + m) + j]
    <3>1. m + j \in 1 .. n - k1 /\ k1 + (m + j) = (k1 + m) + j
      BY <1>11
    <3> QED
      BY <1>6, <3>1
  <2> QED
    BY <2>1, <2>2, <2>3
<1>13. ASSUME NEW j \in 1 .. k1 + m PROVE now - served[j] >= Window
  <2>1. CASE j <= k1
    BY <1>4, <1>11, <2>1
  <2>2. CASE j > k1
    <3>1. PICK i \in 1 .. m : j = k1 + i
      <4>1. j - k1 \in 1 .. m /\ j = k1 + (j - k1)
        BY <1>11, <2>2
      <4> QED
        BY <4>1
    <3>2. ~(now - hs[i] < Window)
      BY <1>9, <3>1 DEF SplitAt
    <3>3. i \in 1 .. n - k1 /\ j \in 1 .. n
      BY <1>6, <1>9, <1>11, <3>1
    <3>4. hs[i] = served[j] /\ served[j] \in Nat
      BY <1>6, <1>b, <3>1, <3>3
    <3> QED
      BY <1>0, <3>2, <3>4
  <2> QED
    BY <1>11, <2>1, <2>2
<1>14. Len(From(served, k1 + m)) <= Len(hits)
  <2>1. Len(From(served, k1 + m)) = n - (k1 + m)
    BY <1>a, <1>11, FromIsSeq
  <2> QED
    BY <1>2, <1>4, <1>11, <2>1
<1> QED
  BY <1>4, <1>5, <1>10, <1>11, <1>12, <1>13, <1>14, <1>a

\* A visitor who is let through has no more than Limit - 1 hits in the window
\* that ends now.
LEMMA LimiterArrive ==
  ASSUME now \in 0 .. MaxTime, served \in Seq(0 .. MaxTime), hits \in Seq(0 .. MaxTime),
         Len(hits) <= Limit, LimiterOK, NEW legs, NEW stake, Arrive(legs, stake)
  PROVE  /\ served' \in Seq(0 .. MaxTime) /\ hits' \in Seq(0 .. MaxTime)
         /\ Len(hits') <= Limit /\ LimiterOK'
<1>0. Window \in Nat /\ Limit \in Nat /\ Limit > 0 /\ MaxTime \in Nat
  BY LimiterConstants
<1>1. now \in Nat /\ now' = now
  BY <1>0 DEF Arrive
<1>2. served \in Seq(Nat) /\ hits \in Seq(Nat) /\ Len(hits) \in Nat
  <2>1. 0 .. MaxTime \subseteq Nat
    BY <1>0
  <2> QED
    BY <2>1, SeqMonotonic, LenProperties
<1>3. PICK n \in Nat : n = Len(served)
  OBVIOUS
<1>b. DOMAIN served = 1 .. n /\ \A j \in 1 .. n : served[j] \in Nat /\ served[j] <= now
  <2>1. DOMAIN served = 1 .. n /\ \A j \in 1 .. n : served[j] \in Nat
    BY <1>2, <1>3, LenProperties
  <2> QED
    BY <2>1 DEF LimiterOK
<1>4. PICK K \in 0 .. n : /\ Recent(Swept(hits)) = From(served, K)
                         /\ Len(From(served, K)) <= Len(hits)
                         /\ \A j \in 1 .. K : now - served[j] >= Window
  BY <1>1, <1>2, <1>3, RecentOfServed
<1>5. PICK recent : recent = From(served, K)
  OBVIOUS
<1>6. /\ recent \in Seq(0 .. MaxTime) /\ Len(recent) = n - K
      /\ recent = [j \in 1 .. n - K |-> served[K + j]]
      /\ \A j \in 1 .. n - K : recent[j] = served[K + j]
  <2>1. recent = [j \in 1 .. n - K |-> served[K + j]]
    BY <1>3, <1>5 DEF From
  <2>2. K \in 0 .. Len(served)
    BY <1>3
  <2>3. /\ recent \in Seq(0 .. MaxTime) /\ Len(recent) = Len(served) - K
        /\ \A j \in 1 .. Len(served) - K : recent[j] = served[K + j]
    BY <1>5, <2>2, FromIsSeq
  <2> QED
    BY <1>3, <2>1, <2>3
<1>7. CASE Full(recent)
  <2>1. hits' = recent /\ served' = served
    BY <1>4, <1>5, <1>7 DEF Arrive
  <2>2. \E k \in 0 .. Len(served) : recent = From(served, k) /\ \A j \in 1 .. k : now - served[j] >= Window
    BY <1>3, <1>4, <1>5
  <2>3. LimiterOK'
    BY <1>1, <2>1, <2>2 DEF LimiterOK, Ordered, From
  <2> QED
    BY <1>0, <1>2, <1>4, <1>5, <1>6, <2>1, <2>3
<1>8. CASE ~Full(recent)
  <2>1. hits' = Append(recent, now) /\ served' = Append(served, now)
    BY <1>4, <1>5, <1>8 DEF Arrive
  <2>2. n - K < Limit
    BY <1>0, <1>6, <1>8 DEF Full
  <2>3. /\ served' \in Seq(0 .. MaxTime) /\ hits' \in Seq(0 .. MaxTime)
        /\ Len(served') = n + 1 /\ Len(hits') = (n - K) + 1
    BY <1>3, <1>6, <2>1
  <2>4. /\ DOMAIN served' = 1 .. n + 1 /\ served'[n + 1] = now
        /\ \A j \in 1 .. n : served'[j] = served[j]
    BY <1>3, <2>1
  <2>5. Ordered(served')
    <3>1. ASSUME NEW i \in 1 .. n + 1, NEW j \in 1 .. n + 1, i <= j PROVE served'[i] <= served'[j]
      <4>1. CASE j = n + 1 /\ i = n + 1
        BY <1>1, <2>4, <4>1
      <4>2. CASE j = n + 1 /\ i \in 1 .. n
        BY <1>b, <2>4, <4>2
      <4>3. CASE j \in 1 .. n /\ i \in 1 .. n
        BY <1>b, <2>4, <3>1, <4>3 DEF LimiterOK, Ordered
      <4> QED
        BY <3>1, <4>1, <4>2, <4>3
    <3> QED
      BY <2>4, <3>1 DEF Ordered
  <2>6. \A i \in DOMAIN served' : served'[i] <= now
    <3>1. ASSUME NEW i \in 1 .. n + 1 PROVE served'[i] <= now
      <4>1. i = n + 1 \/ i \in 1 .. n
        OBVIOUS
      <4> QED
        BY <1>1, <1>b, <2>4, <4>1
    <3> QED
      BY <2>4, <3>1
  <2>7. hits' = From(served', K)
    <3>1. DOMAIN hits' = 1 .. (n - K) + 1 /\ hits' = [j \in 1 .. (n - K) + 1 |-> hits'[j]]
      BY <2>3
    <3>2. From(served', K) = [j \in 1 .. (n - K) + 1 |-> served'[K + j]]
      <4>1. (n + 1) - K = (n - K) + 1
        OBVIOUS
      <4> QED
        BY <2>3, <4>1 DEF From
    <3>3. ASSUME NEW j \in 1 .. (n - K) + 1 PROVE hits'[j] = served'[K + j]
      <4>1. CASE j = (n - K) + 1
        <5>1. K + j = n + 1
          BY <4>1
        <5>2. hits'[j] = now
          BY <1>6, <2>1, <4>1
        <5> QED
          BY <2>4, <5>1, <5>2
      <4>2. CASE j \in 1 .. n - K
        <5>1. K + j \in 1 .. n
          BY <4>2
        <5>2. hits'[j] = recent[j]
          BY <1>6, <2>1, <4>2
        <5> QED
          BY <1>6, <2>4, <4>2, <5>1, <5>2
      <4> QED
        BY <4>1, <4>2
    <3> QED
      BY <3>1, <3>2, <3>3
  <2>8. \A j \in 1 .. K : now - served'[j] >= Window
    <3>1. \A j \in 1 .. K : j \in 1 .. n
      OBVIOUS
    <3> QED
      BY <1>4, <2>4, <3>1
  <2>9. ASSUME NEW i \in 1 .. n + 1, i + Limit \in 1 .. n + 1
        PROVE  served'[i + Limit] - served'[i] >= Window
    <3>1. i \in 1 .. n
      BY <1>0, <2>9
    <3>2. CASE i + Limit = n + 1
      <4>1. i \in 1 .. K
        BY <1>0, <2>2, <3>2
      <4> QED
        BY <2>4, <2>8, <3>2, <4>1
    <3>3. CASE i + Limit \in 1 .. n
      <4>1. served[i + Limit] - served[i] >= Window
        BY <1>b, <3>1, <3>3 DEF LimiterOK
      <4> QED
        BY <2>4, <3>1, <3>3, <4>1
    <3> QED
      BY <2>9, <3>2, <3>3, <1>0
  <2>10. \E k \in 0 .. Len(served') : hits' = From(served', k) /\ \A j \in 1 .. k : now - served'[j] >= Window
    BY <2>3, <2>7, <2>8
  <2>11. LimiterOK'
    BY <1>1, <2>4, <2>5, <2>6, <2>9, <2>10 DEF LimiterOK, Ordered, From
  <2> QED
    BY <1>0, <2>2, <2>3, <2>11
<1> QED
  BY <1>7, <1>8

\* Time passes: what is past stays past.
LEMMA LimiterTick ==
  ASSUME now \in 0 .. MaxTime, served \in Seq(0 .. MaxTime), LimiterOK,
         now' = now \/ now' = now + 1, UNCHANGED <<served, hits>>
  PROVE  LimiterOK'
<1>0. Window \in Nat /\ MaxTime \in Nat
  BY LimiterConstants
<1>1. \A i \in DOMAIN served : served[i] \in Nat
  BY <1>0
<1>2. now \in Nat /\ now' \in Nat /\ now <= now'
  BY <1>0
<1>3. \A i \in DOMAIN served : served[i] <= now'
  BY <1>1, <1>2 DEF LimiterOK
<1>4. PICK k \in 0 .. Len(served) : hits = From(served, k) /\ \A j \in 1 .. k : now - served[j] >= Window
  BY DEF LimiterOK
<1>5. ASSUME NEW j \in 1 .. k PROVE now' - served[j] >= Window
  <2>1. served[j] \in Nat /\ now - served[j] >= Window
    BY <1>1, <1>4
  <2> QED
    BY <1>0, <1>2, <2>1
<1> QED
  BY <1>3, <1>4, <1>5 DEF LimiterOK, Ordered, From

\* The types, the limiter's memory, and what was checked of the request.
RateInv == TypeOK /\ LimiterOK /\ PathInv

\* Nobody was served yet.
LEMMA RateInit == ASSUME Init PROVE RateInv
<1>1. PathInv
  BY InitOK
<1>2. Limit \in Nat /\ MaxTime \in Nat
  BY LimiterConstants
<1>3. /\ now = 0 /\ hits = << >> /\ served = << >> /\ request = Answered
      /\ lastFresh = [m \in Markets |-> Never]
  BY DEF Init
<1>4. << >> \in Seq(0 .. MaxTime) /\ Len(<< >>) = 0
  BY EmptySeq
<1>5. lastFresh \in [Markets -> Never .. MaxTime]
  BY <1>2, <1>3 DEF Never
<1>6. TypeOK
  BY <1>2, <1>3, <1>4, <1>5 DEF TypeOK, Answered, UnderWay, Quoted
<1>7. LimiterOK
  <2>1. From(served, 0) = hits
    BY <1>3 DEF From
  <2>2. DOMAIN served = {} /\ Len(served) = 0
    BY <1>3
  <2> QED
    BY <2>1, <2>2 DEF LimiterOK, Ordered
<1> QED
  BY <1>1, <1>6, <1>7 DEF RateInv

\* The request is always one of the kinds that TypeOK names.
LEMMA RequestTyped ==
  ASSUME RateInv, [Next]_vars
  PROVE  /\ (UnderWay => request.legs \in Legs /\ request.stake \in Stakes)'
         /\ (Quoted => request.payout \in 0 .. Width - 1)'
<1>1. /\ UnderWay => request.legs \in Legs /\ request.stake \in Stakes
      /\ Quoted => request.payout \in 0 .. Width - 1
  BY DEF RateInv, TypeOK
<1>2. CASE request' = Answered
  BY <1>2 DEF Answered, UnderWay, Quoted
<1>3. CASE request' = request
  BY <1>1, <1>3 DEF UnderWay, Quoted
<1>4. ASSUME NEW legs \in Legs, NEW stake \in Stakes,
             request' = [at |-> "auth", since |-> now, legs |-> legs, stake |-> stake]
      PROVE  /\ (UnderWay => request.legs \in Legs /\ request.stake \in Stakes)'
             /\ (Quoted => request.payout \in 0 .. Width - 1)'
  BY <1>4 DEF UnderWay, Quoted
<1>5. CASE request.at = "auth" /\ request' = [request EXCEPT !.at = "pricing"]
  <2>1. request \in Asked
    BY <1>5 DEF RateInv, PathInv
  <2>2. request'.at = "pricing" /\ request'.legs = request.legs /\ request'.stake = request.stake
    BY <1>5, <2>1 DEF Asked
  <2> QED
    BY <1>1, <1>5, <2>2 DEF UnderWay, Quoted
<1>6. ASSUME NEW seen, request.at = "pricing", request' = Priced(seen)
      PROVE  /\ (UnderWay => request.legs \in Legs /\ request.stake \in Stakes)'
             /\ (Quoted => request.payout \in 0 .. Width - 1)'
  BY <1>1, <1>6 DEF Priced, UnderWay, Quoted
<1>7. CASE Sign
  <2>1. request'.at = "quoted" /\ request'.payout = Payout(request.prices, request.stake)
    BY <1>7 DEF Sign, Quote
  <2>2. Offered(request.prices, request.stake) /\ request.at = "room"
    BY <1>7 DEF Sign
  <2>3. request.stake \in Nat /\ request.stake > 0 /\ Len(request.prices) \in Nat
    BY <2>2 DEF RateInv, PathInv
  <2>4. Payout(request.prices, request.stake) \in Nat
    BY <2>2, <2>3, OfferIsSound
  <2>5. Payout(request.prices, request.stake) < Width
    BY <2>2 DEF Offered
  <2>6. Width \in Nat
    <3>1. {MinPremiumBps, Limit, Window, Width} \subseteq Nat \ {0}
      BY QuoteAssumption, Zenon
    <3> QED
      BY <3>1
  <2> QED
    BY <2>1, <2>4, <2>5, <2>6 DEF UnderWay, Quoted
<1>8. CASE Refuse
  <2>1. request'.at = "refused"
    BY <1>8 DEF Refuse
  <2> QED
    BY <2>1 DEF UnderWay, Quoted
<1>9. ASSUME NEW legs \in Legs, NEW stake \in Stakes, Arrive(legs, stake)
      PROVE  \/ request' = Answered
             \/ request' = [at |-> "auth", since |-> now, legs |-> legs, stake |-> stake]
  BY <1>9 DEF Arrive
<1>10. ASSUME Validate
       PROVE  \/ request' = Answered
              \/ request.at = "auth" /\ request' = [request EXCEPT !.at = "pricing"]
  BY <1>10 DEF Validate
<1>11. ASSUME FetchPrices
       PROVE  request' = Answered \/ (request.at = "pricing" /\ \E seen : request' = Priced(seen))
  <2>1. request.at = "pricing"
    BY <1>11 DEF FetchPrices
  <2>2. PICK priced, seen :
          request' = IF priced # DOMAIN request.legs THEN Answered ELSE Priced(seen)
    BY <1>11, Zenon DEF FetchPrices
  <2> QED
    BY <2>1, <2>2
<1>12. Drop \/ Tick \/ UNCHANGED vars => request' = Answered \/ request' = request
  BY DEF Drop, Tick, vars
<1> QED
  BY <1>2, <1>3, <1>4, <1>5, <1>6, <1>7, <1>8, <1>9, <1>10, <1>11, <1>12 DEF Next

\* The times of the last real asks are in the past.
LEMMA FreshTyped ==
  ASSUME now \in 0 .. MaxTime, lastFresh \in [Markets -> Never .. MaxTime], [Next]_vars
  PROVE  lastFresh' \in [Markets -> Never .. MaxTime]
<1>1. now \in Never .. MaxTime
  BY LimiterConstants DEF Never
<1>2. CASE FetchPrices
  <2>1. PICK priced, seen : lastFresh' = Refreshed(priced, seen)
    BY <1>2, Zenon DEF FetchPrices
  <2>2. PICK fresh : fresh = {m \in Markets : \E i \in priced : request.legs[i] = m
                                                   /\ seen[i].source = "l2Book"}
    OBVIOUS
  <2>3. lastFresh' = [m \in Markets |-> IF m \in fresh THEN now ELSE lastFresh[m]]
    BY <2>1, <2>2 DEF Refreshed
  <2> QED
    BY <1>1, <2>3
<1>3. ~FetchPrices => lastFresh' = lastFresh
  BY DEF Next, Arrive, Validate, Sign, Refuse, Drop, Tick, vars
<1> QED
  BY <1>2, <1>3

\* Every step keeps the types and the limiter's memory.
LEMMA RateStep == ASSUME RateInv, [Next]_vars PROVE RateInv'
<1>1. PathInv'
  BY StepOK DEF RateInv
<1>2. /\ now \in 0 .. MaxTime /\ hits \in Seq(0 .. MaxTime) /\ served \in Seq(0 .. MaxTime)
      /\ Len(hits) <= Limit /\ lastFresh \in [Markets -> Never .. MaxTime] /\ LimiterOK
  BY DEF RateInv, TypeOK
<1>3. lastFresh' \in [Markets -> Never .. MaxTime]
  BY <1>2, FreshTyped
<1>4. now' \in 0 .. MaxTime /\ (now' = now \/ now' = now + 1)
  <2>1. CASE Tick
    BY <1>2, <2>1, LimiterConstants DEF Tick
  <2>2. ~Tick => now' = now
    BY DEF Next, Arrive, Validate, FetchPrices, Sign, Refuse, Drop, vars
  <2> QED
    BY <1>2, <2>1, <2>2
<1>5. /\ served' \in Seq(0 .. MaxTime) /\ hits' \in Seq(0 .. MaxTime)
      /\ Len(hits') <= Limit /\ LimiterOK'
  <2>1. ASSUME NEW legs \in Legs, NEW stake \in Stakes, Arrive(legs, stake)
        PROVE  /\ served' \in Seq(0 .. MaxTime) /\ hits' \in Seq(0 .. MaxTime)
               /\ Len(hits') <= Limit /\ LimiterOK'
    BY <1>2, <2>1, LimiterArrive
  <2>2. ASSUME UNCHANGED <<served, hits>>
        PROVE  /\ served' \in Seq(0 .. MaxTime) /\ hits' \in Seq(0 .. MaxTime)
               /\ Len(hits') <= Limit /\ LimiterOK'
    BY <1>2, <1>4, <2>2, LimiterTick
  <2>3. (\E legs \in Legs, stake \in Stakes : Arrive(legs, stake)) \/ UNCHANGED <<served, hits>>
    BY DEF Next, Validate, FetchPrices, Sign, Refuse, Drop, Tick, vars
  <2> QED
    BY <2>1, <2>2, <2>3
<1>6. /\ (UnderWay => request.legs \in Legs /\ request.stake \in Stakes)'
      /\ (Quoted => request.payout \in 0 .. Width - 1)'
  BY RequestTyped
<1>7. request'.at \in {"answered", "auth", "pricing", "room", "refused", "quoted"}
  BY <1>1 DEF PathInv
<1>8. TypeOK'
  BY <1>3, <1>4, <1>5, <1>6, <1>7 DEF TypeOK
<1> QED
  BY <1>1, <1>5, <1>8 DEF RateInv

\* Two hits that are Limit apart in the list are a window apart in time, so that
\* a window has no more than Limit of them.
LEMMA WindowsHold ==
  ASSUME served \in Seq(Nat), LimiterOK, NEW i \in DOMAIN served
  PROVE  Cardinality({j \in DOMAIN served : served[j] >= served[i]
                                              /\ served[j] - served[i] < Window}) <= Limit
<1>0. Window \in Nat /\ Limit \in Nat /\ Limit > 0
  BY LimiterConstants
<1>1. PICK n \in Nat : DOMAIN served = 1 .. n /\ \A j \in 1 .. n : served[j] \in Nat
  BY LenProperties
<1> DEFINE S == {j \in DOMAIN served : served[j] >= served[i] /\ served[j] - served[i] < Window}
<1>2. CASE S = {}
  <2>1. Cardinality(S) = 0
    BY <1>2, FS_EmptySet
  <2> HIDE DEF S
  <2>2. Cardinality(S) <= Limit
    BY <1>0, <2>1
  <2> QED
    BY <2>2 DEF S
<1>3. CASE S # {}
  <2>1. PICK a \in S : \A j \in S : a <= j
    <3>1. S \subseteq Nat
      BY <1>1
    <3>2. PICK R : R = OpToRel(<, Nat) /\ IsWellFoundedOn(R, Nat)
      BY NatLessThanWellFounded
    <3> HIDE DEF S
    <3>3. PICK x \in S : \A y \in S : ~(<<y, x>> \in R)
      BY <1>3, <3>1, <3>2, WFMin
    <3>4. \A y \in S : ~(y < x)
      BY <3>1, <3>2, <3>3 DEF OpToRel
    <3> QED
      BY <3>1, <3>3, <3>4
  <2>2. a \in 1 .. n /\ i \in 1 .. n
    BY <1>1
  <2>3. ASSUME NEW j \in S PROVE j \in a .. a + Limit - 1
    <3>1. j \in 1 .. n /\ a <= j
      BY <1>1, <2>1
    <3>2. SUFFICES ASSUME a + Limit <= j PROVE FALSE
      BY <1>0, <2>2, <3>1
    <3>3. a + Limit \in 1 .. n
      BY <1>0, <2>2, <3>1, <3>2
    <3>4. served[a + Limit] - served[a] >= Window /\ served[a + Limit] <= served[j]
      BY <1>1, <2>2, <3>1, <3>2, <3>3 DEF LimiterOK, Ordered
    <3>5. served[j] - served[i] < Window /\ served[a] >= served[i]
      OBVIOUS
    <3>6. PICK x \in Nat, y \in Nat, z \in Nat, w \in Nat :
            x = served[j] /\ y = served[i] /\ z = served[a] /\ w = served[a + Limit]
      BY <1>1, <2>2, <3>1, <3>3
    <3>7. w - z >= Window /\ w <= x /\ x - y < Window /\ z >= y
      BY <3>4, <3>5, <3>6
    <3> QED
      BY <1>0, <3>7
  <2>4. IsFiniteSet(a .. a + Limit - 1) /\ Cardinality(a .. a + Limit - 1) = Limit
    <3>1. a \in Int /\ a + Limit - 1 \in Int /\ ~(a > a + Limit - 1)
          /\ (a + Limit - 1) - a + 1 = Limit
      BY <1>0, <2>2
    <3> QED
      BY <3>1, FS_Interval
  <2> HIDE DEF S
  <2>5. S \in SUBSET (a .. a + Limit - 1)
    BY <2>3
  <2>6. Cardinality(S) <= Limit
    BY ZenonT(40), <2>4, <2>5, FS_Subset
  <2> QED
    BY <2>6 DEF S
<1> QED
  BY <1>2, <1>3

\* In any window of time, wherever it begins, a visitor is let through at most
\* Limit times, although the limiter forgets hits, and visitors.
THEOREM RateIsHeld == Spec => []RateHeld
<1>1. RateInv => RateHeld
  <2>1. SUFFICES ASSUME RateInv PROVE RateHeld
    OBVIOUS
  <2>2. TypeOK /\ LimiterOK
    BY <2>1 DEF RateInv
  <2>3. served \in Seq(Nat)
    <3>1. 0 .. MaxTime \subseteq Nat /\ served \in Seq(0 .. MaxTime)
      BY <2>2, LimiterConstants DEF TypeOK
    <3> QED
      BY <3>1, SeqMonotonic
  <2> QED
    BY <2>2, <2>3, WindowsHold DEF RateHeld
<1> QED
  BY <1>1, RateInit, RateStep, PTL DEF Spec

\* The types hold.
THEOREM TypeCorrect == Spec => []TypeOK
<1>1. RateInv => TypeOK
  BY DEF RateInv
<1> QED
  BY <1>1, RateInit, RateStep, PTL DEF Spec
-----------------------------------------------------------------------------
(***************************************************************************)
(* The waitlist, which shares no state with the path of a quote.           *)
(*                                                                         *)
(* The file is never behind the memory, so that what a save promised       *)
(* outlives one that throws; an export, even one that comes late, says     *)
(* "mailed" only of those who were mailed on file.                         *)
(***************************************************************************)

\* A later list forgets no entry, approval, mail or account.
Grows(old, new) ==
  /\ DOMAIN old \subseteq DOMAIN new
  /\ \A e \in DOMAIN old : /\ IsAdmitted(old, e) => IsAdmitted(new, e)
                           /\ old[e].mailed => new[e].mailed
                           /\ old[e].user # None => new[e].user = old[e].user

\* Who was mailed, and is so on file.
Told == {e \in mailed : e \in DOMAIN file /\ file[e].mailed}

\* The memory is the file, or behind it after a save that threw; the file can be
\* loaded, keeps the promises, and marks only what was mailed and exported.
StoreInv ==
  /\ IsList(entries) /\ IsList(file) /\ failed \in BOOLEAN
  /\ ~failed => entries = file
  /\ Grows(entries, file)
  /\ Loads(file)
  /\ PromisesKept
  /\ \A e \in DOMAIN file : file[e].mailed => e \in mailed
  /\ SyncedIsExported

\* Those who are being mailed are approved.
AdmissionInv ==
  /\ admission \in [members : SUBSET Emails, todo : SUBSET Emails]
  /\ admission.todo \subseteq admission.members /\ admission.members \subseteq DOMAIN entries
  /\ \A e \in admission.members : IsAdmitted(entries, e)

TrueExport(post, told) == post \in Exports /\ \A e \in DOMAIN post : post[e] => e \in told

\* An export says "mailed" of those who were; one whose answer is on the way is
\* in the sheet.
ExportInv ==
  /\ TrueExport(running, Told) /\ \A post \in strays : TrueExport(post, Told)
  /\ taken \in BOOLEAN /\ (taken => running # NoExport /\ DOMAIN running \subseteq exported)

SheetInv ==
  /\ sheet \in [Emails -> [copies : Nat, cohort : Cohorts \union {None}, sent : BOOLEAN]]
  /\ \A e \in Emails : sheet[e].copies <= 1 /\ (sheet[e].sent => e \in Told)

ScriptInv ==
  /\ locked \in BOOLEAN /\ waiting \in BOOLEAN
  /\ queue \in UNION {[S -> Cohorts] : S \in SUBSET Emails}

HistoryInv ==
  /\ acked \subseteq Emails /\ mailed \subseteq Emails /\ exported \subseteq Emails
  /\ granted \subseteq Users \X Emails
  /\ repeats \in 0 .. MaxRepeats /\ mishaps \in 0 .. MaxMishaps

WaitlistInv ==
  WaitlistAssumption /\ StoreInv /\ AdmissionInv /\ ExportInv /\ SheetInv /\ ScriptInv /\ HistoryInv

-----------------------------------------------------------------------------
(* Lists *)

\* What a save may write.
GoodRows(rows) ==
  /\ IsList(rows) /\ Loads(rows) /\ Grows(entries, rows)
  /\ \A e \in DOMAIN rows : rows[e].mailed => e \in mailed
  /\ \A e \in DOMAIN rows : rows[e].synced => e \in exported

\* Growing is reflexive and transitive.
LEMMA GrowsItself == ASSUME NEW rows PROVE Grows(rows, rows)
BY DEF Grows

LEMMA GrowsOn ==
  ASSUME NEW a, NEW b, NEW c, Grows(a, b), Grows(b, c) PROVE Grows(a, c)
BY DEF Grows

\* The fields of an entry.
LEMMA EntryFields ==
  ASSUME NEW rows, IsList(rows), NEW e \in DOMAIN rows
  PROVE  /\ e \in Emails /\ rows[e] \in Entry
         /\ rows[e].ts \in Int /\ rows[e].cohort \in Cohorts \union {None}
         /\ rows[e].mailed \in BOOLEAN /\ rows[e].user \in Users \union {None}
         /\ rows[e].synced \in BOOLEAN
BY DEF IsList, Entry

\* A list with one entry changed.
LEMMA OneChanged ==
  ASSUME NEW rows, IsList(rows), NEW e \in DOMAIN rows, NEW row \in Entry,
         NEW new, new = [rows EXCEPT ![e] = row]
  PROVE  /\ IsList(new) /\ DOMAIN new = DOMAIN rows /\ new[e] = row
         /\ \A f \in DOMAIN rows \ {e} : new[f] = rows[f]
<1>1. rows \in [DOMAIN rows -> Entry]
  BY DEF IsList
<1>2. new \in [DOMAIN rows -> Entry] /\ DOMAIN new = DOMAIN rows
  BY <1>1
<1>3. IsList(new)
  BY <1>2 DEF IsList
<1> QED
  BY <1>1, <1>2, <1>3

\* A signup: the entry is put up for export anew, or added.
LEMMA SignedUpIsGood ==
  ASSUME StoreInv, WaitlistAssumption, ~failed, NEW e \in Emails
  PROVE  GoodRows(SignedUp(e)) /\ e \in DOMAIN SignedUp(e)
<1>1. /\ entries = file /\ IsList(entries) /\ Loads(entries)
      /\ \A f \in DOMAIN entries : entries[f].mailed => f \in mailed
      /\ \A f \in DOMAIN entries : entries[f].synced => f \in exported
  BY DEF StoreInv, SyncedIsExported
<1>2. CASE e \in DOMAIN entries
  <2>1. PICK row : row = [entries[e] EXCEPT !.synced = FALSE]
    OBVIOUS
  <2>2. entries[e] \in Entry
    BY <1>1, <1>2, EntryFields
  <2>3. /\ row \in Entry /\ row.mailed = entries[e].mailed /\ row.user = entries[e].user
        /\ row.cohort = entries[e].cohort /\ row.synced = FALSE
    BY <2>1, <2>2 DEF Entry
  <2>4. PICK new : new = SignedUp(e)
    OBVIOUS
  <2>5. new = [entries EXCEPT ![e] = row]
    BY <1>2, <2>1, <2>4 DEF SignedUp
  <2>6. /\ IsList(new) /\ DOMAIN new = DOMAIN entries /\ new[e] = row
        /\ \A f \in DOMAIN entries \ {e} : new[f] = entries[f]
    BY <1>1, <1>2, <2>3, <2>5, OneChanged
  <2>7. \A f \in DOMAIN entries :
          /\ new[f].mailed = entries[f].mailed /\ new[f].user = entries[f].user
          /\ new[f].cohort = entries[f].cohort /\ (new[f].synced => entries[f].synced)
    BY <2>3, <2>6
  <2>8. Loads(new)
    BY <1>1, <2>6, <2>7 DEF Loads, IsAdmitted
  <2>9. Grows(entries, new)
    BY <2>6, <2>7 DEF Grows, IsAdmitted
  <2> QED
    BY <1>1, <1>2, <2>4, <2>6, <2>7, <2>8, <2>9 DEF GoodRows
<1>3. CASE e \notin DOMAIN entries
  <2>1. PICK n : n = Cardinality(DOMAIN entries)
    OBVIOUS
  <2>2. n \in 0 .. Cardinality(Emails) - 1
    <3>1. IsFiniteSet(Emails) /\ DOMAIN entries \subseteq Emails
      BY <1>1 DEF WaitlistAssumption, IsList
    <3>2. IsFiniteSet(DOMAIN entries \union {e}) /\ DOMAIN entries \union {e} \subseteq Emails
      BY <3>1, FS_Subset
    <3>3. IsFiniteSet(DOMAIN entries)
      BY <3>1, FS_Subset
    <3>4. Cardinality(DOMAIN entries \union {e}) = n + 1
      BY <1>3, <2>1, <3>3, FS_AddElement
    <3>5. Cardinality(DOMAIN entries \union {e}) <= Cardinality(Emails)
      BY <3>1, <3>2, FS_Subset
    <3>6. n \in Nat /\ Cardinality(Emails) \in Nat
      BY <2>1, <3>1, <3>3, FS_CardinalityType
    <3>7. n + 1 <= Cardinality(Emails)
      BY <3>4, <3>5
    <3> QED
      BY <3>6, <3>7
  <2>3. PICK row : row = NewEntry(n)
    OBVIOUS
  <2>4. /\ row \in Entry /\ row.mailed = FALSE /\ row.user = None /\ row.synced = FALSE
    BY <2>2, <2>3 DEF NewEntry, Entry
  <2>5. PICK new : new = SignedUp(e)
    OBVIOUS
  <2>6. new = [f \in DOMAIN entries \union {e} |-> IF f = e THEN row ELSE entries[f]]
    BY <1>3, <2>1, <2>3, <2>5 DEF SignedUp, Added
  <2>7. /\ DOMAIN new = DOMAIN entries \union {e} /\ new[e] = row
        /\ \A f \in DOMAIN entries : new[f] = entries[f]
    BY <1>3, <2>6
  <2>8. IsList(new)
    <3>1. entries \in [DOMAIN entries -> Entry] /\ DOMAIN entries \subseteq Emails
      BY <1>1 DEF IsList
    <3>2. new \in [DOMAIN entries \union {e} -> Entry]
      BY <2>4, <2>6, <3>1
    <3> QED
      BY <2>7, <3>1, <3>2 DEF IsList
  <2>9. Loads(new)
    BY <1>1, <2>4, <2>7 DEF Loads, IsAdmitted
  <2>10. Grows(entries, new)
    BY <2>7 DEF Grows, IsAdmitted
  <2> QED
    BY <1>1, <2>4, <2>5, <2>7, <2>8, <2>9, <2>10 DEF GoodRows
<1> QED
  BY <1>2, <1>3

\* An account that has no approval takes one that nobody has.
LEMMA ClaimedIsGood ==
  ASSUME StoreInv, WaitlistAssumption, ~failed, NEW u \in Users, Bound(u) = {},
         NEW mails, NEW e \in Redeemable(mails)
  PROVE  GoodRows(Claimed(u, e)) /\ e \in DOMAIN Claimed(u, e) /\ Claimed(u, e)[e].user = u
<1>1. /\ entries = file /\ IsList(entries) /\ Loads(entries)
      /\ \A f \in DOMAIN entries : entries[f].mailed => f \in mailed
      /\ \A f \in DOMAIN entries : entries[f].synced => f \in exported
  BY DEF StoreInv, SyncedIsExported
<1>2. e \in DOMAIN entries /\ IsAdmitted(entries, e) /\ entries[e].user = None
  BY DEF Redeemable
<1>3. \A f \in DOMAIN entries : entries[f].user # u
  BY DEF Bound
<1>4. PICK row : row = [entries[e] EXCEPT !.user = u]
  OBVIOUS
<1>5. entries[e] \in Entry
  BY <1>1, <1>2, EntryFields
<1>6. /\ row \in Entry /\ row.mailed = entries[e].mailed /\ row.user = u
      /\ row.cohort = entries[e].cohort /\ row.synced = entries[e].synced
  BY <1>4, <1>5 DEF Entry
<1>7. PICK new : new = Claimed(u, e)
  OBVIOUS
<1>8. new = [entries EXCEPT ![e] = row]
  BY <1>4, <1>7 DEF Claimed
<1>9. /\ IsList(new) /\ DOMAIN new = DOMAIN entries /\ new[e] = row
      /\ \A f \in DOMAIN entries \ {e} : new[f] = entries[f]
  BY <1>1, <1>2, <1>6, <1>8, OneChanged
<1>10. \A f \in DOMAIN entries :
         /\ new[f].mailed = entries[f].mailed /\ new[f].cohort = entries[f].cohort
         /\ new[f].synced = entries[f].synced
         /\ f # e => new[f].user = entries[f].user
  BY <1>6, <1>9
<1>11. Loads(new)
  BY <1>1, <1>2, <1>3, <1>6, <1>9, <1>10 DEF Loads, IsAdmitted
<1>12. Grows(entries, new)
  BY <1>2, <1>9, <1>10 DEF Grows, IsAdmitted
<1> QED
  BY <1>1, <1>2, <1>6, <1>7, <1>9, <1>10, <1>11, <1>12 DEF GoodRows

\* The export is marked when the sheet has it.
LEMMA MarkedIsGood ==
  ASSUME StoreInv, ExportInv, ~failed, taken PROVE GoodRows(Marked)
<1>1. /\ entries = file /\ IsList(entries) /\ Loads(entries)
      /\ \A f \in DOMAIN entries : entries[f].mailed => f \in mailed
      /\ \A f \in DOMAIN entries : entries[f].synced => f \in exported
  BY DEF StoreInv, SyncedIsExported
<1>2. DOMAIN running \subseteq exported
  BY DEF ExportInv
<1>3. PICK new : new = Marked
  OBVIOUS
<1>4. DOMAIN new = DOMAIN entries
  BY <1>3 DEF Marked
<1>5. ASSUME NEW f \in DOMAIN entries
      PROVE  /\ new[f] \in Entry
             /\ new[f].mailed = entries[f].mailed /\ new[f].cohort = entries[f].cohort
             /\ new[f].user = entries[f].user /\ (new[f].synced => f \in exported)
  <2>1. entries[f] \in Entry
    BY <1>1, EntryFields
  <2>2. PICK row : row = [entries[f] EXCEPT !.synced = TRUE]
    OBVIOUS
  <2>3. /\ row \in Entry /\ row.mailed = entries[f].mailed /\ row.user = entries[f].user
        /\ row.cohort = entries[f].cohort
    BY <2>1, <2>2 DEF Entry
  <2>4. new[f] = IF f \in DOMAIN running THEN row ELSE entries[f]
    BY <1>3, <2>2 DEF Marked
  <2> QED
    BY <1>1, <1>2, <2>1, <2>3, <2>4
<1>6. IsList(new)
  <2>1. new = [f \in DOMAIN new |-> new[f]]
    BY <1>3 DEF Marked
  <2> QED
    BY <1>1, <1>4, <1>5, <2>1 DEF IsList
<1>7. Loads(new)
  BY <1>1, <1>4, <1>5 DEF Loads, IsAdmitted
<1>8. Grows(entries, new)
  BY <1>4, <1>5 DEF Grows, IsAdmitted
<1> QED
  BY <1>1, <1>3, <1>4, <1>5, <1>6, <1>7, <1>8 DEF GoodRows

\* An approval keeps an earlier cohort.
LEMMA AdmittedIsGood ==
  ASSUME StoreInv, WaitlistAssumption, ~failed, NEW members, NEW c \in Cohorts,
         Admissible(members, c)
  PROVE  /\ GoodRows(Admitted(members, c))
         /\ members \subseteq DOMAIN Admitted(members, c)
         /\ \A e \in members : IsAdmitted(Admitted(members, c), e)
<1>1. /\ entries = file /\ IsList(entries) /\ Loads(entries)
      /\ \A f \in DOMAIN entries : entries[f].mailed => f \in mailed
      /\ \A f \in DOMAIN entries : entries[f].synced => f \in exported
  BY DEF StoreInv, SyncedIsExported
<1>2. members \subseteq DOMAIN entries /\ c # None
  BY DEF Admissible, WaitlistAssumption, None
<1>3. PICK new : new = Admitted(members, c)
  OBVIOUS
<1>4. DOMAIN new = DOMAIN entries
  BY <1>3 DEF Admitted
<1>5. ASSUME NEW f \in DOMAIN entries
      PROVE  /\ new[f] \in Entry
             /\ new[f].mailed = entries[f].mailed /\ new[f].synced = entries[f].synced
             /\ new[f].user = entries[f].user
             /\ new[f].cohort = IF f \in members THEN c ELSE entries[f].cohort
  <2>1. entries[f] \in Entry
    BY <1>1, EntryFields
  <2>2. PICK row : row = [entries[f] EXCEPT !.cohort = c]
    OBVIOUS
  <2>3. /\ row \in Entry /\ row.mailed = entries[f].mailed /\ row.user = entries[f].user
        /\ row.cohort = c /\ row.synced = entries[f].synced
    BY <2>1, <2>2 DEF Entry
  <2>4. new[f] = IF f \in members THEN row ELSE entries[f]
    BY <1>3, <2>2 DEF Admitted
  <2> QED
    BY <1>1, <2>1, <2>3, <2>4
<1>6. IsList(new)
  <2>1. new = [f \in DOMAIN new |-> new[f]]
    BY <1>3 DEF Admitted
  <2> QED
    BY <1>1, <1>4, <1>5, <2>1 DEF IsList
<1>7. Loads(new)
  BY <1>1, <1>2, <1>4, <1>5 DEF Loads, IsAdmitted
<1>8. Grows(entries, new)
  BY <1>2, <1>4, <1>5 DEF Grows, IsAdmitted
<1>9. \A e \in members : e \in DOMAIN new /\ IsAdmitted(new, e)
  BY <1>2, <1>4, <1>5 DEF IsAdmitted
<1> QED
  BY <1>1, <1>3, <1>4, <1>5, <1>6, <1>7, <1>8, <1>9 DEF GoodRows

\* Of a set of entries, one is the first.
LEMMA CurrentIsTodo ==
  ASSUME StoreInv, AdmissionInv, admission.todo # {} PROVE Current \in admission.todo
<1>1. admission.todo \subseteq DOMAIN entries /\ IsList(entries)
  BY DEF StoreInv, AdmissionInv
<1>2. \A e \in admission.todo : entries[e].ts \in Nat
  <2>1. ASSUME NEW e \in admission.todo PROVE entries[e].ts \in Nat
    <3>1. entries[e] \in Entry
      BY <1>1, EntryFields
    <3> QED
      BY <3>1 DEF Entry
  <2> QED
    BY <2>1
<1>3. PICK T : T = {entries[e].ts : e \in admission.todo}
  OBVIOUS
<1>4. T \subseteq Nat /\ T # {}
  BY <1>2, <1>3
<1>5. PICK R : R = OpToRel(<, Nat) /\ IsWellFoundedOn(R, Nat)
  BY NatLessThanWellFounded
<1>6. PICK x \in T : \A y \in T : ~(<<y, x>> \in R)
  BY <1>4, <1>5, WFMin
<1>7. \A y \in T : ~(y < x)
  BY <1>4, <1>5, <1>6 DEF OpToRel
<1>8. PICK e \in admission.todo : entries[e].ts = x
  BY <1>3
<1>9. \A f \in admission.todo : entries[e].ts <= entries[f].ts
  BY <1>2, <1>3, <1>7, <1>8
<1> QED
  BY <1>9, Zenon DEF Current

\* A member is marked as mailed when the mail went out.
LEMMA WithMailIsGood ==
  ASSUME StoreInv, AdmissionInv, ~failed, NEW e \in admission.members, e \in mailed
  PROVE  GoodRows(WithMail(e))
<1>1. /\ entries = file /\ IsList(entries) /\ Loads(entries)
      /\ \A f \in DOMAIN entries : entries[f].mailed => f \in mailed
      /\ \A f \in DOMAIN entries : entries[f].synced => f \in exported
  BY DEF StoreInv, SyncedIsExported
<1>2. e \in DOMAIN entries /\ IsAdmitted(entries, e)
  BY DEF AdmissionInv
<1>4. PICK row : row = [entries[e] EXCEPT !.mailed = TRUE]
  OBVIOUS
<1>5. entries[e] \in Entry
  BY <1>1, <1>2, EntryFields
<1>6. /\ row \in Entry /\ row.mailed = TRUE /\ row.user = entries[e].user
      /\ row.cohort = entries[e].cohort /\ row.synced = entries[e].synced
  BY <1>4, <1>5 DEF Entry
<1>7. PICK new : new = WithMail(e)
  OBVIOUS
<1>8. new = [entries EXCEPT ![e] = row]
  BY <1>4, <1>7 DEF WithMail
<1>9. /\ IsList(new) /\ DOMAIN new = DOMAIN entries /\ new[e] = row
      /\ \A f \in DOMAIN entries \ {e} : new[f] = entries[f]
  BY <1>1, <1>2, <1>6, <1>8, OneChanged
<1>10. \A f \in DOMAIN entries :
         /\ new[f].user = entries[f].user /\ new[f].cohort = entries[f].cohort
         /\ new[f].synced = entries[f].synced
         /\ f # e => new[f].mailed = entries[f].mailed
  BY <1>6, <1>9
<1>11. Loads(new)
  BY <1>1, <1>2, <1>9, <1>10 DEF Loads, IsAdmitted
<1>12. Grows(entries, new)
  BY <1>6, <1>9, <1>10 DEF Grows, IsAdmitted
<1> QED
  BY <1>1, <1>7, <1>9, <1>10, <1>11, <1>12 DEF GoodRows

\* A list in memory whose mails are known to the file exports nothing untrue.
LEMMA NextExportIsTrue ==
  ASSUME NEW rows, IsList(rows), NEW told,
         \A e \in DOMAIN rows : rows[e].mailed => e \in told
  PROVE  TrueExport(NextExport(rows), told)
<1>1. PICK S : S = DOMAIN NextExport(rows)
  OBVIOUS
<1>2. S \subseteq DOMAIN rows /\ NextExport(rows) = [e \in S |-> rows[e].mailed]
  BY <1>1 DEF NextExport
<1>3. DOMAIN rows \subseteq Emails
  BY DEF IsList
<1>4. \A e \in S : rows[e].mailed \in BOOLEAN
  BY <1>2, EntryFields
<1>5. NextExport(rows) \in [S -> BOOLEAN]
  BY <1>2, <1>4
<1>6. NextExport(rows) \in Exports
  BY <1>2, <1>3, <1>5 DEF Exports
<1>7. \A e \in DOMAIN NextExport(rows) : NextExport(rows)[e] => e \in told
  BY <1>2
<1> QED
  BY <1>6, <1>7 DEF TrueExport

\* Nor does none.
LEMMA NothingIsTrue ==
  ASSUME NEW told PROVE TrueExport(NoExport, told)
<1>1. NoExport \in [{} -> BOOLEAN] /\ DOMAIN NoExport = {}
  BY DEF NoExport
<1>2. NoExport \in Exports
  BY <1>1 DEF Exports
<1> QED
  BY <1>1, <1>2 DEF TrueExport

\* What is true of some is true of more.
LEMMA TrueForMore ==
  ASSUME NEW post, NEW a, NEW b, a \subseteq b, TrueExport(post, a) PROVE TrueExport(post, b)
BY DEF TrueExport

-----------------------------------------------------------------------------
(* The store *)

\* What makes the next store a good one.
LEMMA StoreFollows ==
  ASSUME WaitlistAssumption, StoreInv, HistoryInv,
         IsList(entries'), IsList(file'), failed' \in BOOLEAN,
         ~failed' => entries' = file',
         Grows(entries', file'), Grows(file, file'), Loads(file'),
         acked' \subseteq acked \union DOMAIN file',
         \A grant \in granted' :
           grant \in granted \/ (grant[2] \in DOMAIN file' /\ file'[grant[2]].user = grant[1]),
         \A e \in mailed' : e \in mailed \/ (e \in DOMAIN file' /\ IsAdmitted(file', e)),
         \A e \in DOMAIN file' : file'[e].mailed => e \in mailed',
         \A e \in DOMAIN file' : file'[e].synced => e \in exported'
  PROVE  StoreInv'
<1>1. PromisesKept
  BY DEF StoreInv
<1>2. acked' \subseteq DOMAIN file'
  BY <1>1 DEF PromisesKept, Grows
<1>3. ASSUME NEW grant \in granted'
      PROVE  grant[2] \in DOMAIN file' /\ file'[grant[2]].user = grant[1]
  <2>1. CASE grant \in granted
    <3>1. grant[1] \in Users /\ grant[1] # None
      BY <2>1 DEF HistoryInv, WaitlistAssumption, None
    <3>2. grant[2] \in DOMAIN file /\ file[grant[2]].user = grant[1]
      BY <1>1, <2>1 DEF PromisesKept
    <3> QED
      BY <3>1, <3>2 DEF Grows
  <2> QED
    BY <1>3, <2>1
<1>4. ASSUME NEW e \in mailed' PROVE e \in DOMAIN file' /\ IsAdmitted(file', e)
  <2>1. CASE e \in mailed
    BY <1>1, <2>1 DEF PromisesKept, Grows
  <2> QED
    BY <1>4, <2>1
<1>5. PromisesKept'
  BY <1>2, <1>3, <1>4 DEF PromisesKept, IsAdmitted
<1>6. SyncedIsExported'
  BY DEF SyncedIsExported
<1>7. Loads(file)' /\ Grows(entries, file)'
  BY DEF Loads, Grows, IsAdmitted
<1>8. IsList(entries)' /\ IsList(file)'
  BY DEF IsList
<1> QED
  BY <1>5, <1>6, <1>7, <1>8 DEF StoreInv

\* What a step does to the store.
StoreStep ==
  /\ StoreInv' /\ Grows(file, file') /\ mailed \subseteq mailed' /\ exported \subseteq exported'
  /\ Grows(entries, entries') \/ admission' = NoAdmission

\* A list that is saved.
LEMMA SaveKeeps ==
  ASSUME WaitlistAssumption, StoreInv, HistoryInv, NEW rows, GoodRows(rows), Save(rows),
         acked' \subseteq acked \union DOMAIN rows,
         \A grant \in granted' :
           grant \in granted \/ (grant[2] \in DOMAIN rows /\ rows[grant[2]].user = grant[1]),
         UNCHANGED <<mailed, exported>>
  PROVE  StoreStep
<1>1. ~failed /\ entries = file /\ file' = rows /\ entries' = rows /\ failed' = failed
  BY DEF Save, StoreInv
<1>2. failed' \in BOOLEAN /\ Grows(file, rows) /\ Grows(entries, entries')
  BY <1>1 DEF StoreInv, GoodRows
<1>3. IsList(rows) /\ Loads(rows)
  BY DEF GoodRows
<1>4. Grows(rows, rows)
  BY GrowsItself
<1>5. \A e \in DOMAIN rows : (rows[e].mailed => e \in mailed') /\ (rows[e].synced => e \in exported')
  BY DEF GoodRows
<1>6. StoreInv'
  BY <1>1, <1>2, <1>3, <1>4, <1>5, StoreFollows
<1> QED
  BY <1>1, <1>2, <1>6 DEF StoreStep

\* A save that throws.
LEMMA SaveThrowsKeeps ==
  ASSUME WaitlistAssumption, StoreInv, HistoryInv, NEW rows, GoodRows(rows), SaveThrows(rows),
         UNCHANGED history
  PROVE  StoreStep
<1>1. ~failed /\ entries = file /\ file' \in {file, rows} /\ entries' = entries /\ failed' = TRUE
  BY DEF SaveThrows, StoreInv
<1>2. /\ acked' = acked /\ granted' = granted /\ mailed' = mailed /\ exported' = exported
  BY DEF history
<1>3. Grows(file, file) /\ Grows(file, rows) /\ Grows(entries, entries')
  BY <1>1, GrowsItself DEF GoodRows
<1>4. Grows(file, file') /\ Grows(entries', file')
  BY <1>1, <1>3
<1>5. IsList(rows) /\ Loads(rows) /\ IsList(file) /\ Loads(file)
  BY DEF GoodRows, StoreInv
<1>6. IsList(file') /\ Loads(file') /\ IsList(entries')
  BY <1>1, <1>5
<1>7. \A e \in DOMAIN file' : (file'[e].mailed => e \in mailed') /\ (file'[e].synced => e \in exported')
  BY <1>1, <1>2 DEF GoodRows, StoreInv, SyncedIsExported
<1>8. StoreInv'
  BY <1>1, <1>2, <1>4, <1>6, <1>7, StoreFollows
<1> QED
  BY <1>2, <1>3, <1>4, <1>8 DEF StoreStep

\* A list that is left alone.
LEMMA ListKeeps ==
  ASSUME WaitlistAssumption, StoreInv, HistoryInv, UNCHANGED list,
         acked' = acked,
         \A grant \in granted' :
           grant \in granted \/ (grant[2] \in DOMAIN file /\ file[grant[2]].user = grant[1]),
         mailed \subseteq mailed',
         \A e \in mailed' : e \in mailed \/ (e \in DOMAIN file /\ IsAdmitted(file, e)),
         exported \subseteq exported'
  PROVE  StoreStep
<1>1. entries' = entries /\ file' = file /\ failed' = failed
  BY DEF list
<1>2. Grows(file, file) /\ Grows(entries, entries)
  BY GrowsItself
<1>3. /\ IsList(entries) /\ IsList(file) /\ failed \in BOOLEAN /\ (~failed => entries = file)
      /\ Grows(entries, file) /\ Loads(file)
  BY DEF StoreInv
<1>4. \A e \in DOMAIN file : (file[e].mailed => e \in mailed') /\ (file[e].synced => e \in exported')
  BY DEF StoreInv, SyncedIsExported
<1>5. StoreInv'
  BY <1>1, <1>2, <1>3, <1>4, StoreFollows
<1> QED
  BY <1>1, <1>2, <1>5 DEF StoreStep

\* Nothing of it or of its histories changes.
LEMMA UnchangedKeeps ==
  ASSUME WaitlistAssumption, StoreInv, HistoryInv, UNCHANGED <<list, history>>
  PROVE  StoreStep
<1>1. UNCHANGED list /\ acked' = acked /\ granted' = granted /\ mailed' = mailed /\ exported' = exported
  BY DEF history
<1> QED
  BY <1>1, ListKeeps

\* A restart reads the file.
LEMMA RestartKeeps ==
  ASSUME WaitlistAssumption, StoreInv, HistoryInv, Restart PROVE StoreStep
<1>1. entries' = file /\ file' = file /\ failed' = FALSE /\ admission' = NoAdmission
  BY DEF Restart, Answer
<1>2. acked' = acked /\ granted' = granted /\ mailed' = mailed /\ exported' = exported
  BY DEF Restart, history
<1>3. Grows(file, file)
  BY GrowsItself
<1>4. IsList(file) /\ Loads(file)
  BY DEF StoreInv
<1>5. \A e \in DOMAIN file : (file[e].mailed => e \in mailed) /\ (file[e].synced => e \in exported)
  BY DEF StoreInv, SyncedIsExported
<1>6. StoreInv'
  BY <1>1, <1>2, <1>3, <1>4, <1>5, StoreFollows
<1> QED
  BY <1>1, <1>2, <1>3, <1>6 DEF StoreStep

\* Every step keeps the store.
LEMMA SignupStore ==
  ASSUME WaitlistInv, NEW e \in Emails, Signup(e) \/ SignupThrows(e) PROVE StoreStep
<1> USE DEF WaitlistInv
<1>1. CASE Signup(e)
  <2>1. PICK rows : rows = SignedUp(e)
    OBVIOUS
  <2>2. /\ Save(rows) /\ acked' = acked \union {e}
        /\ granted' = granted /\ mailed' = mailed /\ exported' = exported
    BY <1>1, <2>1 DEF Signup
  <2>3. ~failed
    BY <2>2 DEF Save
  <2>4. GoodRows(rows) /\ e \in DOMAIN rows
    BY <2>1, <2>3, SignedUpIsGood
  <2> QED
    BY <2>2, <2>4, SaveKeeps
<1>2. CASE SignupThrows(e)
  <2>1. PICK rows : rows = SignedUp(e)
    OBVIOUS
  <2>2. SaveThrows(rows) /\ UNCHANGED history
    BY <1>2, <2>1 DEF SignupThrows
  <2>3. ~failed
    BY <2>2 DEF SaveThrows
  <2>4. GoodRows(rows)
    BY <2>1, <2>3, SignedUpIsGood
  <2> QED
    BY <2>2, <2>4, SaveThrowsKeeps
<1> QED
  BY <1>1, <1>2

LEMMA AccessStore ==
  ASSUME WaitlistInv, NEW u \in Users, NEW mails, Access(u, mails) PROVE StoreStep
<1> USE DEF WaitlistInv
<1>1. acked' = acked /\ mailed' = mailed /\ exported' = exported
  BY DEF Access
<1>2. CASE /\ ~failed /\ Bound(u) # {}
           /\ granted' = granted \union {<<u, e>> : e \in Bound(u)}
           /\ UNCHANGED <<list, mishaps>>
  <2>1. entries = file
    BY <1>2 DEF StoreInv
  <2>2. ASSUME NEW grant \in granted'
        PROVE  grant \in granted \/ (grant[2] \in DOMAIN file /\ file[grant[2]].user = grant[1])
    BY <1>2, <2>1 DEF Bound
  <2> QED
    BY <1>1, <1>2, <2>2, ListKeeps
<1>3. ASSUME NEW e \in Redeemable(mails), Bound(u) = {},
             \/ Save(Claimed(u, e)) /\ granted' = granted \union {<<u, e>>}
             \/ SaveThrows(Claimed(u, e)) /\ UNCHANGED granted
      PROVE  StoreStep
  <2>1. PICK rows : rows = Claimed(u, e)
    OBVIOUS
  <2>2. ~failed
    BY <1>3 DEF Save, SaveThrows
  <2>3. GoodRows(rows) /\ e \in DOMAIN rows /\ rows[e].user = u
    BY <1>3, <2>1, <2>2, ClaimedIsGood
  <2>4. CASE Save(rows) /\ granted' = granted \union {<<u, e>>}
    <3>1. \A grant \in granted' :
            grant \in granted \/ (grant[2] \in DOMAIN rows /\ rows[grant[2]].user = grant[1])
      BY <2>3, <2>4
    <3> QED
      BY <1>1, <2>3, <2>4, <3>1, SaveKeeps
  <2>5. CASE SaveThrows(rows) /\ UNCHANGED granted
    <3>1. UNCHANGED history
      BY <1>1, <2>5 DEF history
    <3> QED
      BY <2>3, <2>5, <3>1, SaveThrowsKeeps
  <2> QED
    BY <1>3, <2>1, <2>4, <2>5
<1>4. \/ /\ ~failed /\ Bound(u) # {}
         /\ granted' = granted \union {<<u, e>> : e \in Bound(u)}
         /\ UNCHANGED <<list, mishaps>>
      \/ \E e \in Redeemable(mails) :
           /\ Bound(u) = {}
           /\ \/ Save(Claimed(u, e)) /\ granted' = granted \union {<<u, e>>}
              \/ SaveThrows(Claimed(u, e)) /\ UNCHANGED granted
  BY DEF Access
<1> QED
  BY <1>2, <1>3, <1>4

LEMMA SyncedStore ==
  ASSUME WaitlistInv, Synced PROVE StoreStep
<1> USE DEF WaitlistInv
<1>1. PICK rows : rows = Marked
  OBVIOUS
<1>2. taken /\ UNCHANGED history
  BY DEF Synced
<1>3. acked' = acked /\ granted' = granted /\ mailed' = mailed /\ exported' = exported
  BY <1>2 DEF history
<1>4. CASE Save(rows)
  <2>1. GoodRows(rows)
    BY <1>1, <1>2, <1>4, MarkedIsGood DEF Save
  <2> QED
    BY <1>3, <1>4, <2>1, SaveKeeps
<1>5. CASE SaveThrows(rows)
  <2>1. GoodRows(rows)
    BY <1>1, <1>2, <1>5, MarkedIsGood DEF SaveThrows
  <2> QED
    BY <1>2, <1>5, <2>1, SaveThrowsKeeps
<1>6. CASE UNCHANGED list
  BY <1>2, <1>6, UnchangedKeeps
<1>7. Save(rows) \/ SaveThrows(rows) \/ UNCHANGED list
  BY <1>1 DEF Synced
<1> QED
  BY <1>4, <1>5, <1>6, <1>7

LEMMA AdmitStore ==
  ASSUME WaitlistInv, NEW members, NEW c \in Cohorts, Admit(members, c) PROVE StoreStep
<1> USE DEF WaitlistInv
<1>1. PICK rows : rows = Admitted(members, c)
  OBVIOUS
<1>2. UNCHANGED history
  BY DEF Admit
<1>3. acked' = acked /\ granted' = granted /\ mailed' = mailed /\ exported' = exported
  BY <1>2 DEF history
<1>4. CASE Admissible(members, c) /\ Save(rows)
  <2>1. GoodRows(rows)
    BY <1>1, <1>4, AdmittedIsGood DEF Save
  <2> QED
    BY <1>3, <1>4, <2>1, SaveKeeps
<1>5. CASE Admissible(members, c) /\ SaveThrows(rows)
  <2>1. GoodRows(rows)
    BY <1>1, <1>5, AdmittedIsGood DEF SaveThrows
  <2> QED
    BY <1>2, <1>5, <2>1, SaveThrowsKeeps
<1>6. CASE UNCHANGED list
  BY <1>2, <1>6, UnchangedKeeps
<1>7. \/ Admissible(members, c) /\ Save(rows)
      \/ Admissible(members, c) /\ SaveThrows(rows)
      \/ UNCHANGED list
  BY <1>1 DEF Admit
<1> QED
  BY <1>4, <1>5, <1>6, <1>7

LEMMA MailStore ==
  ASSUME WaitlistInv, Mail PROVE StoreStep
<1> USE DEF WaitlistInv
<1>1. PICK e : e = Current
  OBVIOUS
<1>2. /\ admission.todo # {} /\ mailed' = mailed \union {e}
      /\ UNCHANGED list /\ acked' = acked /\ granted' = granted /\ exported' = exported
  BY <1>1 DEF Mail
<1>3. e \in admission.members
  BY <1>1, <1>2, CurrentIsTodo DEF AdmissionInv
<1>4. e \in DOMAIN file /\ IsAdmitted(file, e)
  BY <1>3 DEF AdmissionInv, StoreInv, Grows
<1> QED
  BY <1>2, <1>4, ListKeeps

LEMMA MailReturnsStore ==
  ASSUME WaitlistInv, MailReturns PROVE StoreStep
<1> USE DEF WaitlistInv
<1>1. PICK e : e = Current
  OBVIOUS
<1>2. PICK rows : rows = WithMail(e)
  OBVIOUS
<1>3. admission.todo # {} /\ e \in mailed /\ UNCHANGED history
  BY <1>1 DEF MailReturns
<1>4. e \in admission.members
  BY <1>1, <1>3, CurrentIsTodo DEF AdmissionInv
<1>5. acked' = acked /\ granted' = granted /\ mailed' = mailed /\ exported' = exported
  BY <1>3 DEF history
<1>6. CASE Save(rows)
  <2>1. GoodRows(rows)
    BY <1>2, <1>3, <1>4, <1>6, WithMailIsGood DEF Save
  <2> QED
    BY <1>5, <1>6, <2>1, SaveKeeps
<1>7. CASE SaveThrows(rows)
  <2>1. GoodRows(rows)
    BY <1>2, <1>3, <1>4, <1>7, WithMailIsGood DEF SaveThrows
  <2> QED
    BY <1>3, <1>7, <2>1, SaveThrowsKeeps
<1>8. CASE UNCHANGED list
  BY <1>3, <1>8, UnchangedKeeps
<1>9. Save(rows) \/ SaveThrows(rows) \/ UNCHANGED list
  BY <1>1, <1>2 DEF MailReturns
<1> QED
  BY <1>6, <1>7, <1>8, <1>9

\* The sheet takes an export.
LEMMA AppendStore ==
  ASSUME WaitlistInv, NEW post, TakeRows(post) PROVE StoreStep
<1>1. /\ UNCHANGED list /\ acked' = acked /\ granted' = granted /\ mailed' = mailed
      /\ exported \subseteq exported'
  BY DEF TakeRows
<1> QED
  BY <1>1, ListKeeps DEF WaitlistInv

LEMMA NextStore ==
  ASSUME WaitlistInv, [WaitlistNext]_waitlistVars PROVE StoreStep
<1> USE UnchangedKeeps DEF WaitlistInv
<1>1. ASSUME NEW e \in Emails, Signup(e) \/ SignupThrows(e) PROVE StoreStep
  BY <1>1, SignupStore
<1>2. ASSUME NEW e \in Emails, DeleteRow(e) PROVE StoreStep
  BY <1>2 DEF DeleteRow
<1>3. ASSUME NEW u \in Users, NEW mails \in SUBSET Inbox[u], Access(u, mails) PROVE StoreStep
  BY <1>3, AccessStore
<1>4. CASE Sync
  BY <1>4 DEF Sync
<1>5. CASE SheetTakes
  BY <1>5, AppendStore DEF SheetTakes
<1>6. CASE StrayTaken
  BY <1>6, AppendStore DEF StrayTaken
<1>7. CASE Synced
  BY <1>7, SyncedStore
<1>8. CASE SyncFails
  BY <1>8 DEF SyncFails
<1>9. ASSUME NEW e \in Emails, NEW c \in Cohorts, Approve(e, c) PROVE StoreStep
  BY <1>9 DEF Approve
<1>10. CASE StartScript
  BY <1>10 DEF StartScript
<1>11. CASE EndScript
  BY <1>11 DEF EndScript
<1>12. ASSUME NEW members \in SUBSET Emails, NEW c \in Cohorts, Admit(members, c) PROVE StoreStep
  BY <1>12, AdmitStore
<1>13. CASE Mail
  BY <1>13, MailStore
<1>14. CASE MailReturns
  BY <1>14, MailReturnsStore
<1>15. CASE MailFails
  BY <1>15 DEF MailFails
<1>16. CASE AdmitReturns
  BY <1>16 DEF AdmitReturns
<1>17. CASE AnswerLost
  BY <1>17 DEF AnswerLost
<1>18. CASE Restart
  BY <1>18, RestartKeeps
<1>19. CASE UNCHANGED waitlistVars
  BY <1>19 DEF waitlistVars
<1> QED
  BY <1>1, <1>2, <1>3, <1>4, <1>5, <1>6, <1>7, <1>8, <1>9, <1>10, <1>11, <1>12, <1>13,
     <1>14, <1>15, <1>16, <1>17, <1>18, <1>19 DEF WaitlistNext

-----------------------------------------------------------------------------
(* Admissions, exports, the sheet and its script *)

\* Who was told stays told.
LEMMA ToldGrows == ASSUME StoreStep PROVE Told \subseteq Told'
BY DEF StoreStep, Told, Grows

\* Nobody is being mailed, or the same members as before.
LEMMA AdmissionStays ==
  ASSUME AdmissionInv, StoreStep,
         \/ admission' = NoAdmission
         \/ admission' = admission
         \/ \E S : admission' = [admission EXCEPT !.todo = @ \ S]
  PROVE  AdmissionInv'
<1>1. CASE admission' = NoAdmission
  BY <1>1 DEF AdmissionInv, NoAdmission
<1>2. CASE admission' # NoAdmission
  <2>1. Grows(entries, entries')
    BY <1>2 DEF StoreStep
  <2>2. /\ admission' \in [members : SUBSET Emails, todo : SUBSET Emails]
        /\ admission'.members = admission.members /\ admission'.todo \subseteq admission.todo
    <3>1. CASE admission' = admission
      BY <3>1 DEF AdmissionInv
    <3>2. ASSUME NEW S, admission' = [admission EXCEPT !.todo = @ \ S]
          PROVE  <2>2!1 /\ <2>2!2
      BY <3>2 DEF AdmissionInv
    <3> QED
      BY <1>2, <3>1, <3>2
  <2>3. \A e \in admission'.members : e \in DOMAIN entries' /\ IsAdmitted(entries', e)
    BY <2>1, <2>2 DEF AdmissionInv, Grows
  <2>4. admission'.todo \subseteq admission'.members
    BY <2>2 DEF AdmissionInv
  <2>5. \A e \in admission'.members : IsAdmitted(entries, e)'
    BY <2>3 DEF IsAdmitted
  <2> QED
    BY <2>2, <2>3, <2>4, <2>5 DEF AdmissionInv
<1> QED
  BY <1>1, <1>2

\* Those who are admitted are so in the list that was saved.
LEMMA AdmitMembers ==
  ASSUME WaitlistInv, StoreStep, NEW members \in SUBSET Emails, NEW c \in Cohorts,
         Admit(members, c)
  PROVE  AdmissionInv'
<1>1. CASE admission' = admission
  BY <1>1, AdmissionStays DEF WaitlistInv
<1>2. CASE /\ Admissible(members, c) /\ Save(Admitted(members, c))
           /\ admission' = [members |-> members, todo |-> Unmailed(members)]
  <2>1. ~failed /\ entries' = Admitted(members, c)
    BY <1>2 DEF Save
  <2>2. /\ members \subseteq DOMAIN entries'
        /\ \A e \in members : IsAdmitted(entries', e)
    BY <1>2, <2>1, AdmittedIsGood DEF WaitlistInv
  <2>3. Unmailed(members) \subseteq members
    BY DEF Unmailed
  <2>4. /\ admission' \in [members : SUBSET Emails, todo : SUBSET Emails]
        /\ admission'.members = members /\ admission'.todo = Unmailed(members)
    BY <1>2, <2>3
  <2>5. \A e \in members : IsAdmitted(entries, e)'
    BY <2>2 DEF IsAdmitted
  <2> QED
    BY <2>2, <2>3, <2>4, <2>5 DEF AdmissionInv
<1> QED
  BY <1>1, <1>2 DEF Admit

\* Every step keeps the admission,
LEMMA NextAdmission ==
  ASSUME WaitlistInv, StoreStep, [WaitlistNext]_waitlistVars PROVE AdmissionInv'
<1> USE AdmissionStays DEF WaitlistInv
<1>1. ASSUME NEW e \in Emails, Signup(e) \/ SignupThrows(e) \/ DeleteRow(e) PROVE AdmissionInv'
  BY <1>1 DEF Signup, SignupThrows, DeleteRow
<1>2. ASSUME NEW u \in Users, NEW mails \in SUBSET Inbox[u], Access(u, mails) PROVE AdmissionInv'
  BY <1>2 DEF Access
<1>3. CASE Sync \/ SyncFails \/ Synced
  BY <1>3 DEF Sync, SyncFails, Synced
<1>4. CASE SheetTakes \/ StrayTaken
  BY <1>4 DEF SheetTakes, StrayTaken, TakeRows
<1>5. ASSUME NEW e \in Emails, NEW c \in Cohorts, Approve(e, c) PROVE AdmissionInv'
  BY <1>5 DEF Approve
<1>6. CASE StartScript \/ EndScript
  BY <1>6 DEF StartScript, EndScript
<1>7. ASSUME NEW members \in SUBSET Emails, NEW c \in Cohorts, Admit(members, c)
      PROVE  AdmissionInv'
  BY <1>7, AdmitMembers
<1>8. CASE Mail
  BY <1>8 DEF Mail
<1>9. CASE MailReturns
  BY <1>9 DEF MailReturns, Answer
<1>10. CASE MailFails
  BY <1>10 DEF MailFails
<1>11. CASE AdmitReturns \/ AnswerLost
  BY <1>11 DEF AdmitReturns, AnswerLost, Answer
<1>12. CASE Restart
  BY <1>12 DEF Restart, Answer
<1>13. CASE UNCHANGED waitlistVars
  BY <1>13 DEF waitlistVars
<1> QED
  BY <1>1, <1>2, <1>3, <1>4, <1>5, <1>6, <1>7, <1>8, <1>9, <1>10, <1>11, <1>12, <1>13 DEF WaitlistNext

\* The export under way is the same, none, or one of the list in memory.
LEMMA ExportStays ==
  ASSUME WaitlistInv, StoreStep,
         running' \in {running, NoExport, NextExport(entries')},
         taken' = FALSE \/ (taken' = taken /\ running' = running)
                        \/ (running # NoExport /\ running' = running /\ taken' = TRUE
                             /\ DOMAIN running \subseteq exported'),
         strays' \subseteq strays \union {running}
  PROVE  ExportInv'
<1>1. Told \subseteq Told'
  BY ToldGrows
<1>2. ExportInv
  BY DEF WaitlistInv
<1>3. TrueExport(running, Told') /\ \A post \in strays : TrueExport(post, Told')
  BY <1>1, <1>2, TrueForMore DEF ExportInv
<1>4. TrueExport(NoExport, Told')
  BY NothingIsTrue
<1>5. TrueExport(NextExport(entries'), Told')
  <2>1. StoreInv'
    BY DEF StoreStep
  <2>2. IsList(entries')
    BY <2>1 DEF StoreInv, IsList
  <2>3. \A e \in DOMAIN entries' : entries'[e].mailed => e \in DOMAIN file' /\ file'[e].mailed
    BY <2>1 DEF StoreInv, Grows
  <2>4. \A e \in DOMAIN file' : file'[e].mailed => e \in mailed'
    BY <2>1 DEF StoreInv
  <2>5. \A e \in DOMAIN entries' : entries'[e].mailed => e \in Told'
    BY <2>3, <2>4 DEF Told
  <2> QED
    BY <2>2, <2>5, NextExportIsTrue
<1>6. TrueExport(running', Told') /\ \A post \in strays' : TrueExport(post, Told')
  BY <1>3, <1>4, <1>5
<1>7. TrueExport(running, Told)' /\ \A post \in strays' : TrueExport(post, Told')
  BY <1>6 DEF TrueExport
<1>8. taken' \in BOOLEAN /\ (taken' => running' # NoExport /\ DOMAIN running' \subseteq exported')
  <2>1. taken \in BOOLEAN /\ (taken => running # NoExport /\ DOMAIN running \subseteq exported)
    BY <1>2 DEF ExportInv
  <2>2. exported \subseteq exported'
    BY DEF StoreStep
  <2>3. CASE taken' = FALSE
    BY <2>3
  <2>4. CASE taken' = taken /\ running' = running
    BY <2>1, <2>2, <2>4
  <2>5. CASE /\ running # NoExport /\ running' = running /\ taken' = TRUE
             /\ DOMAIN running \subseteq exported'
    BY <2>5
  <2> QED
    BY <2>3, <2>4, <2>5
<1> QED
  BY <1>7, <1>8 DEF ExportInv, TrueExport, NoExport

\* the exports,
LEMMA NextExports ==
  ASSUME WaitlistInv, StoreStep, [WaitlistNext]_waitlistVars PROVE ExportInv'
<1> USE ExportStays DEF WaitlistInv, export
<1>1. ASSUME NEW e \in Emails, Signup(e) PROVE ExportInv'
  <2>1. CASE running = NoExport
    <3>1. taken = FALSE
      BY <2>1 DEF ExportInv
    <3> QED
      BY <1>1, <2>1, <3>1 DEF Signup
  <2>2. CASE running # NoExport
    BY <1>1, <2>2 DEF Signup
  <2> QED
    BY <2>1, <2>2
<1>2. ASSUME NEW e \in Emails, SignupThrows(e) \/ DeleteRow(e) PROVE ExportInv'
  BY <1>2 DEF SignupThrows, DeleteRow
<1>3. ASSUME NEW u \in Users, NEW mails \in SUBSET Inbox[u], Access(u, mails) PROVE ExportInv'
  BY <1>3 DEF Access
<1>4. CASE Sync
  <2>1. running' = NextExport(entries') /\ running = NoExport /\ taken' = taken /\ strays' = strays
    BY <1>4 DEF Sync, list, NextExport
  <2>2. taken = FALSE
    BY <2>1 DEF ExportInv
  <2> QED
    BY <2>1, <2>2
<1>5. CASE SheetTakes
  BY <1>5 DEF SheetTakes, TakeRows
<1>6. CASE StrayTaken
  BY <1>6 DEF StrayTaken, TakeRows
<1>7. CASE Synced
  BY <1>7 DEF Synced
<1>8. CASE SyncFails
  BY <1>8 DEF SyncFails
<1>9. ASSUME NEW e \in Emails, NEW c \in Cohorts, Approve(e, c) PROVE ExportInv'
  BY <1>9 DEF Approve
<1>10. CASE StartScript \/ EndScript
  BY <1>10 DEF StartScript, EndScript
<1>11. ASSUME NEW members \in SUBSET Emails, NEW c \in Cohorts, Admit(members, c)
       PROVE  ExportInv'
  BY <1>11 DEF Admit
<1>12. CASE Mail
  BY <1>12 DEF Mail
<1>13. CASE MailReturns \/ MailFails
  BY <1>13 DEF MailReturns, MailFails
<1>14. CASE AdmitReturns \/ AnswerLost
  BY <1>14 DEF AdmitReturns, AnswerLost
<1>15. CASE Restart
  BY <1>15 DEF Restart
<1>16. CASE UNCHANGED waitlistVars
  BY <1>16 DEF waitlistVars
<1> QED
  BY <1>1, <1>2, <1>3, <1>4, <1>5, <1>6, <1>7, <1>8, <1>9, <1>10, <1>11, <1>12, <1>13,
     <1>14, <1>15, <1>16 DEF WaitlistNext

\* An empty queue is one.
LEMMA NoneQueued == << >> \in UNION {[S -> Cohorts] : S \in SUBSET Emails}
<1>1. << >> \in [{} -> Cohorts]
  OBVIOUS
<1> QED
  BY <1>1

\* The script is answered: the rows of members change, and nothing else of it.
LEMMA DeliveredKeeps ==
  ASSUME SheetInv, ScriptInv, Told \subseteq Told', NEW members, NEW sent, sent \subseteq Told',
         Delivered(members, sent)
  PROVE  SheetInv' /\ ScriptInv'
<1>1. /\ sheet \in [Emails -> [copies : Nat, cohort : Cohorts \union {None}, sent : BOOLEAN]]
      /\ \A e \in Emails : sheet[e].copies <= 1 /\ (sheet[e].sent => e \in Told')
  BY DEF SheetInv
<1>2. PICK done : sheet' = [e \in Emails |-> IF e \in done THEN [sheet[e] EXCEPT !.sent = e \in sent]
                                             ELSE sheet[e]]
  BY DEF Delivered
<1>3. ASSUME NEW e \in Emails
      PROVE  /\ sheet'[e] \in [copies : Nat, cohort : Cohorts \union {None}, sent : BOOLEAN]
             /\ sheet'[e].copies <= 1 /\ (sheet'[e].sent => e \in Told')
  <2>1. PICK b : b = (e \in sent)
    OBVIOUS
  <2>2. PICK row : row = [sheet[e] EXCEPT !.sent = b]
    OBVIOUS
  <2>3. sheet[e] \in [copies : Nat, cohort : Cohorts \union {None}, sent : BOOLEAN]
    BY <1>1
  <2>4. b \in BOOLEAN /\ (b => e \in Told')
    <3>1. b <=> e \in sent
      BY <2>1, Zenon
    <3>2. (e \in sent) \in BOOLEAN
      BY SMT
    <3>3. b \in BOOLEAN
      BY <2>1, <3>2, Zenon
    <3> QED
      BY <3>1, <3>3
  <2>5. /\ row \in [copies : Nat, cohort : Cohorts \union {None}, sent : BOOLEAN]
        /\ row.copies = sheet[e].copies /\ (row.sent => e \in Told')
    BY <2>2, <2>3, <2>4
  <2>6. sheet'[e] = IF e \in done THEN row ELSE sheet[e]
    BY <1>2, <2>1, <2>2
  <2> QED
    BY <1>1, <2>3, <2>5, <2>6
<1>4. sheet' = [e \in Emails |-> sheet'[e]]
  BY <1>2
<1>5. sheet' \in [Emails -> [copies : Nat, cohort : Cohorts \union {None}, sent : BOOLEAN]]
  BY <1>3, <1>4
<1>6. SheetInv'
  BY <1>3, <1>5 DEF SheetInv
<1>7. waiting' \in BOOLEAN /\ locked' \in BOOLEAN
  BY DEF Delivered, ScriptInv
<1>8. queue' \in UNION {[S -> Cohorts] : S \in SUBSET Emails}
  <2>1. CASE queue' = Left(members)
    <3>1. PICK S \in SUBSET Emails : queue \in [S -> Cohorts]
      BY DEF ScriptInv
    <3>2. queue' \in [S \ members -> Cohorts] /\ S \ members \in SUBSET Emails
      BY <2>1, <3>1 DEF Left
    <3> QED
      BY <3>2
  <2>2. CASE queue' = << >>
    BY <2>2, NoneQueued
  <2> QED
    BY <2>1, <2>2 DEF Delivered
<1> QED
  BY <1>6, <1>7, <1>8 DEF ScriptInv

\* The admission is over.
LEMMA AnswerKeeps ==
  ASSUME SheetInv, ScriptInv, Told \subseteq Told', NEW members, NEW sent, sent \subseteq Told',
         Answer(members, sent)
  PROVE  SheetInv' /\ ScriptInv'
<1>1. CASE waiting
  BY <1>1, DeliveredKeeps DEF Answer
<1>2. CASE ~waiting
  <2>1. sheet' = sheet /\ locked' = locked /\ queue' = queue /\ waiting' = waiting
    BY <1>2 DEF Answer, script
  <2> QED
    BY <2>1 DEF SheetInv, ScriptInv
<1> QED
  BY <1>1, <1>2

\* Nobody writes to the sheet.
LEMMA SheetStays ==
  ASSUME SheetInv, ScriptInv, Told \subseteq Told', UNCHANGED <<sheet, script>>
  PROVE  SheetInv' /\ ScriptInv'
<1>1. sheet' = sheet /\ locked' = locked /\ queue' = queue /\ waiting' = waiting
  BY DEF script
<1> QED
  BY <1>1 DEF SheetInv, ScriptInv

\* The sheet's script looks an email up before it adds a row for it.
LEMMA AppendKeeps ==
  ASSUME SheetInv, ScriptInv, Told \subseteq Told', NEW post, TrueExport(post, Told), TakeRows(post)
  PROVE  SheetInv' /\ ScriptInv'
<1>1. /\ sheet \in [Emails -> [copies : Nat, cohort : Cohorts \union {None}, sent : BOOLEAN]]
      /\ \A e \in Emails : sheet[e].copies <= 1 /\ (sheet[e].sent => e \in Told')
  BY DEF SheetInv
<1>2. locked' = locked /\ queue' = queue /\ waiting' = waiting
  BY DEF TakeRows, script
<1>3. ASSUME NEW e \in Emails
      PROVE  /\ sheet'[e] \in [copies : Nat, cohort : Cohorts \union {None}, sent : BOOLEAN]
             /\ sheet'[e].copies <= 1 /\ (sheet'[e].sent => e \in Told')
  <2>1. CASE e \in DOMAIN post /\ ~Known(e)
    <3>1. sheet'[e] = [copies |-> sheet[e].copies + 1, cohort |-> None, sent |-> post[e]]
      BY <2>1 DEF TakeRows
    <3>2. sheet[e].copies = 0
      BY <1>1, <2>1 DEF Known
    <3>3. post[e] \in BOOLEAN /\ (post[e] => e \in Told')
      BY <2>1 DEF TrueExport, Exports
    <3>4. sheet'[e] = [copies |-> 1, cohort |-> None, sent |-> post[e]]
      BY <3>1, <3>2
    <3> QED
      BY <3>3, <3>4
  <2>2. CASE ~(e \in DOMAIN post /\ ~Known(e))
    BY <1>1, <2>2 DEF TakeRows
  <2> QED
    BY <2>1, <2>2
<1>4. sheet' = [e \in Emails |-> sheet'[e]]
  BY DEF TakeRows
<1>5. sheet' \in [Emails -> [copies : Nat, cohort : Cohorts \union {None}, sent : BOOLEAN]]
  BY <1>3, <1>4
<1> QED
  BY <1>2, <1>3, <1>5 DEF SheetInv, ScriptInv

\* A person's hand on a row.
LEMMA RowKeeps ==
  ASSUME SheetInv, ScriptInv, Told \subseteq Told', NEW e \in Emails,
         NEW row \in [copies : Nat, cohort : Cohorts \union {None}, sent : BOOLEAN],
         row.copies <= 1, row.sent => e \in Told, sheet' = [sheet EXCEPT ![e] = row],
         UNCHANGED script
  PROVE  SheetInv' /\ ScriptInv'
<1>1. locked' = locked /\ queue' = queue /\ waiting' = waiting
  BY DEF script
<1> QED
  BY <1>1 DEF SheetInv, ScriptInv

\* the sheet and its script,
LEMMA NextSheet ==
  ASSUME WaitlistInv, StoreStep, [WaitlistNext]_waitlistVars PROVE SheetInv' /\ ScriptInv'
<1> USE DEF WaitlistInv
<1>0. Told \subseteq Told'
  BY ToldGrows
<1>1. ASSUME NEW e \in Emails, Signup(e) \/ SignupThrows(e) PROVE SheetInv' /\ ScriptInv'
  BY <1>0, <1>1, SheetStays DEF Signup, SignupThrows
<1>2. ASSUME NEW e \in Emails, DeleteRow(e) PROVE SheetInv' /\ ScriptInv'
  <2>1. PICK row : row = [copies |-> 0, cohort |-> None, sent |-> FALSE]
    OBVIOUS
  <2>2. /\ row \in [copies : Nat, cohort : Cohorts \union {None}, sent : BOOLEAN]
        /\ row.copies <= 1 /\ ~row.sent
    BY <2>1
  <2>3. sheet' = [sheet EXCEPT ![e] = row] /\ UNCHANGED script
    BY <1>2, <2>1 DEF DeleteRow
  <2> QED
    BY <1>0, <2>2, <2>3, RowKeeps
<1>3. ASSUME NEW u \in Users, NEW mails \in SUBSET Inbox[u], Access(u, mails)
      PROVE  SheetInv' /\ ScriptInv'
  BY <1>0, <1>3, SheetStays DEF Access
<1>4. CASE Sync \/ SyncFails \/ Synced
  BY <1>0, <1>4, SheetStays DEF Sync, SyncFails, Synced
<1>5. CASE SheetTakes \/ StrayTaken
  BY <1>0, <1>5, AppendKeeps DEF SheetTakes, StrayTaken, ExportInv
<1>6. ASSUME NEW e \in Emails, NEW c \in Cohorts, Approve(e, c) PROVE SheetInv' /\ ScriptInv'
  <2>1. PICK row : row = [sheet[e] EXCEPT !.cohort = c]
    OBVIOUS
  <2>2. sheet[e] \in [copies : Nat, cohort : Cohorts \union {None}, sent : BOOLEAN]
    BY DEF SheetInv
  <2>3. /\ row \in [copies : Nat, cohort : Cohorts \union {None}, sent : BOOLEAN]
        /\ row.copies <= 1 /\ (row.sent => e \in Told)
    BY <2>1, <2>2 DEF SheetInv
  <2>4. sheet' = [sheet EXCEPT ![e] = row] /\ UNCHANGED script
    BY <1>6, <2>1 DEF Approve
  <2> QED
    BY <1>0, <2>3, <2>4, RowKeeps
<1>7. CASE StartScript
  <2>1. sheet' = sheet /\ locked' = TRUE /\ waiting' = waiting
    BY <1>7 DEF StartScript
  <2>2. queue' = [e \in Ticked |-> sheet[e].cohort]
    BY <1>7 DEF StartScript
  <2>3. \A e \in Ticked : e \in Emails /\ sheet[e].cohort \in Cohorts
    BY DEF Ticked, SheetInv
  <2>4. queue' \in [Ticked -> Cohorts] /\ Ticked \in SUBSET Emails
    BY <2>2, <2>3
  <2> QED
    BY <1>0, <2>1, <2>4 DEF SheetInv, ScriptInv
<1>8. CASE EndScript
  <2>1. sheet' = sheet /\ locked' = FALSE /\ waiting' = FALSE /\ queue' = << >>
    BY <1>8 DEF EndScript
  <2> QED
    BY <1>0, <2>1, NoneQueued DEF SheetInv, ScriptInv
<1>9. ASSUME NEW members \in SUBSET Emails, NEW c \in Cohorts, Admit(members, c)
      PROVE  SheetInv' /\ ScriptInv'
  <2>1. CASE waiting' = TRUE /\ UNCHANGED <<sheet, locked, queue>>
    BY <1>0, <2>1 DEF SheetInv, ScriptInv
  <2>2. CASE Delivered(members, {})
    BY <1>0, <2>2, DeliveredKeeps
  <2> QED
    BY <1>9, <2>1, <2>2 DEF Admit
<1>10. CASE Mail \/ MailFails
  BY <1>0, <1>10, SheetStays DEF Mail, MailFails
<1>11. CASE MailReturns
  <2>1. CASE UNCHANGED <<sheet, script>>
    BY <1>0, <2>1, SheetStays
  <2>2. CASE Answer(admission.members, {})
    BY <1>0, <2>2, AnswerKeeps
  <2> QED
    BY <1>11, <2>1, <2>2 DEF MailReturns
<1>12. CASE AdmitReturns
  <2>1. PICK sent : sent = admission.members \ Unmailed(admission.members)
    OBVIOUS
  <2>2. \A e \in sent : e \in DOMAIN entries /\ entries[e].mailed
    BY <2>1 DEF Unmailed, AdmissionInv
  <2>3. sent \subseteq Told
    BY <2>2 DEF StoreInv, Grows, Told
  <2>4. Answer(admission.members, sent)
    BY <1>12, <2>1 DEF AdmitReturns
  <2> QED
    BY <1>0, <2>3, <2>4, AnswerKeeps
<1>13. CASE AnswerLost
  BY <1>0, <1>13, DeliveredKeeps DEF AnswerLost
<1>14. CASE Restart
  BY <1>0, <1>14, AnswerKeeps DEF Restart
<1>15. CASE UNCHANGED waitlistVars
  BY <1>0, <1>15, SheetStays DEF waitlistVars
<1> QED
  BY <1>1, <1>2, <1>3, <1>4, <1>5, <1>6, <1>7, <1>8, <1>9, <1>10, <1>11, <1>12, <1>13,
     <1>14, <1>15 DEF WaitlistNext

-----------------------------------------------------------------------------
(* The histories *)

\* The bounds are kept.
LEMMA RepeatsCounted ==
  ASSUME WaitlistAssumption, repeats \in 0 .. MaxRepeats, NEW e, Repeats(e)
  PROVE  repeats' \in 0 .. MaxRepeats
<1>1. MaxRepeats \in Nat
  BY DEF WaitlistAssumption
<1>2. repeats' = repeats \/ (repeats < MaxRepeats /\ repeats' = repeats + 1)
  BY DEF Repeats
<1> QED
  BY <1>1, <1>2

LEMMA MishapCounted ==
  ASSUME WaitlistAssumption, mishaps \in 0 .. MaxMishaps, UNCHANGED mishaps \/ Mishap
  PROVE  mishaps' \in 0 .. MaxMishaps
<1>1. MaxMishaps \in Nat
  BY DEF WaitlistAssumption
<1> QED
  BY <1>1 DEF Mishap

LEMMA HistoryStays ==
  ASSUME WaitlistAssumption, HistoryInv, UNCHANGED history, UNCHANGED repeats,
         UNCHANGED mishaps \/ Mishap
  PROVE  HistoryInv'
<1>1. acked' = acked /\ granted' = granted /\ mailed' = mailed /\ exported' = exported
  BY DEF history
<1>2. mishaps' \in 0 .. MaxMishaps
  BY MishapCounted DEF HistoryInv
<1> QED
  BY <1>1, <1>2 DEF HistoryInv

\* and the histories.
LEMMA NextHistory ==
  ASSUME WaitlistInv, [WaitlistNext]_waitlistVars PROVE HistoryInv'
<1> USE DEF WaitlistInv
<1>1. ASSUME NEW e \in Emails, Signup(e) PROVE HistoryInv'
  <2>1. /\ acked' = acked \union {e} /\ granted' = granted /\ mailed' = mailed
        /\ exported' = exported /\ mishaps' = mishaps
    BY <1>1 DEF Signup, Save
  <2>2. repeats' \in 0 .. MaxRepeats
    BY <1>1, RepeatsCounted DEF Signup, HistoryInv
  <2> QED
    BY <2>1, <2>2 DEF HistoryInv
<1>2. ASSUME NEW e \in Emails, SignupThrows(e) PROVE HistoryInv'
  <2>1. acked' = acked /\ granted' = granted /\ mailed' = mailed /\ exported' = exported
    BY <1>2 DEF SignupThrows, history
  <2>2. repeats' \in 0 .. MaxRepeats
    BY <1>2, RepeatsCounted DEF SignupThrows, HistoryInv
  <2>3. mishaps' \in 0 .. MaxMishaps
    BY <1>2, MishapCounted DEF SignupThrows, SaveThrows, HistoryInv
  <2> QED
    BY <2>1, <2>2, <2>3 DEF HistoryInv
<1>3. ASSUME NEW e \in Emails, DeleteRow(e) PROVE HistoryInv'
  BY <1>3, HistoryStays DEF DeleteRow
<1>4. ASSUME NEW u \in Users, NEW mails \in SUBSET Inbox[u], Access(u, mails) PROVE HistoryInv'
  <2>1. acked' = acked /\ mailed' = mailed /\ exported' = exported /\ repeats' = repeats
    BY <1>4 DEF Access
  <2>2. mishaps' \in 0 .. MaxMishaps
    <3>1. UNCHANGED mishaps \/ Mishap
      BY <1>4 DEF Access, Save, SaveThrows
    <3> QED
      BY <3>1, MishapCounted DEF HistoryInv
  <2>3. DOMAIN entries \subseteq Emails
    BY DEF StoreInv, IsList
  <2>4. granted' \subseteq granted \union {<<u, e>> : e \in DOMAIN entries}
    BY <1>4 DEF Access, Bound, Redeemable
  <2>5. granted' \subseteq Users \X Emails
    BY <2>3, <2>4 DEF HistoryInv
  <2> QED
    BY <2>1, <2>2, <2>5 DEF HistoryInv
<1>5. CASE Sync
  BY <1>5, HistoryStays DEF Sync
<1>6. ASSUME NEW post, TrueExport(post, Told), TakeRows(post) PROVE HistoryInv'
  <2>1. /\ acked' = acked /\ granted' = granted /\ mailed' = mailed
        /\ exported' = exported \union DOMAIN post /\ repeats' = repeats /\ mishaps' = mishaps
    BY <1>6 DEF TakeRows
  <2>2. DOMAIN post \subseteq Emails
    BY <1>6 DEF TrueExport, Exports
  <2> QED
    BY <2>1, <2>2 DEF HistoryInv
<1>7. CASE SheetTakes \/ StrayTaken
  BY <1>6, <1>7 DEF SheetTakes, StrayTaken, ExportInv
<1>8. CASE Synced
  BY <1>8, HistoryStays DEF Synced, Save, SaveThrows
<1>9. CASE SyncFails
  BY <1>9, HistoryStays DEF SyncFails
<1>10. ASSUME NEW e \in Emails, NEW c \in Cohorts, Approve(e, c) PROVE HistoryInv'
  BY <1>10, HistoryStays DEF Approve
<1>11. CASE StartScript
  BY <1>11, HistoryStays DEF StartScript
<1>12. CASE EndScript
  BY <1>12, HistoryStays DEF EndScript
<1>13. ASSUME NEW members \in SUBSET Emails, NEW c \in Cohorts, Admit(members, c)
       PROVE  HistoryInv'
  BY <1>13, HistoryStays DEF Admit, Save, SaveThrows
<1>14. CASE Mail
  <2>1. /\ acked' = acked /\ granted' = granted /\ exported' = exported
        /\ mailed' = mailed \union {Current} /\ repeats' = repeats /\ mishaps' = mishaps
    BY <1>14 DEF Mail
  <2>2. Current \in admission.todo
    BY <1>14, CurrentIsTodo DEF Mail
  <2>3. Current \in Emails
    BY <2>2 DEF AdmissionInv
  <2> QED
    BY <2>1, <2>3 DEF HistoryInv
<1>15. CASE MailReturns
  BY <1>15, HistoryStays DEF MailReturns, Save, SaveThrows
<1>16. CASE MailFails
  BY <1>16, HistoryStays DEF MailFails
<1>17. CASE AdmitReturns
  BY <1>17, HistoryStays DEF AdmitReturns
<1>18. CASE AnswerLost
  BY <1>18, HistoryStays DEF AnswerLost
<1>19. CASE Restart
  BY <1>19, HistoryStays DEF Restart
<1>20. CASE UNCHANGED waitlistVars
  BY <1>20, HistoryStays DEF waitlistVars
<1> QED
  BY <1>1, <1>2, <1>3, <1>4, <1>5, <1>7, <1>8, <1>9, <1>10, <1>11, <1>12, <1>13, <1>14,
     <1>15, <1>16, <1>17, <1>18, <1>19, <1>20 DEF WaitlistNext

-----------------------------------------------------------------------------

\* The invariant holds at first, and every step keeps it.
LEMMA WaitlistInvInit == ASSUME WaitlistAssumption, WaitlistInit PROVE WaitlistInv
<1>1. IsList(<< >>) /\ DOMAIN << >> = {}
  <2>1. << >> \in [{} -> Entry] /\ DOMAIN << >> = {}
    OBVIOUS
  <2> QED
    BY <2>1 DEF IsList
<1>2. StoreInv
  BY <1>1 DEF WaitlistInit, StoreInv, Grows, Loads, PromisesKept, SyncedIsExported
<1>3. AdmissionInv
  BY DEF WaitlistInit, AdmissionInv, NoAdmission
<1>4. ExportInv
  BY NothingIsTrue DEF WaitlistInit, ExportInv
<1>5. SheetInv
  BY DEF WaitlistInit, SheetInv, None
<1>6. ScriptInv
  BY NoneQueued DEF WaitlistInit, ScriptInv
<1>7. HistoryInv
  BY DEF WaitlistInit, HistoryInv, WaitlistAssumption
<1> QED
  BY <1>2, <1>3, <1>4, <1>5, <1>6, <1>7 DEF WaitlistInv

LEMMA WaitlistInvNext == ASSUME WaitlistInv, [WaitlistNext]_waitlistVars PROVE WaitlistInv'
<1>1. StoreStep
  BY NextStore
<1>2. StoreInv'
  BY <1>1 DEF StoreStep
<1>3. WaitlistAssumption'
  BY DEF WaitlistInv, WaitlistAssumption
<1> QED
  BY <1>1, <1>2, <1>3, NextAdmission, NextExports, NextSheet, NextHistory DEF WaitlistInv

LEMMA WaitlistInvHolds == WaitlistSpec => []WaitlistInv
<1>1. WaitlistInit => WaitlistInv
  BY WaitlistInvInit, WaitlistAssumption
<1>2. WaitlistInv /\ [WaitlistNext]_waitlistVars => WaitlistInv'
  BY WaitlistInvNext
<1> QED
  BY <1>1, <1>2, PTL DEF WaitlistSpec

\* The store of waitlist.ts is well typed and can be loaded, and it keeps what was
\* answered: a signup, an account's approval, a mail that went out, whatever save
\* threw and wherever the writer was killed.
THEOREM StoreKeepsPromises == WaitlistSpec => []StoreHolds
<1>1. WaitlistInv => StoreHolds
  <2> SUFFICES ASSUME WaitlistInv PROVE StoreHolds
    OBVIOUS
  <2> USE DEF WaitlistInv
  <2>1. IsList(entries) /\ IsList(file) /\ failed \in BOOLEAN /\ Loads(file) /\ PromisesKept
    BY DEF StoreInv
  <2>2. running \in Exports /\ strays \subseteq Exports /\ taken \in BOOLEAN
    BY DEF ExportInv, TrueExport
  <2>3. admission \in [members : SUBSET Emails, todo : SUBSET Emails]
    BY DEF AdmissionInv
  <2>4. WaitlistTypeOK
    BY <2>1, <2>2, <2>3 DEF WaitlistTypeOK, SheetInv, ScriptInv, HistoryInv
  <2> QED
    BY <2>1, <2>4 DEF StoreHolds, FileLoads
<1> QED
  BY <1>1, WaitlistInvHolds, PTL

\* The sheet has one row for an email, however often and however late its exports
\* arrive (doPost of Code.gs).
THEOREM OneRowForEach == WaitlistSpec => []OneRowEach
<1>1. WaitlistInv => OneRowEach
  BY DEF WaitlistInv, SheetInv, OneRowEach
<1> QED
  BY <1>1, WaitlistInvHolds, PTL

\* A row that says its invitation was sent is one whose mail went out and whose
\* entry says so on file: what the script writes is what admit answered.
THEOREM SentWasMailed == WaitlistSpec => []SentIsMailed
<1>1. WaitlistInv => SentIsMailed
  BY DEF WaitlistInv, SheetInv, Told, SentIsMailed
<1> QED
  BY <1>1, WaitlistInvHolds, PTL

\* An entry is marked as exported only when the sheet has it (markSheetSynced).
THEOREM SyncedWasExported == WaitlistSpec => []SyncedIsExported
<1>1. WaitlistInv => SyncedIsExported
  BY DEF WaitlistInv, StoreInv
<1> QED
  BY <1>1, WaitlistInvHolds, PTL
=============================================================================
