----------------------------- MODULE QuotePath -----------------------------
(***************************************************************************)
(* A POST /quote from its arrival to the signed offer (handleQuote): the   *)
(* limiter, the account, the validation, the price of each leg, the        *)
(* wallet's room, the offer.  What it awaits takes time, and the clock     *)
(* moves on between the checks; the book of exposure that the offer must   *)
(* fit is WriterBook's, here any headroom.                                 *)
(***************************************************************************)
EXTENDS Pricing, FiniteSets

CONSTANTS
  Markets,
  Game, Question,     \* Game[m]: underlying; Question[m]: 0 without one
  Expires,            \* Expires[m]: expiryMs
  Books, Odds,        \* what the order book and the prior, or the spot price, may say
  Stakes, MaxStake,
  MinLegs, MaxLegs,
  EdgeBps, LegBps, MinPremiumBps,
  MinDepth,
  Width,              \* the payouts that fit the contract's uint96
  Lockout, SpotStale, Ttl,
  Limit, Window,      \* of the quote limiter
  MaxLatency,         \* the time that the awaited calls take before they time out
  MaxTime, MaxRequests

ASSUME QuoteAssumption ==
  /\ Stakes \subseteq Int /\ Odds \subseteq 1 .. WAD
  /\ {MaxStake, MinLegs, MaxLegs, EdgeBps, LegBps, MinDepth, Lockout, SpotStale, Ttl} \subseteq Nat
  /\ {MaxLatency, MaxTime} \subseteq Nat
  /\ {MinPremiumBps, Limit, Window, Width} \subseteq Nat \ {0}
  /\ Expires \in [Markets -> Int]
  \* The lockout is longer than a quote takes and lives
  /\ Lockout > MaxLatency + Ttl

VARIABLES
  now,
  hits,          \* of one visitor: the limiter's list
  served,        \* when it let the visitor through
  request,       \* the request under way, or how the last one was answered
  lastFresh      \* per coin, the last real ask

vars == <<now, hits, served, request, lastFresh>>

Never == -1
Answered == [at |-> "answered"]
UnderWay == request.at \in {"auth", "pricing", "room"}

Legs == UNION {[1 .. n -> Markets] : n \in 0 .. MaxLegs + 1}

Init ==
  /\ now = 0 /\ hits = << >> /\ served = << >>
  /\ request = Answered
  /\ lastFresh = [m \in Markets |-> Never]

-----------------------------------------------------------------------------
(* The limiter *)

\* The hits of the last window, in their order
Recent(hs) ==
  LET kept[i \in 0 .. Len(hs)] ==
        IF i = 0 THEN << >>
        ELSE IF now - hs[i] < Window THEN Append(kept[i - 1], hs[i]) ELSE kept[i - 1]
  IN kept[Len(hs)]

\* Mutant: a visitor is forgotten with the first hit.
SweptByFirst(hs) == IF hs # << >> /\ now - Head(hs) >= Window THEN << >> ELSE hs
\* Visitors whose last hit is past are dropped at every check
Swept(hs) == IF hs # << >> /\ now - Last(hs) >= Window THEN << >> ELSE hs

\* Mutant: one too many.
OverFull(recent) == Len(recent) > Limit
Full(recent) == Len(recent) >= Limit

Arrive(legs, stake) ==
  LET recent == Recent(Swept(hits))
  IN /\ ~UnderWay /\ Len(served) < MaxRequests
     /\ IF Full(recent)
        THEN hits' = recent /\ request' = Answered /\ UNCHANGED served
        ELSE /\ hits' = Append(recent, now) /\ served' = Append(served, now)
             /\ request' = [at |-> "auth", since |-> now, legs |-> legs, stake |-> stake]
     /\ UNCHANGED <<now, lastFresh>>

-----------------------------------------------------------------------------
(* Validation *)

\* Mutant: open until the end.
LockedAtExpiry(m) == now >= Expires[m]
Locked(m) == now >= Expires[m] - Lockout

SameGame(legs) ==
  \E i, j \in DOMAIN legs :
    /\ i # j
    /\ \/ Game[legs[i]] = Game[legs[j]]
       \/ Question[legs[i]] # 0 /\ Question[legs[i]] = Question[legs[j]]

Valid(legs, stake) ==
  /\ Len(legs) \in MinLegs .. MaxLegs
  /\ \A i \in DOMAIN legs : ~Locked(legs[i])
  /\ ~SameGame(legs)
  /\ stake > 0 /\ stake <= MaxStake

\* The account was read, and the body is looked at
Validate ==
  /\ request.at = "auth"
  /\ request' = IF Valid(request.legs, request.stake) THEN [request EXCEPT !.at = "pricing"] ELSE Answered
  /\ UNCHANGED <<now, hits, served, lastFresh>>

\* A rejection, or a call that failed: 401, 403, 409, 503
Drop ==
  /\ UnderWay /\ request' = Answered
  /\ UNCHANGED <<now, hits, served, lastFresh>>

-----------------------------------------------------------------------------
(* Prices *)

SpotPxStale(m) == SpotStale > 0 /\ (lastFresh[m] = Never \/ now - lastFresh[m] > SpotStale)

\* Core's price of an empty book
Placeholder == WAD \div 2

\* A book that is not too thin
Ask == {[source |-> "l2Book", price |-> BestAsk(asks, MinDepth)] :
          asks \in {b \in Books : BestAsk(b, MinDepth) > 0}}

\* What the registry and the live feed, LivePrior, may say of a coin
Prior == {[source |-> "prior", price |-> p] : p \in Odds}

\* What a leg's price may turn out to be: an ask, else the prior, else the spot
\* price if an ask was seen lately
Observed(m) ==
  Ask \union Prior
    \union (IF SpotPxStale(m) THEN {}
            ELSE {[source |-> "spotPx", price |-> p] : p \in Odds \ {Placeholder}})

\* The request, with the prices it was given
Priced(seen) ==
  [at |-> "room", since |-> request.since, legs |-> request.legs, stake |-> request.stake,
   prices |-> [i \in DOMAIN seen |-> seen[i].price]]

\* The coins whose ask was seen
Refreshed(priced, seen) ==
  [m \in Markets |->
     IF \E i \in priced : request.legs[i] = m /\ seen[i].source = "l2Book" THEN now
     ELSE lastFresh[m]]

\* The legs are read together; a leg without a price drops the request, but the
\* asks of the others were seen
FetchPrices ==
  /\ request.at = "pricing"
  /\ \E priced \in SUBSET DOMAIN request.legs :
     \E seen \in [priced -> UNION {Observed(m) : m \in Markets}] :
       /\ \A i \in priced : seen[i] \in Observed(request.legs[i])
       /\ lastFresh' = Refreshed(priced, seen)
       /\ request' = IF priced # DOMAIN request.legs THEN Answered
                     ELSE Priced(seen)
  /\ UNCHANGED <<now, hits, served>>

-----------------------------------------------------------------------------
(* The offer *)

Payout(prices, stake) ==
  PayoutAt(stake, PriceOf(Joint(prices), TotalEdge(Len(prices), EdgeBps, LegBps)), MinPremiumBps)

\* priceParlay's and dominatingLeg's refusals
Offered(prices, stake) ==
  LET joint == Joint(prices)
      price == PriceOf(joint, TotalEdge(Len(prices), EdgeBps, LegBps))
      payout == Payout(prices, stake)
  IN /\ joint \in 1 .. WAD - 1 /\ price < WAD
     /\ payout > stake /\ payout < Width
     /\ ~Dominated(prices, stake, payout)

\* The quote that is signed, and the prices that it was made from
Quote ==
  [at |-> "quoted", payout |-> Payout(request.prices, request.stake),
   premium |-> request.stake, prices |-> request.prices, legs |-> request.legs,
   deadline |-> now + Ttl]

\* The wallet's room is read; the offer fits the caps and is signed
Sign ==
  /\ request.at = "room" /\ Offered(request.prices, request.stake)
  /\ request' = Quote
  /\ UNCHANGED <<now, hits, served, lastFresh>>

\* It does not fit: the answer is the stake that would
Refuse ==
  /\ request.at = "room" /\ Offered(request.prices, request.stake)
  /\ \E headroom \in 0 .. Payout(request.prices, request.stake) - request.stake - 1 :
       request' = [at |-> "refused", prices |-> request.prices,
                   headroom |-> headroom,
                   maxStake |-> FitStake(request.stake, headroom,
                                         Payout(request.prices, request.stake) - request.stake)]
  /\ UNCHANGED <<now, hits, served, lastFresh>>

-----------------------------------------------------------------------------

Tick ==
  /\ now < MaxTime /\ now' = now + 1
  /\ ~(UnderWay /\ now >= request.since + MaxLatency)
  /\ UNCHANGED <<hits, served, request, lastFresh>>

Next ==
  \/ \E legs \in Legs, stake \in Stakes : Arrive(legs, stake)
  \/ Validate \/ FetchPrices \/ Sign \/ Refuse \/ Drop
  \/ Tick

Spec == Init /\ [][Next]_vars

-----------------------------------------------------------------------------
(* Properties *)

Quoted == request.at = "quoted"

TypeOK ==
  /\ now \in 0 .. MaxTime /\ hits \in Seq(0 .. MaxTime) /\ served \in Seq(0 .. MaxTime)
  /\ Len(hits) <= Limit
  /\ lastFresh \in [Markets -> Never .. MaxTime]
  /\ request.at \in {"answered", "auth", "pricing", "room", "refused", "quoted"}
  /\ UnderWay => request.legs \in Legs /\ request.stake \in Stakes
  /\ Quoted => request.payout \in 0 .. Width - 1

\* What the writer signs, ParlayVault.mint takes: a positive premium below the
\* payout and not below the contract's share of it.
PricedIsAccepted ==
  Quoted =>
    /\ request.premium > 0 /\ request.premium < request.payout
    /\ request.premium * BPS >= request.payout * MinPremiumBps

\* The house never sells above fair value: the payout, weighed with the joint
\* probability that the prices give, is not more than the premium.
NeverBetterThanFair ==
  Quoted => request.payout * Joint(request.prices) <= request.premium * WAD

\* The stake that a refusal advertises fits the headroom that was left, at the
\* same prices: asking again with it is not refused for that cap.
FitStakeFits ==
  request.at = "refused" =>
    Payout(request.prices, request.maxStake) - request.maxStake <= request.headroom

\* The terms of a quote, and of a refusal, are sound.
SoundTerms == PricedIsAccepted /\ NeverBetterThanFair /\ FitStakeFits

\* No quote can still be minted when a market of it expires, however late the
\* checks that it passed were followed by the signature.
QuoteEndsBeforeExpiry ==
  Quoted => \A i \in DOMAIN request.legs : request.deadline < Expires[request.legs[i]]

\* In no window does a visitor get more than the limit, whatever was swept.
RateHeld ==
  TypeOK /\ \A i \in DOMAIN served : Cardinality({j \in DOMAIN served :
                             served[j] >= served[i] /\ served[j] - served[i] < Window}) <= Limit
=============================================================================
