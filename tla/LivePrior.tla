----------------------------- MODULE LivePrior -----------------------------
(***************************************************************************)
(* The live house prior (livePrior.ts): every tick asks, per game, the     *)
(* sources that know its odds, in their order, and records what the first  *)
(* of them said.  A lookup is cached, and retried when it found nothing;   *)
(* a token that lost its book is dropped; a jump suspends the leg.         *)
(*                                                                         *)
(* Time is kept as ages and as what is left: Pass moves all of them, one   *)
(* poll of the feed at a time.  What a turn awaits is used by no one else  *)
(* before it records, so that the turn of a market is one step; the        *)
(* members of a soccer question record together, at the end of the tick.   *)
(***************************************************************************)
EXTENDS Integers, FiniteSets, FiniteSetsExt

CONSTANTS
  Nfl,           \* games with one market each: all sources
  Soccer,        \* the markets of one soccer question: Polymarket only
  Lists,         \* what the registry may list of them
  Registry,      \* Registry[m]: priorYes, 0 without one
  WAD,           \* probability one
  Mids,          \* the odds that a source may give
  Jump, Suspend, Stale,   \* jumpWad, suspendMs, staleMs
  FailRetry, PmRetry,     \* after a lookup that threw, that found nothing
  MaxFaults      \* bound: answers that a source that lists the game fails to give

Markets == Nfl \union Soccer

ASSUME PriorAssumption ==
  /\ WAD \in Nat \ {0} /\ Mids \subseteq 1 .. WAD - 1
  /\ Registry \in [Markets -> 0 .. WAD - 1]
  /\ {Jump, Suspend, Stale, FailRetry, PmRetry} \subseteq Nat
  /\ Nfl \intersect Soccer = {} /\ Lists \subseteq SUBSET Markets
  /\ IsFiniteSet(Soccer) /\ MaxFaults \in Nat

VARIABLES
  tracked,       \* the markets that this writer started with
  pm, mn,        \* the cached lookup of each market: Polymarket, mainnet
  sample,        \* the last answer and its age
  suspended,     \* what is left of the suspension
  final,
  phase,         \* of the games: "pregame", "play", past their "expiry"
  listed,        \* the markets that Polymarket lists
  leapt,         \* how long ago two consecutive samples were far apart
  whole,         \* the question's last round had every member
  faults

market == <<pm, mn, sample, suspended, final>>
priorVars == <<tracked, market, phase, listed, leapt, whole, faults>>

NoSample == [yes |-> 0, age |-> 0]
Unresolved == [value |-> "unresolved", retry |-> 0]
Found == [value |-> "token", retry |-> 0]
NotFound(retry) == [value |-> "none", retry |-> retry]

PriorTypeOK ==
  LET lookup == [value : {"unresolved", "none", "token"}, retry : 0 .. Max({FailRetry, PmRetry})]
  IN /\ tracked \in Lists
     /\ pm \in [Markets -> lookup] /\ mn \in [Nfl -> lookup]
     /\ sample \in [Markets -> [yes : 0 .. WAD, age : 0 .. Stale + 1]]
     /\ suspended \in [Markets -> 0 .. Suspend] /\ leapt \in [Markets -> 0 .. Suspend]
     /\ final \in [Markets -> BOOLEAN] /\ phase \in {"pregame", "play", "expiry"}
     /\ listed \subseteq Markets /\ whole \in BOOLEAN /\ faults \in 0 .. MaxFaults

PriorInit ==
  /\ tracked \in Lists
  /\ pm = [m \in Markets |-> Unresolved] /\ mn = [m \in Nfl |-> Unresolved]
  /\ sample = [m \in Markets |-> NoSample]
  /\ suspended = [m \in Markets |-> 0] /\ leapt = [m \in Markets |-> Suspend]
  /\ final = [m \in Markets |-> FALSE]
  /\ phase = "pregame" /\ listed = {} /\ whole = FALSE /\ faults = 0

Fault == faults < MaxFaults /\ faults' = faults + 1

-----------------------------------------------------------------------------
(* The sources.  An outcome is the lookup it leaves and what it answered   *)

Nothing == 0     \* null: ask the next source
Throws == -1     \* the market's turn ends

\* resolveCached looks the game up.  Mutant: what was not found is not retried.
DueOnce(r) == r.value = "unresolved"
Due(r) == r.value = "unresolved" \/ (r.value = "none" /\ r.retry = 0)
Known(r) == r.value = "none" /\ ~Due(r)

Outcome(r, answer) == [next |-> r, answer |-> answer]

\* A listing of Polymarket that is the game's or the question member's: by its slug
\* and date, by the question's text
Matched(m) == m \in listed

\* What a source that lists the game, or does not, may do when it works
PolymarketSays(m) ==
  IF Known(pm[m]) THEN {Outcome(pm[m], Nothing)}
  ELSE IF Matched(m) THEN {Outcome(Found, mid) : mid \in Mids}
  ELSE {Outcome(NotFound(PmRetry), Nothing)}

\* And when it does not: the search throws, the midpoint does or is not a price
PolymarketFails(m) ==
  (IF Due(pm[m]) THEN {Outcome(NotFound(FailRetry), Throws)} ELSE {})
    \union (IF pm[m].value = "token" \/ (Due(pm[m]) /\ Matched(m))
            THEN {Outcome(Found, Throws), Outcome(Found, Nothing)} ELSE {})

\* Mainnet: any book error drops the coin, a book that is too wide is skipped
MainnetSays(m) ==
  IF Known(mn[m]) THEN {Outcome(mn[m], Nothing)}
  ELSE {Outcome(NotFound(PmRetry), Nothing)} \union {Outcome(Found, mid) : mid \in Mids \union {Nothing}}

MainnetFails(m) == IF Due(mn[m]) THEN {Outcome(NotFound(FailRetry), Throws)} ELSE {}

-----------------------------------------------------------------------------
(* Recording *)

Far(a, b) == a > b + Jump \/ b > a + Jump

\* A jump on what was said last suspends the market
Leaps(m, yes) == sample[m] # NoSample /\ Far(yes, sample[m].yes)

\* Mutant: a calm sample ends the suspension.
SuspendedUntilCalm(m, yes) == IF Leaps(m, yes) THEN Suspend ELSE 0
SuspendedUntil(m, yes) == IF Leaps(m, yes) THEN Suspend ELSE suspended[m]

\* record, for the markets that said[m] speaks of
Record(said) ==
  LET new == DOMAIN said
  IN /\ sample' = [m \in Markets |-> IF m \in new THEN [yes |-> said[m], age |-> 0] ELSE sample[m]]
     /\ suspended' = [m \in Markets |-> IF m \in new THEN SuspendedUntil(m, said[m]) ELSE suspended[m]]
     /\ leapt' = [m \in Markets |-> IF m \in new /\ Leaps(m, said[m]) THEN 0 ELSE leapt[m]]

\* ESPN: the game in play, or over, or neither, or the call throws
Espn(m) ==
  \/ UNCHANGED <<sample, suspended, leapt, final>>
  \/ phase = "play" /\ (\E mid \in Mids : Record([x \in {m} |-> mid])) /\ UNCHANGED final
  \/ phase = "play" /\ final' = [final EXCEPT ![m] = TRUE] /\ UNCHANGED <<sample, suspended, leapt>>

\* What Polymarket answered, or the turn of ESPN
Hear(m, answer) ==
  CASE answer = Nothing -> Espn(m)
    [] answer = Throws -> UNCHANGED <<sample, suspended, leapt, final>>
    [] OTHER -> Record([x \in {m} |-> answer]) /\ UNCHANGED final

AskPolymarket(m) ==
  \/ \E o \in PolymarketSays(m) :
       pm' = [pm EXCEPT ![m] = o.next] /\ Hear(m, o.answer) /\ UNCHANGED faults
  \/ \E o \in PolymarketFails(m) :
       pm' = [pm EXCEPT ![m] = o.next] /\ Hear(m, o.answer) /\ Fault

\* The turn of a game's market in a tick
Turn(m) ==
  /\ m \in tracked /\ ~final[m] /\ phase # "expiry"
  /\ \/ \E o \in MainnetSays(m) :
          /\ mn' = [mn EXCEPT ![m] = o.next]
          /\ IF o.answer = Nothing THEN AskPolymarket(m)
             ELSE Record([x \in {m} |-> o.answer]) /\ UNCHANGED <<pm, final, faults>>
     \/ \E o \in MainnetFails(m) :
          /\ Fault /\ mn' = [mn EXCEPT ![m] = o.next]
          /\ UNCHANGED <<pm, sample, suspended, leapt, final>>
  /\ UNCHANGED <<tracked, phase, listed, whole>>

Members == Soccer \intersect tracked

\* Scaled to sum to one when every member of the question spoke.
\* Mutant: divided before it is multiplied.
ScaledEarly(said) ==
  LET sum == MapThenSumSet(LAMBDA m : said[m], DOMAIN said)
  IN IF DOMAIN said = Members THEN [m \in Members |-> (said[m] \div sum) * WAD] ELSE said
Scaled(said) ==
  LET sum == MapThenSumSet(LAMBDA m : said[m], DOMAIN said)
  IN IF DOMAIN said = Members THEN [m \in Members |-> (said[m] * WAD) \div sum] ELSE said

\* The question's part of a tick
Round ==
  /\ Members # {} /\ phase # "expiry"
  /\ \E failing \in SUBSET Members :
     \E o \in [Members -> UNION {PolymarketSays(m) \union PolymarketFails(m) : m \in Members}] :
       /\ \A m \in Members : o[m] \in IF m \in failing THEN PolymarketFails(m) ELSE PolymarketSays(m)
       /\ faults' = faults + Cardinality(failing) /\ faults' <= MaxFaults
       /\ pm' = [m \in Markets |-> IF m \in Members THEN o[m].next ELSE pm[m]]
       /\ LET spoke == {m \in Members : o[m].answer > 0}
          IN Record(Scaled([m \in spoke |-> o[m].answer])) /\ whole' = (spoke = Members)
  /\ UNCHANGED <<tracked, mn, final, phase, listed>>

-----------------------------------------------------------------------------
(* The world *)

\* Mutant: what is over goes on.
LessThanNone(n) == n - 1
Less(n) == IF n = 0 THEN 0 ELSE n - 1

\* One poll interval
Pass ==
  /\ pm' = [m \in Markets |-> [pm[m] EXCEPT !.retry = Less(@)]]
  /\ mn' = [m \in Nfl |-> [mn[m] EXCEPT !.retry = Less(@)]]
  /\ sample' = [m \in Markets |-> IF sample[m] = NoSample \/ sample[m].age > Stale THEN sample[m]
                                  ELSE [sample[m] EXCEPT !.age = @ + 1]]
  /\ suspended' = [m \in Markets |-> Less(suspended[m])]
  /\ leapt' = [m \in Markets |-> IF leapt[m] = Suspend THEN Suspend ELSE leapt[m] + 1]
  /\ UNCHANGED <<tracked, final, phase, listed, whole, faults>>

GamesMove ==
  /\ \/ phase = "pregame" /\ phase' = "play"
     \/ phase = "play" /\ phase' = "expiry"
  /\ UNCHANGED <<tracked, market, listed, leapt, whole, faults>>

ListOrDelist(m) ==
  /\ listed' = IF m \in listed THEN listed \ {m} ELSE listed \union {m}
  /\ UNCHANGED <<tracked, market, phase, leapt, whole, faults>>

PriorNext ==
  \/ \E m \in Nfl : Turn(m)
  \/ Round \/ Pass \/ GamesMove
  \/ \E m \in tracked : ListOrDelist(m)

PriorSpec == PriorInit /\ [][PriorNext]_priorVars

\* The feed ticks for ever, and every call that it awaits times out
Fairness ==
  /\ \A m \in Nfl : WF_priorVars(Turn(m))
  /\ WF_priorVars(Round) /\ WF_priorVars(Pass)

PriorFairSpec == PriorSpec /\ Fairness

-----------------------------------------------------------------------------
(* Prices *)

Fresh(m) == sample[m] # NoSample /\ sample[m].age <= Stale

Live(m) == Fresh(m) /\ ~final[m] /\ suspended[m] = 0

\* P(YES) for the quotes and for /markets, 0 for none
Prior(m) ==
  IF Live(m) THEN sample[m].yes ELSE IF phase = "pregame" THEN Registry[m] ELSE 0

-----------------------------------------------------------------------------
(* Properties *)

\* A live price is served only when the last jump is suspendMs ago, whatever
\* was recorded after the jump.
JumpsSuspend == \A m \in Markets : Live(m) => leapt[m] = Suspend

\* What the priors of the question sum to
Certainty == MapThenSumSet(LAMBDA m : sample[m].yes, Members)

\* After a round in which all members of a question spoke, the priors of the
\* question sum to one but for the rounding, and none of them exceeds it.
QuestionSumsToOne ==
  whole => Certainty <= WAD /\ Certainty > WAD - Cardinality(Members)

\* What the pricer is given: well typed, live only long after a jump, and of a
\* question that was heard whole no more than certainty in all.
PricesSound == PriorTypeOK /\ JumpsSuspend /\ QuestionSumsToOne

\* A game that Polymarket lists gets a fresh sample in the end, late listings,
\* dropped tokens and failed lookups notwithstanding.
ListedGamesSampled ==
  \A m \in Markets : m \in listed ~> (Fresh(m) \/ m \notin listed \/ final[m] \/ phase = "expiry")

\* What the header of livePrior.ts says of a suspension: the leg is refused.
SuspendedIsRefused == \A m \in Markets : suspended[m] > 0 => Prior(m) = 0
=============================================================================
