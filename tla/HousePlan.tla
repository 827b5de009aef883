----------------------------- MODULE HousePlan -----------------------------
(***************************************************************************)
(* The pure half of the house tools (tools/house-lib.mjs): which of our    *)
(* contracts on Core a sync settles and at what, and how many new ones it  *)
(* may register on each venue.  A contract is one fixture listed for one   *)
(* kickoff: a standalone game (one outcome) or a question with a member    *)
(* per side and a fallback.                                                *)
(***************************************************************************)
EXTENDS Integers, Sequences, FiniteSets, FiniteSetsExt

CONSTANTS
    Standalone,     \* games listed as one Yes/No outcome
    Matches,        \* games listed as a question
    Sides,          \* the sides of a question, "draw" among them
    MaxActive,      \* HOUSE_MAX_ACTIVE: outcomes we keep on a venue
    StandaloneMax,  \* HOUSE_NFL_MAX_ACTIVE: standalone games over both venues
    Deadline,       \* kickoff to resolution deadline
    Horizon,        \* how long before its kickoff a fixture may be listed
    MinWindow,      \* pre-kickoff trading a fixture must still have
    Back            \* how long after its kickoff ESPN's answer has a fixture

Games == Standalone \cup Matches
Venues == {1, 2}    \* flip, which is filled first, and flp
NoResult == "no result"

ASSUME PlanAssumption ==
    /\ IsFiniteSet(Games) /\ IsFiniteSet(Sides) /\ Standalone \cap Matches = {} /\ "draw" \in Sides
    /\ {MaxActive, StandaloneMax, Deadline, Horizon, MinWindow, Back} \subseteq Nat

\* The outcomes contract c = <<game, start>> takes of its venue's budget.
Slots(c) == IF c[1] \in Standalone THEN 1 ELSE Cardinality(Sides) + 1

\* The outcomes that contracts take together.
Taken(contracts) == FoldSet(LAMBDA c, n : n + Slots(c), 0, contracts)

Expiry(c) == c[2] + Deadline

(***************************************************************************)
(* The fixture a sync takes contract c to be about, given the fixtures     *)
(* ESPN answered with: a standalone game by its exact kickoff, a question  *)
(* by the pairing and a kickoff within the deadline window, since ESPN     *)
(* moves kickoffs after we register.                                       *)
(***************************************************************************)
Distance(a, b) == IF a < b THEN b - a ELSE a - b
HasFixture(c, fixtures) ==
    /\ c[1] \in DOMAIN fixtures
    /\ Distance(fixtures[c[1]].kickoff, c[2]) <= (IF c[1] \in Standalone THEN 0 ELSE Deadline)
Final(c, fixtures) == HasFixture(c, fixtures) /\ fixtures[c[1]].final # NoResult

\* Mutant: a question without a fixture is settled by its deadline all the same.
SettledBlind(c, fixtures, at) == Final(c, fixtures) \/ Expiry(c) <= at

\* c is settled by a sync that runs at that time: its game is final, or its
\* deadline has passed; a question only when ESPN still knows the match.
IsSettling(c, fixtures, at) ==
    \/ Final(c, fixtures)
    \/ Expiry(c) <= at /\ (c[1] \in Standalone \/ HasFixture(c, fixtures))

\* What c is settled at: the side that won; without a result the draw, which
\* for a standalone game is a half to each side.
Pays(c, fixtures) == IF Final(c, fixtures) THEN fixtures[c[1]].final ELSE "draw"

(***************************************************************************)
(* The room of the venues.  active[v] is what venue v holds of ours beside *)
(* the contracts being settled; Filled gives want places to the venues in  *)
(* order, each no more than its room.                                      *)
(***************************************************************************)
Least(a, b) == IF a < b THEN a ELSE b
Positive(n) == IF n > 0 THEN n ELSE 0
Filled(room, want) ==
    LET first == Least(room[1], want) IN <<first, Least(room[2], want - first)>>
Both(f) == f[1] + f[2]

Free(active) == [v \in Venues |-> Positive(MaxActive - active[v])]
GameRoom(listed) == Positive(StandaloneMax - listed)
GamePlaces(active, listed, wanted) == Filled(Free(active), Least(GameRoom(listed), wanted))

\* Mutant: the places this run's games take are not counted.
PlacesBefore(active, listed, games, wanted) ==
    Filled([v \in Venues |-> Free(active)[v] \div (Cardinality(Sides) + 1)], wanted)

\* Questions take what the standalone budget leaves; its unused part stays
\* reserved, on the first venue first.
QuestionPlaces(active, listed, games, wanted) ==
    LET left == [v \in Venues |-> Free(active)[v] - games[v]]
        held == Filled(left, GameRoom(listed) - Both(games))
    IN Filled([v \in Venues |-> (left[v] - held[v]) \div (Cardinality(Sides) + 1)], wanted)

\* A fixture worth a slot: pre-kickoff trading is left and the horizon reached.
InWindow(fixture, at) == fixture.kickoff - at \in MinWindow..Horizon
=============================================================================
