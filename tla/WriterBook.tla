---------------------------- MODULE WriterBook ----------------------------
(***************************************************************************)
(* The writer: quotes that reserve exposure (server.ts), the book of       *)
(* reservations and open tickets (exposure.ts) and the poker that turns    *)
(* one into the other as it scans the chain, and resolves what can no      *)
(* longer pay out (poker.ts).  The caps are the writer's alone: the        *)
(* contract mints whatever was signed.                                     *)
(*                                                                         *)
(* A step is what runs between two awaits.  Requests, the poker and the    *)
(* takers' mints interleave; calls fail; the process restarts with an      *)
(* empty book.  Quotes are numbered in place of their quoteIds; a ticket    *)
(* has the number of its quote.                                            *)
(***************************************************************************)
EXTENDS Integers, Sequences

CONSTANTS
  QuoteCount,    \* bound: how many quotes are asked for
  Vaults,        \* the markets
  Legs,          \* Legs[q]: the side of each market that q bets on
  Risk,          \* Risk[q]: maxPayout - premium
  User,          \* User[q]: the account the quote counts against
  Clusters,      \* the exposure groups: sets of markets
  VaultCaps,     \* perMarketCap, before and during a game
  ClusterCap,    \* perClusterCap
  UserCap,       \* perCodeReservedCap
  Outcomes,      \* Outcomes[v]: the fractions v may settle to, "zero", "part", "one"
  Bankroll,      \* what the writer's wallet holds and the vault may pull
  Ttl,           \* quoteTtlMs
  Grace,         \* reservationGraceMs
  Lag,           \* how far block time is behind the writer's clock
  PollDelay,     \* within this time the poker books a mint
  MaxTime, MaxMishaps  \* bounds

Quotes == 1 .. QuoteCount

ASSUME WriterAssumption ==
  /\ \A q \in Quotes : Legs[q] \in [DOMAIN Legs[q] -> {"yes", "no"}]
  /\ \A q \in Quotes : DOMAIN Legs[q] \subseteq Vaults /\ Risk[q] \in Nat
  /\ Clusters \subseteq SUBSET Vaults
  /\ Outcomes \in [Vaults -> SUBSET {"zero", "part", "one"}]
  /\ VaultCaps \subseteq Nat /\ VaultCaps # {}
  /\ {ClusterCap, UserCap, Bankroll, Ttl, Grace, Lag, PollDelay} \subseteq Nat
  /\ {QuoteCount, MaxTime, MaxMishaps} \subseteq Nat

VARIABLES
  now,           \* the writer's clock
  room,          \* min(allowance, balance) of the writer's wallet
  fraction,      \* what each leg's vault settled to
  ticket,        \* ParlayVault: "none", "open", "resolved"
  mintedAt,      \* while the poker has yet to book it
  logs,          \* ParlayMinted and ParlayResolved events
  request,       \* where each /quote request is
  allowance,     \* the room that a request read
  deadline,      \* what the signed quote says
  reservations,  \* expiresAt of each reservation, None without one
  open,          \* the tickets booked as open exposure
  pc,            \* the poker: "down", "seeding", "idle", "booking", "poking"
  nextBlock,     \* events scanned so far, or at seed the head
  batch,         \* what fetchEvents returned: the logs of mints still to book, those of
                 \* resolutions, toBlock
  toPoke,        \* the tickets this tick has yet to poke
  scannedTo,     \* the taker index on disk
  forgotten,     \* quotes that a restart forgot while they could be minted
  mishaps        \* crashes and failed calls

chain == <<room, fraction, ticket, mintedAt, logs>>
desk == <<request, allowance, deadline>>
poker == <<pc, nextBlock, batch, toPoke>>
vars == <<now, chain, desk, reservations, open, poker, scannedTo, forgotten, mishaps>>

None == -1
Event == [kind : {"minted", "resolved"}, id : Quotes]
NoBatch == [minted |-> {}, resolved |-> {}, toBlock |-> 0]

TypeOK ==
  /\ now \in 0 .. MaxTime
  /\ room \in 0 .. Bankroll
  /\ fraction \in [Vaults -> {"unsettled", "zero", "part", "one"}]
  /\ ticket \in [Quotes -> {"none", "open", "resolved"}]
  /\ mintedAt \in [Quotes -> 0 .. MaxTime]
  /\ logs \in Seq(Event)
  /\ request \in [Quotes -> {"new", "priced", "signing", "quoted", "rejected"}]
  /\ allowance \in [Quotes -> 0 .. Bankroll]
  /\ deadline \in [Quotes -> 0 .. MaxTime + Ttl]
  /\ reservations \in [Quotes -> {None} \union 0 .. MaxTime + Ttl]
  /\ open \subseteq Quotes
  /\ pc \in {"down", "seeding", "idle", "booking", "poking"}
  /\ nextBlock \in 0 .. Len(logs)
  /\ batch \in [minted : SUBSET DOMAIN logs, resolved : SUBSET DOMAIN logs,
               toBlock : 0 .. Len(logs)]
  /\ toPoke \subseteq Quotes
  /\ scannedTo \in 0 .. Len(logs)
  /\ forgotten \subseteq Quotes
  /\ mishaps \in 0 .. MaxMishaps

Init ==
  /\ now = 0
  /\ room = Bankroll
  /\ fraction = [v \in Vaults |-> "unsettled"]
  /\ ticket = [q \in Quotes |-> "none"]
  /\ mintedAt = [q \in Quotes |-> 0]
  /\ logs = << >>
  /\ request = [q \in Quotes |-> "new"]
  /\ allowance = [q \in Quotes |-> 0]
  /\ deadline = [q \in Quotes |-> 0]
  /\ reservations = [q \in Quotes |-> None]
  /\ open = {}
  /\ pc = "down"
  /\ nextBlock = 0
  /\ batch = NoBatch
  /\ toPoke = {}
  /\ scannedTo = 0
  /\ forgotten = {}
  /\ mishaps = 0

\* The risk of a set of quotes.
RiskOf(set) ==
  LET sum[q \in 0 .. QuoteCount] ==
        IF q = 0 THEN 0 ELSE sum[q - 1] + (IF q \in set THEN Risk[q] ELSE 0)
  IN sum[QuoteCount]
Mishap == mishaps < MaxMishaps /\ mishaps' = mishaps + 1

BetsOn(q, v) == v \in DOMAIN Legs[q]
BetsIn(q, c) == DOMAIN Legs[q] \cap c # {}

-----------------------------------------------------------------------------
(***************************************************************************)
(* The book.  pruneExpired runs before every read: a reservation counts    *)
(* until its deadline and the grace have passed.                           *)
(***************************************************************************)
\* Mutant: no grace for a mint that the poker has not seen yet.
NoGrace(q) == reservations[q] # None /\ now < reservations[q]
Reserved(q) == reservations[q] # None /\ now < reservations[q] + Grace

\* Mutant: minted tickets leave the caps.
ReservedOnly(q) == Reserved(q)
Booked(q) == Reserved(q) \/ q \in open

Reserve(q) == reservations' = [reservations EXCEPT ![q] = now + Ttl]
Release(q) == reservations' = [reservations EXCEPT ![q] = None]

Fits(q, cap) ==
  /\ Risk[q] <= allowance[q] - RiskOf({r \in Quotes : Reserved(r)})
  /\ \A v \in DOMAIN Legs[q] :
       Risk[q] <= cap - RiskOf({r \in Quotes : Booked(r) /\ BetsOn(r, v)})
  /\ \A c \in Clusters : BetsIn(q, c) =>
       Risk[q] <= ClusterCap - RiskOf({r \in Quotes : Booked(r) /\ BetsIn(r, c)})
  /\ Risk[q] <= UserCap - RiskOf({r \in Quotes : Reserved(r) /\ User[r] = User[q]})

-----------------------------------------------------------------------------
(***************************************************************************)
(* A /quote request: price, then reserveAndSign, which checks and reserves *)
(* without an await between, then the signature and the journal.           *)
(***************************************************************************)
Seeded == pc \in {"idle", "booking", "poking"}
AllUnsettled(q) == \A v \in DOMAIN Legs[q] : fraction[v] = "unsettled"

Price(q) ==
  /\ Seeded
  /\ request[q] = "new"
  /\ IF AllUnsettled(q)
       THEN /\ request' = [request EXCEPT ![q] = "priced"]
            /\ allowance' = [allowance EXCEPT ![q] = room]
       ELSE /\ request' = [request EXCEPT ![q] = "rejected"]
            /\ UNCHANGED allowance
  /\ UNCHANGED <<now, chain, deadline, reservations, open, poker, scannedTo, forgotten, mishaps>>

CheckAndReserve(q, cap) ==
  /\ request[q] = "priced"
  /\ IF Fits(q, cap)
       THEN /\ request' = [request EXCEPT ![q] = "signing"]
            /\ Reserve(q)
            /\ deadline' = [deadline EXCEPT ![q] = now + Ttl]
       ELSE /\ request' = [request EXCEPT ![q] = "rejected"]
            /\ UNCHANGED <<reservations, deadline>>
  /\ allowance' = [allowance EXCEPT ![q] = 0]
  /\ UNCHANGED <<now, chain, open, poker, scannedTo, forgotten, mishaps>>

\* The journal is written: the taker has the quote.
Deliver(q) ==
  /\ request[q] = "signing"
  /\ request' = [request EXCEPT ![q] = "quoted"]
  /\ UNCHANGED <<now, chain, allowance, deadline, reservations, open, poker, scannedTo,
                  forgotten, mishaps>>

\* The signature or the journal failed: release.
FailQuote(q) ==
  /\ request[q] = "signing"
  /\ Mishap
  /\ request' = [request EXCEPT ![q] = "rejected"]
  /\ Release(q)
  /\ UNCHANGED <<now, chain, allowance, deadline, open, poker, scannedTo, forgotten>>

-----------------------------------------------------------------------------
(***************************************************************************)
(* The chain.                                                              *)
(***************************************************************************)
\* Mutant: the wallet is not asked.
AnyRoom(q) == TRUE
Funded(q) == room >= Risk[q]

\* ParlayVault.mint compares the deadline with block time.
Mint(q) ==
  /\ request[q] = "quoted"
  /\ ticket[q] = "none"
  /\ now - Lag <= deadline[q]
  /\ AllUnsettled(q)
  /\ Funded(q)
  /\ ticket' = [ticket EXCEPT ![q] = "open"]
  /\ mintedAt' = [mintedAt EXCEPT ![q] = now]
  /\ room' = room - Risk[q]
  /\ logs' = Append(logs, [kind |-> "minted", id |-> q])
  /\ UNCHANGED <<now, fraction, desk, reservations, open, poker, scannedTo, forgotten, mishaps>>

Settle(v, f) ==
  /\ fraction[v] = "unsettled"
  /\ fraction' = [fraction EXCEPT ![v] = f]
  /\ UNCHANGED <<now, room, ticket, mintedAt, logs, desk, reservations, open, poker,
                  scannedTo, forgotten, mishaps>>

Loses(side) == IF side = "yes" THEN "zero" ELSE "one"
Lost(q) == \E v \in DOMAIN Legs[q] : fraction[v] = Loses(Legs[q][v])
Part(q) == \E v \in DOMAIN Legs[q] : fraction[v] = "part"
AllSettled(q) == \A v \in DOMAIN Legs[q] : fraction[v] # "unsettled"

\* ParlayVault.resolveParlay: dead with a lost leg, void with a fractional one, won
\* with every leg hit.
Resolvable(q) == ticket[q] = "open" /\ (Lost(q) \/ Part(q) \/ AllSettled(q))
Resolved(q) ==
  /\ ticket' = [ticket EXCEPT ![q] = "resolved"]
  /\ logs' = Append(logs, [kind |-> "resolved", id |-> q])

\* Anyone may; a won ticket's holder does, to claim.
PublicResolve(q) ==
  /\ Resolvable(q)
  /\ Resolved(q)
  /\ UNCHANGED <<now, room, fraction, mintedAt, desk, reservations, open, poker,
                  scannedTo, forgotten, mishaps>>

\* Time passes, but while the writer is up not past PollDelay after a mint that is
\* not booked.
Tick ==
  /\ now < MaxTime
  /\ Seeded => \A q \in Quotes :
       ticket[q] = "open" /\ q \notin open => now < mintedAt[q] + PollDelay
  /\ now' = now + 1
  /\ UNCHANGED <<chain, desk, reservations, open, poker, scannedTo, forgotten, mishaps>>

-----------------------------------------------------------------------------
(***************************************************************************)
(* The poker: fetchEvents, a fetchLegs for each mint, the resolutions, the *)
(* index, then a resolveParlay for each ticket that cannot pay out.        *)
(***************************************************************************)
LogsOf(kind, toBlock) == {i \in nextBlock + 1 .. toBlock : logs[i].kind = kind}

\* How far the ranges of blocks get, asked for one after the other.
ReadTo == nextBlock .. Len(logs)

\* The log ranges up to toBlock were read: all of them, or those before one failed.
FetchEvents(toBlock) ==
  /\ pc = "idle"
  /\ pc' = "booking"
  /\ \/ toBlock = Len(logs) /\ UNCHANGED mishaps
     \/ toBlock < Len(logs) /\ Mishap
  /\ batch' = [minted |-> LogsOf("minted", toBlock), resolved |-> LogsOf("resolved", toBlock),
               toBlock |-> toBlock]
  /\ UNCHANGED <<now, chain, desk, reservations, open, nextBlock, toPoke, scannedTo,
                  forgotten>>

\* onMinted, for the first of the mints that are left.
OnMinted(q) ==
  /\ open' = open \union {q}
  /\ Release(q)
  /\ mintedAt' = [mintedAt EXCEPT ![q] = 0]

BookMint ==
  /\ pc = "booking"
  /\ \E i \in batch.minted :
       /\ \A j \in batch.minted : i <= j
       /\ batch' = [batch EXCEPT !.minted = @ \ {i}]
       /\ OnMinted(logs[i].id)
  /\ UNCHANGED <<now, room, fraction, ticket, logs, desk, pc, nextBlock, toPoke,
                  scannedTo, forgotten, mishaps>>

\* Mutant: only dead parlays are poked.
OnlyDead(q) == Lost(q)
Pokable(q) == Lost(q) \/ (AllSettled(q) /\ Part(q))

\* saveIndex, whose failure is logged.
SaveIndex ==
  \/ scannedTo' = batch.toBlock /\ UNCHANGED mishaps
  \/ Mishap /\ UNCHANGED scannedTo

\* onResolved; saveIndex; fetchLegStates.  Mutant: what was resolved stays booked.
KeepResolved == UNCHANGED open
DropResolved == open' = open \ {logs[i].id : i \in batch.resolved}

\* Where the next scan begins.  Mutant: at the head that the tick ends with, past
\* what was minted while it ran.
HeadNow == Len(logs)
ScanEnd == batch.toBlock

FinishBatch ==
  /\ pc = "booking"
  /\ batch.minted = {}
  /\ DropResolved
  /\ nextBlock' = ScanEnd
  /\ batch' = NoBatch
  /\ SaveIndex
  /\ toPoke' = {q \in open' : Pokable(q)}
  /\ pc' = IF toPoke' = {} THEN "idle" ELSE "poking"
  /\ UNCHANGED <<now, chain, desk, reservations, forgotten>>

PokeDone(q) ==
  /\ toPoke' = toPoke \ {q}
  /\ pc' = IF toPoke' = {} THEN "idle" ELSE "poking"
  /\ UNCHANGED <<now, room, fraction, mintedAt, desk, reservations, open, nextBlock,
                  batch, scannedTo, forgotten>>

Poke(q) ==
  /\ pc = "poking"
  /\ q \in toPoke
  /\ PokeDone(q)
  /\ IF Resolvable(q) THEN Resolved(q) ELSE UNCHANGED <<ticket, logs>>
  /\ UNCHANGED mishaps

PokeFails(q) ==
  /\ pc = "poking"
  /\ q \in toPoke
  /\ Mishap
  /\ PokeDone(q)
  /\ UNCHANGED <<ticket, logs>>

\* A read throws: the tick ends, and the next one reads the same events again.
TickFails ==
  /\ pc = "booking"
  /\ Mishap
  /\ pc' = "idle"
  /\ batch' = NoBatch
  /\ UNCHANGED <<now, chain, desk, reservations, open, nextBlock, toPoke, scannedTo,
                  forgotten>>

-----------------------------------------------------------------------------
(***************************************************************************)
(* Restarts.  The book starts empty; requests in hand are gone.            *)
(***************************************************************************)
Crash ==
  /\ pc # "down"
  /\ Mishap
  /\ forgotten' = forgotten \union
       {q \in Quotes : request[q] = "quoted" /\ ticket[q] = "none" /\ now - Lag <= deadline[q]}
  /\ pc' = "down"
  /\ request' = [q \in Quotes |->
                   IF request[q] \in {"priced", "signing"} THEN "rejected" ELSE request[q]]
  /\ reservations' = [q \in Quotes |-> None]
  /\ open' = {}
  /\ batch' = NoBatch
  /\ toPoke' = {}
  /\ UNCHANGED <<now, chain, allowance, deadline, nextBlock, scannedTo>>

\* seed: the head first, so that a mint during the reads is in a log still to scan.
SeedHead ==
  /\ pc = "down"
  /\ pc' = "seeding"
  /\ nextBlock' = IF scannedTo < Len(logs) THEN scannedTo ELSE Len(logs)
  /\ UNCHANGED <<now, chain, desk, reservations, open, batch, toPoke, scannedTo, forgotten, mishaps>>

\* Mutant: only the events after the head are looked at.
NoOpenTickets == {}
OpenTickets == {q \in Quotes : ticket[q] = "open"}

SeedOpen ==
  /\ pc = "seeding"
  /\ pc' = "idle"
  /\ open' = OpenTickets
  /\ mintedAt' = [q \in Quotes |-> 0]
  /\ UNCHANGED <<now, room, fraction, ticket, logs, desk, reservations, nextBlock, batch, toPoke, scannedTo,
                  forgotten, mishaps>>

Poker ==
  \/ FetchEvents(Len(logs))
  \/ BookMint \/ FinishBatch
  \/ \E q \in Quotes : Poke(q)
  \/ SeedHead \/ SeedOpen

Next ==
  \/ \E q \in Quotes :
       \/ Price(q) \/ Deliver(q) \/ FailQuote(q)
       \/ \E cap \in VaultCaps : CheckAndReserve(q, cap)
       \/ Mint(q) \/ PublicResolve(q) \/ PokeFails(q)
  \/ \E v \in Vaults : \E f \in Outcomes[v] : Settle(v, f)
  \/ Tick
  \/ \E toBlock \in ReadTo : FetchEvents(toBlock)
  \/ Poker \/ TickFails
  \/ Crash

Spec == Init /\ [][Next]_vars

-----------------------------------------------------------------------------
\* What takers have minted on a market, and on a cluster, stays within its cap,
\* whatever races what.  Only the quotes that a restart forgot are beyond it
\* (reserveAndSign, "prevent overlapping quotes exceeding caps"; ExposureBook, "Lost
\* on restart by design").
Minted == {q \in Quotes \ forgotten : ticket[q] = "open"}
CapsHold ==
  /\ TypeOK
  /\ \A v \in Vaults : \E cap \in VaultCaps : RiskOf({q \in Minted : BetsOn(q, v)}) <= cap
  /\ \A c \in Clusters : RiskOf({q \in Minted : BetsIn(q, c)}) <= ClusterCap

\* A ticket whose mint the poker has still to book, in the batch or after it.
Ahead(q) == \E i \in nextBlock + 1 .. Len(logs) :
  /\ logs[i] = [kind |-> "minted", id |-> q]
  /\ pc = "booking" => i \in batch.minted \/ i > batch.toBlock

\* No open ticket is lost between the scans: whatever overlaps or fails and whenever
\* the writer restarts, each is booked or ahead of the scan, the forgotten ones too.
\* And one that is not booked yet keeps its reservation's exposure for the grace but
\* the lag after its mint, however long the poker takes (poker.ts, seed and tick;
\* index.ts:36).
MintsStayCounted ==
  \A q \in Quotes : Seeded /\ ticket[q] = "open" =>
    /\ q \in open \/ Ahead(q)
    /\ q \notin forgotten /\ now + Lag < mintedAt[q] + Grace => Booked(q)

\* What index.ts:36 says, "Hold expired reservations for two polls so a late mint
\* remains counted", of a poll that may last longer than the grace: no run lists it.
LateMintsStayCounted ==
  \A q \in Quotes :
    Seeded /\ ticket[q] = "open" /\ reservations[q] # None => Booked(q)

\* The book never has reserved more than the wallet can fund, with only takers and
\* the writer at work ("must not let the exposure book reserve risk the mint tx
\* cannot fund", bankroll.ts).
ReservedIsFunded ==
  RiskOf({q \in Quotes : request[q] = "quoted" /\ ticket[q] = "none" /\ Reserved(q)}) <= room

-----------------------------------------------------------------------------
(***************************************************************************)
(* Fairness: the poker polls (loop.mts, every), and systemd restarts it.   *)
(* Crashes and faults are finitely many.                                   *)
(***************************************************************************)
FairSpec == Spec /\ WF_vars(Poker)

\* A ticket that cannot pay out is resolved, though nobody gains by doing it, and
\* its exposure is released, through crashes and failing calls ("Idempotent per
\* tick; failures retry next tick", Poker).
LosersResolve ==
  \A q \in Quotes :
    ticket[q] = "open" /\ (Lost(q) \/ (Part(q) /\ AllSettled(q))) ~> ticket[q] = "resolved"
ExposureReturns ==
  \A q \in Quotes : <>[](ticket[q] = "resolved" => q \notin open)
=============================================================================
