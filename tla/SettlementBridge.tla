-------------------------- MODULE SettlementBridge --------------------------
(***************************************************************************)
(* The way of a result from Core to a parlay: OutcomeVault.settle on       *)
(* HyperEVM, SettlementRelay.relay, the retryable ticket, OutcomeLeg on    *)
(* Elysium, and the keeper's settlement loop that pushes it along          *)
(* (keeper/src/settlement.ts).  Core prunes a settled outcome, and only    *)
(* the keeper that saw the fraction before can settle the vault after      *)
(* that, so the keeper keeps it on disk.                                   *)
(*                                                                         *)
(* The keeper takes one step per await; it may crash between any two.  Its *)
(* transactions mine in order, late or never, tickets in any order.        *)
(***************************************************************************)
EXTENDS Integers, SequencesExt

CONSTANTS
  Vaults,
  VaultOrder,    \* the registry's order, in which a tick visits them
  Mirrored,      \* vaults whose market has an Elysium leg
  Final,         \* Final[v]: the fraction Core settles v's outcome to
  None,          \* no fraction
  Hold,          \* RELAY_HOLD_MS
  MaxCrashes,    \* bound on crashes
  MaxMishaps,    \* bound on failing calls and disk writes, dropped transactions and
                 \* tickets, together
  MaxFills,      \* bound on deposits and redeems that occupy a vault's slot
  MaxRelays,     \* bound on relays by others
  MaxPending,    \* bound on the keeper's unmined transactions
  MaxTickets     \* bound on undelivered tickets

ASSUME BridgeAssumption ==
  /\ VaultOrder \in Seq(Vaults)
  /\ Mirrored \subseteq Vaults
  /\ None \notin {Final[v] : v \in Vaults}
  /\ Hold \in Nat

VARIABLES
  coreStatus,      \* 0x814 for each vault's outcome
  busy,            \* vaults whose slot holds an operation
  vaultFraction,   \* settleFractionWad, None until settled
  mempool,         \* the keeper's transactions not yet mined
  tickets,         \* retryable tickets not yet redeemed
  legFraction,     \* the legs' settleFractionWad
  disk,            \* the settlement cache file
  cache,           \* lastKnownFraction
  pc, visiting,    \* where the tick is: the await, the index into VaultOrder
  elysium,         \* state.elysiumClient is set
  holding,         \* time left of the hold that relaySentAt starts
  relayedLegs,
  crashes, faults, lost, fills, relays \* counts, for the bounds

chain == <<coreStatus, busy, vaultFraction, tickets, legFraction>>
memory == <<cache, elysium, holding, relayedLegs>>
tick == <<pc, visiting>>
counts == <<crashes, faults, lost, fills, relays>>
vars == <<chain, mempool, disk, memory, tick, counts>>

MayFail == faults + lost < MaxMishaps

Fraction == {Final[v] : v \in Vaults} \union {None}
SettleTx == [kind : {"settle"}, vault : Vaults, fraction : Fraction \ {None}]
RelayTx == [kind : {"relay"}, vault : Mirrored]
Ticket == [leg : Mirrored, vault : Vaults, fraction : Fraction \ {None}]
Awaits == {"down", "idle", "settled", "status", "settle", "leg", "relay", "receipt"}

TypeOK ==
  /\ coreStatus \in [Vaults -> {"active", "settled", "pruned"}]
  /\ busy \subseteq Vaults
  /\ vaultFraction \in [Vaults -> Fraction]
  /\ mempool \in Seq(SettleTx \union RelayTx)
  /\ tickets \in Seq(Ticket)
  /\ legFraction \in [Mirrored -> Fraction]
  /\ disk \in [Vaults -> Fraction]
  /\ cache \in [Vaults -> Fraction]
  /\ pc \in Awaits
  /\ visiting \in 1 .. Len(VaultOrder) + 1
  /\ elysium \in BOOLEAN
  /\ holding \in [Mirrored -> 0 .. Hold]
  /\ relayedLegs \subseteq Mirrored
  /\ crashes \in Nat /\ faults \in Nat /\ lost \in Nat
  /\ fills \in Nat /\ relays \in Nat

NoFractions == [v \in Vaults |-> None]
NoHolds == [v \in Mirrored |-> 0]

Init ==
  /\ coreStatus = [v \in Vaults |-> "active"]
  /\ busy = {}
  /\ vaultFraction = NoFractions
  /\ mempool = << >>
  /\ tickets = << >>
  /\ legFraction = [v \in Mirrored |-> None]
  /\ disk = NoFractions
  /\ cache = NoFractions
  /\ pc = "idle"
  /\ visiting = 1
  /\ elysium = FALSE
  /\ holding = NoHolds
  /\ relayedLegs = {}
  /\ crashes = 0 /\ faults = 0 /\ lost = 0 /\ fills = 0 /\ relays = 0

-----------------------------------------------------------------------------
(***************************************************************************)
(* Core and the vaults' users.                                             *)
(***************************************************************************)
SettleOutcome(v) ==
  /\ coreStatus[v] = "active"
  /\ coreStatus' = [coreStatus EXCEPT ![v] = "settled"]
  /\ UNCHANGED <<busy, vaultFraction, tickets, legFraction, mempool, disk, memory,
                  tick, counts>>

PruneOutcome(v) ==
  /\ coreStatus[v] = "settled"
  /\ coreStatus' = [coreStatus EXCEPT ![v] = "pruned"]
  /\ UNCHANGED <<busy, vaultFraction, tickets, legFraction, mempool, disk, memory,
                  tick, counts>>

\* A deposit or a redeem occupies the vault's slot, which settle() wants free.
FillSlot(v) ==
  /\ vaultFraction[v] = None
  /\ v \notin busy
  /\ fills < MaxFills
  /\ fills' = fills + 1
  /\ busy' = busy \union {v}
  /\ UNCHANGED <<coreStatus, vaultFraction, tickets, legFraction, mempool, disk,
                  memory, tick, crashes, faults, lost, relays>>

FreeSlot(v) ==
  /\ v \in busy
  /\ busy' = busy \ {v}
  /\ UNCHANGED <<coreStatus, vaultFraction, tickets, legFraction, mempool, disk,
                  memory, tick, counts>>

-----------------------------------------------------------------------------
(***************************************************************************)
(* Transactions on HyperEVM.                                               *)
(***************************************************************************)

Settleable(v) == vaultFraction[v] = None /\ v \notin busy /\ coreStatus[v] # "active"

\* OutcomeVault.settle: Core's value while it can be read, the keeper's after that.
Outcome(v, fraction) == IF coreStatus[v] = "settled" THEN Final[v] ELSE fraction

SettleVault(v, fraction) ==
  /\ Settleable(v)
  /\ vaultFraction' = [vaultFraction EXCEPT ![v] = Outcome(v, fraction)]

\* SettlementRelay.relay(vault, leg): the fraction is read from the vault, once it
\* has settled.  Mutant: NOT_SETTLED is not required.
AlwaysRelayable(v) == TRUE
Relayable(v) == vaultFraction[v] # None
RelayTicket(v, leg) == [leg |-> leg, vault |-> v, fraction |-> vaultFraction[v]]

MineSettle ==
  /\ mempool # << >>
  /\ Head(mempool).kind = "settle"
  /\ mempool' = Tail(mempool)
  /\ IF Settleable(Head(mempool).vault)
       THEN SettleVault(Head(mempool).vault, Head(mempool).fraction)
       ELSE UNCHANGED vaultFraction
  /\ UNCHANGED <<coreStatus, busy, tickets, legFraction, disk, memory, tick, counts>>

MineRelay ==
  /\ mempool # << >>
  /\ Head(mempool).kind = "relay"
  /\ Len(tickets) < MaxTickets
  /\ mempool' = Tail(mempool)
  /\ IF Relayable(Head(mempool).vault)
       THEN tickets' = Append(tickets, RelayTicket(Head(mempool).vault, Head(mempool).vault))
       ELSE UNCHANGED tickets
  /\ UNCHANGED <<coreStatus, busy, vaultFraction, legFraction, disk, memory, tick,
                  counts>>

DropTx ==
  /\ mempool # << >>
  /\ MayFail
  /\ lost' = lost + 1
  /\ mempool' = Tail(mempool)
  /\ UNCHANGED <<chain, disk, memory, tick, crashes, faults, fills, relays>>

\* Anyone may settle while Core tells the value, and relay to any leg.
PublicSettle(v) ==
  /\ coreStatus[v] = "settled"
  /\ SettleVault(v, None)
  /\ UNCHANGED <<coreStatus, busy, tickets, legFraction, mempool, disk, memory, tick,
                  counts>>

PublicRelay(v, leg) ==
  /\ Relayable(v)
  /\ relays < MaxRelays
  /\ Len(tickets) < MaxTickets
  /\ relays' = relays + 1
  /\ tickets' = Append(tickets, RelayTicket(v, leg))
  /\ UNCHANGED <<coreStatus, busy, vaultFraction, legFraction, mempool, disk, memory,
                  tick, crashes, faults, lost, fills>>

-----------------------------------------------------------------------------
(***************************************************************************)
(* Elysium: OutcomeLeg.receiveSettlement, or the ticket expires.           *)
(***************************************************************************)
\* Mutant: a leg takes any vault's ticket.
AnyTicket(t) == legFraction[t.leg] = None
Accepted(t) == t.vault = t.leg /\ legFraction[t.leg] = None

Redeem(i) ==
  /\ tickets' = RemoveAt(tickets, i)
  /\ legFraction' = IF Accepted(tickets[i])
                    THEN [legFraction EXCEPT ![tickets[i].leg] = tickets[i].fraction]
                    ELSE legFraction
  /\ UNCHANGED <<coreStatus, busy, vaultFraction, mempool, disk, memory, tick, counts>>

Expire(i) ==
  /\ MayFail
  /\ lost' = lost + 1
  /\ tickets' = RemoveAt(tickets, i)
  /\ UNCHANGED <<coreStatus, busy, vaultFraction, legFraction, mempool, disk, memory,
                  tick, crashes, faults, fills, relays>>

-----------------------------------------------------------------------------
(***************************************************************************)
(* The keeper's settlement loop, one tick over VaultOrder.                 *)
(***************************************************************************)
Here == VaultOrder[visiting]
NextVault ==
  /\ visiting' = visiting + 1
  /\ pc' = IF visiting = Len(VaultOrder) THEN "idle" ELSE "settled"
GoTo(await) == pc' = await /\ UNCHANGED visiting

StartTick ==
  /\ pc = "idle"
  /\ VaultOrder # << >>
  /\ pc' = "settled"
  /\ visiting' = 1
  /\ UNCHANGED <<chain, mempool, disk, memory, counts>>

ReadSettled ==
  /\ pc = "settled"
  /\ IF vaultFraction[Here] = None
       THEN GoTo("status")
       ELSE IF Here \in Mirrored /\ elysium /\ Here \notin relayedLegs
              THEN GoTo("leg") ELSE NextVault
  /\ UNCHANGED <<chain, mempool, disk, memory, counts>>

\* replaceFile: the whole cache, or, if the disk fails, what was there.
SaveCache ==
  \/ disk' = cache' /\ UNCHANGED faults
  \/ MayFail /\ faults' = faults + 1 /\ UNCHANGED disk

Observe(v) ==
  /\ cache' = [cache EXCEPT ![v] = Final[v]]
  /\ SaveCache

ReadStatus ==
  /\ pc = "status"
  /\ \/ /\ coreStatus[Here] = "active"
        /\ NextVault
        /\ UNCHANGED <<disk, cache, faults>>
     \/ /\ coreStatus[Here] = "settled"
        /\ Observe(Here)
        /\ GoTo("settle")
     \/ /\ coreStatus[Here] = "pruned"
        /\ IF cache[Here] = None THEN NextVault ELSE GoTo("settle")
        /\ UNCHANGED <<disk, cache, faults>>
  /\ UNCHANGED <<chain, mempool, elysium, holding, relayedLegs, crashes, lost, fills,
                  relays>>

\* A call that would revert fails when its gas is estimated and is not sent.
SendSettle ==
  /\ pc = "settle"
  /\ Len(mempool) < MaxPending
  /\ IF Settleable(Here)
       THEN /\ mempool' = Append(mempool, [kind |-> "settle", vault |-> Here,
                                           fraction |-> cache[Here]])
            /\ GoTo("receipt")
       ELSE /\ NextVault
            /\ UNCHANGED mempool
  /\ UNCHANGED <<chain, disk, memory, counts>>

ShouldRelay(v) == holding[v] = 0

ReadLeg ==
  /\ pc = "leg"
  /\ IF legFraction[Here] # None
       THEN /\ relayedLegs' = relayedLegs \union {Here}
            /\ holding' = [holding EXCEPT ![Here] = 0]
            /\ NextVault
       ELSE /\ IF ShouldRelay(Here) THEN GoTo("relay") ELSE NextVault
            /\ UNCHANGED <<relayedLegs, holding>>
  /\ UNCHANGED <<chain, mempool, disk, cache, elysium, counts>>

\* The hold starts before the send, and stays if the send fails.
SendRelay ==
  /\ pc = "relay"
  /\ Len(mempool) < MaxPending
  /\ holding' = [holding EXCEPT ![Here] = Hold]
  /\ \/ /\ mempool' = Append(mempool, [kind |-> "relay", vault |-> Here])
        /\ GoTo("receipt")
        /\ UNCHANGED faults
     \/ /\ MayFail
        /\ faults' = faults + 1
        /\ NextVault
        /\ UNCHANGED mempool
  /\ UNCHANGED <<chain, disk, cache, elysium, relayedLegs, crashes, lost, fills, relays>>

\* Mined, reverted or timed out: the tick goes on.
Receipt ==
  /\ pc = "receipt"
  /\ NextVault
  /\ UNCHANGED <<chain, mempool, disk, memory, counts>>

\* A read or send that throws ends the visit of this vault.
CallFails ==
  /\ pc \in {"settled", "status", "settle", "leg", "relay"}
  /\ MayFail
  /\ faults' = faults + 1
  /\ NextVault
  /\ UNCHANGED <<chain, mempool, disk, memory, crashes, lost, fills, relays>>

VerifyElysium ==
  /\ pc # "down"
  /\ ~elysium
  /\ elysium' = TRUE
  /\ UNCHANGED <<chain, mempool, disk, cache, holding, relayedLegs, tick, counts>>

\* Mutant: a leg that was sent one relay is sent no other.
NeverElapses(v) == holding[v]
Elapse(v) == IF holding[v] = 0 THEN 0 ELSE holding[v] - 1

TimePasses ==
  /\ holding # NoHolds
  /\ holding' = [v \in Mirrored |-> Elapse(v)]
  /\ UNCHANGED <<chain, mempool, disk, cache, elysium, relayedLegs, tick, counts>>

Crash ==
  /\ pc # "down"
  /\ crashes < MaxCrashes
  /\ crashes' = crashes + 1
  /\ pc' = "down"
  /\ visiting' = 1
  /\ cache' = NoFractions
  /\ elysium' = FALSE
  /\ holding' = NoHolds
  /\ relayedLegs' = {}
  /\ UNCHANGED <<chain, mempool, disk, faults, lost, fills, relays>>

\* Mutant: the keeper starts with an empty cache.
ForgottenCache == NoFractions
LoadedCache == disk

Restart ==
  /\ pc = "down"
  /\ pc' = "idle"
  /\ cache' = LoadedCache
  /\ UNCHANGED <<chain, mempool, disk, elysium, holding, relayedLegs, visiting, counts>>

Keeper ==
  \/ StartTick \/ ReadSettled \/ ReadStatus \/ SendSettle
  \/ ReadLeg \/ SendRelay \/ Receipt

Next ==
  \/ \E v \in Vaults :
       \/ SettleOutcome(v) \/ PruneOutcome(v)
       \/ FillSlot(v) \/ FreeSlot(v)
       \/ PublicSettle(v)
       \/ \E leg \in Mirrored : PublicRelay(v, leg)
  \/ MineSettle \/ MineRelay \/ DropTx
  \/ \E i \in DOMAIN tickets : Redeem(i) \/ Expire(i)
  \/ Keeper \/ CallFails \/ VerifyElysium \/ TimePasses
  \/ Crash \/ Restart

Spec == Init /\ [][Next]_vars

-----------------------------------------------------------------------------
\* Through crashes, restarts, prunes, lost and repeated transactions, tickets for
\* the wrong leg and settlers racing the keeper, each market settles once, to
\* Core's fraction, on its vault before its leg (OutcomeVault.settle, "settles
\* once"; SettlementRelay, "the caller chooses only when, never what").
SettlesOnce == INSTANCE SettleOnce
ImplementsSettleOnce == SettlesOnce!Spec

\* The cache file never loses a fraction: neither a restart nor the save of
\* another vault's fraction drops one that was written ("startup cannot replace
\* it with a partial cache", pure.ts; "Do not overwrite the cache", DEPLOY.md).
DiskKeepsFractions ==
  [][\A v \in Vaults : disk[v] # None => disk'[v] = disk[v]]_vars

\* A keeper that is up knows every fraction that is on its disk: it can settle a
\* pruned vault without a restart.
CacheCoversDisk ==
  pc # "down" => \A v \in Vaults : disk[v] # None => cache[v] = disk[v]

-----------------------------------------------------------------------------
(***************************************************************************)
(* Fairness: the keeper polls (loop.mts, every) and systemd restarts it,   *)
(* transactions mine and tickets are redeemed unless they are dropped, an  *)
(* operation in a vault's slot ends (OutcomeVault, SlotsClear).  Crashes,  *)
(* faults and losses are finitely many.                                    *)
(***************************************************************************)
FairSpec ==
  /\ Spec
  /\ WF_vars(Keeper \/ Restart)
  /\ WF_vars(VerifyElysium)
  /\ WF_vars(TimePasses)
  /\ WF_vars(MineSettle \/ MineRelay)
  /\ WF_vars(\E i \in DOMAIN tickets : Redeem(i))
  /\ WF_vars(\E v \in Vaults : FreeSlot(v))

\* A fraction that reached the disk settles its vault, pruned or not, whatever
\* crashes or gets lost on the way ("a crash mid-flight must not lose the only
\* fraction that can still settle", settlement.ts).
PersistedFractionSettles ==
  \A v \in Vaults : disk[v] # None ~> vaultFraction[v] # None

\* A settled vault's leg settles: a relay or a ticket that is lost is sent again
\* (shouldRelay, RELAY_HOLD_MS).
LegsFollow ==
  \A v \in Mirrored : vaultFraction[v] # None ~> legFraction[v] # None
=============================================================================
