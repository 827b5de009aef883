----------------------- MODULE SettlementBridgeProofs -----------------------
(***************************************************************************)
(* Theorems about SettlementBridge for any registry, fractions and bounds. *)
(***************************************************************************)
EXTENDS SettlementBridge, SequenceTheorems, TLAPS

(***************************************************************************)
(* The inductive invariant: every fraction anywhere on the way (keeper's   *)
(* memory and disk, transactions, vaults, tickets, legs) is the one Core   *)
(* settled that vault's outcome to, and a ticket exists only for a vault   *)
(* that is settled.                                                        *)
(***************************************************************************)
Visiting == {"settled", "status", "settle", "leg", "relay", "receipt"}

OnRoute ==
  /\ pc \in Visiting => visiting \in DOMAIN VaultOrder
  /\ pc \in {"leg", "relay"} => Here \in Mirrored
  /\ pc = "settle" => cache[Here] # None

NoneOrFinal(f) == \A v \in Vaults : f[v] = None \/ f[v] = Final[v]

FaithfulTx == {t \in SettleTx \union RelayTx : t.kind = "settle" => t.fraction = Final[t.vault]}

TicketsFaithful ==
  \A i \in DOMAIN tickets : /\ tickets[i].fraction = Final[tickets[i].vault]
                            /\ vaultFraction[tickets[i].vault] = Final[tickets[i].vault]

LegsFaithful ==
  \A v \in Mirrored : legFraction[v] # None => vaultFraction[v] = legFraction[v]

BridgeInv ==
  /\ TypeOK
  /\ OnRoute
  /\ NoneOrFinal(cache)
  /\ NoneOrFinal(disk)
  /\ NoneOrFinal(vaultFraction)
  /\ mempool \in Seq(FaithfulTx)
  /\ TicketsFaithful
  /\ LegsFaithful
  /\ CacheCoversDisk

\* A fraction of a vault is none of the other values.
LEMMA FinalIsSome == \A v \in Vaults : Final[v] # None /\ Final[v] \in Fraction
BY BridgeAssumption DEF Fraction

\* The vault a tick visits is one of the vaults.
LEMMA HereIsVault ==
  ASSUME visiting \in DOMAIN VaultOrder
  PROVE  Here \in Vaults
BY BridgeAssumption DEF Here

\* Where a tick goes after a vault: to the next one, or to sleep.
LEMMA NextVaultIsOnRoute ==
  ASSUME visiting \in DOMAIN VaultOrder, NextVault
  PROVE  /\ visiting' \in 1 .. Len(VaultOrder) + 1
         /\ pc' \in Awaits
         /\ pc' \in {"idle", "settled"}
         /\ pc' \in Visiting => visiting' \in DOMAIN VaultOrder
BY BridgeAssumption DEF NextVault, Awaits, Visiting

\* What is left of a sequence when one element is removed was in it.
LEMMA RemoveAtKeeps ==
  ASSUME NEW S, NEW s \in Seq(S), NEW i \in DOMAIN s
  PROVE  /\ RemoveAt(s, i) \in Seq(S)
         /\ \A j \in DOMAIN RemoveAt(s, i) :
              \E k \in DOMAIN s : RemoveAt(s, i)[j] = s[k]
<1>0. Len(s) \in Nat /\ i \in 1 .. Len(s) /\ DOMAIN s = 1 .. Len(s)
  OBVIOUS
<1> DEFINE before == SubSeq(s, 1, i - 1)
           after == SubSeq(s, i + 1, Len(s))
<1>1. /\ before \in Seq(S) /\ Len(before) = i - 1
      /\ after \in Seq(S) /\ Len(after) = Len(s) - i
  OBVIOUS
<1>2. /\ \A j \in 1 .. i - 1 : before[j] = s[j]
      /\ \A j \in 1 .. Len(s) - i : after[j] = s[j + i]
  OBVIOUS
<1>3. RemoveAt(s, i) = before \o after
  BY DEF RemoveAt
<1> HIDE DEF before, after
<1>4. /\ before \o after \in Seq(S)
      /\ Len(before \o after) = Len(s) - 1
      /\ \A j \in 1 .. Len(s) - 1 :
           (before \o after)[j] = IF j <= i - 1 THEN before[j] ELSE after[j - (i - 1)]
  BY <1>1, ConcatProperties
<1>5. ASSUME NEW j \in DOMAIN RemoveAt(s, i)
      PROVE  \E k \in DOMAIN s : RemoveAt(s, i)[j] = s[k]
  <2>1. j \in 1 .. Len(s) - 1
    BY <1>3, <1>4
  <2>2. CASE j <= i - 1
    <3>1. j \in 1 .. i - 1 /\ j \in DOMAIN s
      BY <1>0, <2>1, <2>2
    <3>2. (before \o after)[j] = s[j]
      BY <1>2, <1>4, <2>1, <2>2, <3>1
    <3> QED
      BY <1>3, <3>1, <3>2
  <2>3. CASE j > i - 1
    <3>1. j - (i - 1) \in 1 .. Len(s) - i /\ j + 1 \in DOMAIN s
      BY <1>0, <2>1, <2>3
    <3>2. (before \o after)[j] = after[j - (i - 1)]
      BY SMTT(40), <1>0, <1>4, <2>1, <2>3
    <3>3. after[j - (i - 1)] = s[j - (i - 1) + i]
      BY <1>2, <3>1
    <3>4. j - (i - 1) + i = j + 1
      BY <1>0, <2>1
    <3> QED
      BY <1>3, <3>1, <3>2, <3>3, <3>4
  <2> QED
    BY <2>1, <2>2, <2>3
<1> QED
  BY <1>3, <1>4, <1>5

-----------------------------------------------------------------------------
(***************************************************************************)
(* The invariant holds initially and is preserved by every action.         *)
(***************************************************************************)
LEMMA InitBridgeInv == Init => BridgeInv
<1> SUFFICES ASSUME Init
             PROVE  BridgeInv
  OBVIOUS
<1>1. TypeOK
  <2>1. /\ vaultFraction \in [Vaults -> Fraction]
        /\ disk \in [Vaults -> Fraction]
        /\ cache \in [Vaults -> Fraction]
        /\ legFraction \in [Mirrored -> Fraction]
        /\ holding \in [Mirrored -> 0 .. Hold]
    BY BridgeAssumption DEF Init, Fraction, NoFractions, NoHolds
  <2>2. visiting \in 1 .. Len(VaultOrder) + 1
    BY BridgeAssumption DEF Init
  <2>3. /\ coreStatus \in [Vaults -> {"active", "settled", "pruned"}]
        /\ busy \subseteq Vaults
        /\ mempool \in Seq(SettleTx \union RelayTx)
        /\ tickets \in Seq(Ticket)
        /\ pc \in Awaits
        /\ elysium \in BOOLEAN
        /\ relayedLegs \subseteq Mirrored
        /\ crashes \in Nat /\ faults \in Nat /\ lost \in Nat
        /\ fills \in Nat /\ relays \in Nat
    <3>1. /\ coreStatus \in [Vaults -> {"active", "settled", "pruned"}]
          /\ pc \in Awaits
      BY DEF Init, Awaits
    <3>2. /\ mempool \in Seq(SettleTx \union RelayTx)
          /\ tickets \in Seq(Ticket)
      BY DEF Init
    <3> QED
      BY <3>1, <3>2 DEF Init
  <2> QED
    BY <2>1, <2>2, <2>3 DEF TypeOK
<1>2. /\ OnRoute
      /\ NoneOrFinal(cache) /\ NoneOrFinal(disk) /\ NoneOrFinal(vaultFraction)
      /\ mempool \in Seq(FaithfulTx)
      /\ TicketsFaithful
      /\ LegsFaithful
      /\ CacheCoversDisk
  BY DEF Init, OnRoute, Visiting, NoneOrFinal, NoFractions, TicketsFaithful,
         LegsFaithful, CacheCoversDisk
<1> QED
  BY <1>1, <1>2 DEF BridgeInv

\* Core, the vaults' users and the clock touch no fraction.
LEMMA QuietSteps ==
  ASSUME BridgeInv,
         \/ \E v \in Vaults : SettleOutcome(v) \/ PruneOutcome(v) \/ FillSlot(v) \/ FreeSlot(v)
         \/ VerifyElysium \/ TimePasses \/ StartTick \/ UNCHANGED vars
  PROVE  BridgeInv'
<1> USE DEF BridgeInv, chain, memory, tick, counts
<1>1. ASSUME NEW v \in Vaults, SettleOutcome(v)
      PROVE  BridgeInv'
  BY <1>1 DEF SettleOutcome, TypeOK, OnRoute, Here, NoneOrFinal, TicketsFaithful,
              LegsFaithful, CacheCoversDisk
<1>2. ASSUME NEW v \in Vaults, PruneOutcome(v)
      PROVE  BridgeInv'
  BY <1>2 DEF PruneOutcome, TypeOK, OnRoute, Here, NoneOrFinal, TicketsFaithful,
              LegsFaithful, CacheCoversDisk
<1>3. ASSUME NEW v \in Vaults, FillSlot(v)
      PROVE  BridgeInv'
  BY <1>3 DEF FillSlot, TypeOK, OnRoute, Here, NoneOrFinal, TicketsFaithful,
              LegsFaithful, CacheCoversDisk
<1>4. ASSUME NEW v \in Vaults, FreeSlot(v)
      PROVE  BridgeInv'
  BY <1>4 DEF FreeSlot, TypeOK, OnRoute, Here, NoneOrFinal, TicketsFaithful,
              LegsFaithful, CacheCoversDisk
<1>5. CASE VerifyElysium
  BY <1>5 DEF VerifyElysium, TypeOK, OnRoute, Here, NoneOrFinal, TicketsFaithful,
              LegsFaithful, CacheCoversDisk
<1>6. CASE TimePasses
  <2>1. holding' \in [Mirrored -> 0 .. Hold]
    BY <1>6, BridgeAssumption DEF TimePasses, TypeOK, Elapse
  <2> QED
    BY <1>6, <2>1 DEF TimePasses, TypeOK, OnRoute, Here, NoneOrFinal, TicketsFaithful,
                      LegsFaithful, CacheCoversDisk
<1>7. CASE StartTick
  BY <1>7, BridgeAssumption
     DEF StartTick, TypeOK, OnRoute, Here, NoneOrFinal, TicketsFaithful,
         LegsFaithful, CacheCoversDisk, Awaits, Visiting
<1>8. CASE UNCHANGED vars
  BY <1>8 DEF vars, TypeOK, OnRoute, Here, NoneOrFinal, TicketsFaithful,
              LegsFaithful, CacheCoversDisk
<1> QED
  BY <1>1, <1>2, <1>3, <1>4, <1>5, <1>6, <1>7, <1>8

\* A vault that settles gets Core's fraction; nothing sent or mined before says
\* otherwise.
LEMMA SettleVaultIsFinal ==
  ASSUME BridgeInv, NEW v \in Vaults, NEW f,
         f = Final[v] \/ coreStatus[v] = "settled",
         SettleVault(v, f)
  PROVE  /\ vaultFraction' \in [Vaults -> Fraction]
         /\ NoneOrFinal(vaultFraction)'
         /\ \A w \in Vaults : vaultFraction[w] # None => vaultFraction'[w] = vaultFraction[w]
         /\ vaultFraction[v] = None
         /\ vaultFraction' = [vaultFraction EXCEPT ![v] = Final[v]]
BY FinalIsSome DEF BridgeInv, TypeOK, SettleVault, Settleable, Outcome, NoneOrFinal

\* A transaction at the head of the mempool is one the keeper meant.
LEMMA HeadIsFaithful ==
  ASSUME mempool \in Seq(FaithfulTx), mempool # << >>
  PROVE  /\ Head(mempool) \in SettleTx \union RelayTx
         /\ Head(mempool).vault \in Vaults
         /\ Head(mempool).kind = "settle" =>
              Head(mempool).fraction = Final[Head(mempool).vault]
         /\ Head(mempool).kind = "relay" => Head(mempool).vault \in Mirrored
         /\ Tail(mempool) \in Seq(FaithfulTx)
         /\ mempool \in Seq(SettleTx \union RelayTx)
         /\ Tail(mempool) \in Seq(SettleTx \union RelayTx)
<1>1. Head(mempool) \in FaithfulTx /\ Tail(mempool) \in Seq(FaithfulTx)
  OBVIOUS
<1>2. FaithfulTx \subseteq SettleTx \union RelayTx
  BY DEF FaithfulTx
<1>3. Head(mempool) \in SettleTx \union RelayTx
  BY <1>1, <1>2
<1>4. /\ Head(mempool).vault \in Vaults
      /\ Head(mempool).kind = "relay" => Head(mempool).vault \in Mirrored
  BY <1>3, BridgeAssumption DEF SettleTx, RelayTx
<1>5. Head(mempool).kind = "settle" =>
        Head(mempool).fraction = Final[Head(mempool).vault]
  BY <1>1 DEF FaithfulTx
<1>6. /\ mempool \in Seq(SettleTx \union RelayTx)
      /\ Tail(mempool) \in Seq(SettleTx \union RelayTx)
  BY <1>1, <1>2
<1> QED
  BY <1>1, <1>3, <1>4, <1>5, <1>6

\* A ticket made now carries the settled vault's fraction.
LEMMA NewTicketIsFaithful ==
  ASSUME BridgeInv, NEW v \in Vaults, NEW leg \in Mirrored, vaultFraction[v] # None
  PROVE  LET more == Append(tickets, RelayTicket(v, leg))
         IN  /\ more \in Seq(Ticket)
             /\ \A i \in DOMAIN more : /\ more[i].fraction = Final[more[i].vault]
                                      /\ vaultFraction[more[i].vault] = Final[more[i].vault]
<1> DEFINE t == RelayTicket(v, leg)
<1>1. vaultFraction[v] = Final[v] /\ vaultFraction[v] \in Fraction \ {None}
  BY FinalIsSome DEF BridgeInv, NoneOrFinal
<1>2. /\ t \in Ticket
      /\ t.fraction = Final[t.vault]
      /\ vaultFraction[t.vault] = Final[t.vault]
  BY <1>1 DEF RelayTicket, Ticket
<1>3. tickets \in Seq(Ticket)
  BY DEF BridgeInv, TypeOK
<1> HIDE DEF t
<1>4. /\ Append(tickets, t) \in Seq(Ticket)
      /\ Len(Append(tickets, t)) = Len(tickets) + 1
      /\ \A i \in 1 .. Len(tickets) : Append(tickets, t)[i] = tickets[i]
      /\ Append(tickets, t)[Len(tickets) + 1] = t
  BY <1>2, <1>3
<1>5. \A i \in DOMAIN Append(tickets, t) : i \in 1 .. Len(tickets) \/ i = Len(tickets) + 1
  BY <1>3, <1>4
<1>6. \A i \in 1 .. Len(tickets) :
        /\ tickets[i].fraction = Final[tickets[i].vault]
        /\ vaultFraction[tickets[i].vault] = Final[tickets[i].vault]
  BY <1>3 DEF BridgeInv, TicketsFaithful
<1>7. \A i \in DOMAIN Append(tickets, t) :
        /\ Append(tickets, t)[i].fraction = Final[Append(tickets, t)[i].vault]
        /\ vaultFraction[Append(tickets, t)[i].vault] = Final[Append(tickets, t)[i].vault]
  BY <1>2, <1>4, <1>5, <1>6
<1> QED
  BY <1>4, <1>7 DEF t

\* Vaults that settle leave the tickets and the legs as faithful as they were.
LEMMA SettlingKeepsFaith ==
  ASSUME BridgeInv, UNCHANGED <<tickets, legFraction>>,
         \A w \in Vaults : vaultFraction[w] # None => vaultFraction'[w] = vaultFraction[w]
  PROVE  TicketsFaithful' /\ LegsFaithful'
<1>1. \A i \in DOMAIN tickets : tickets[i].vault \in Vaults
  <2>1. tickets \in Seq(Ticket)
    BY DEF BridgeInv, TypeOK
  <2>2. \A i \in DOMAIN tickets : tickets[i] \in Ticket
    BY <2>1
  <2>3. \A t \in Ticket : t.vault \in Vaults
    BY DEF Ticket
  <2> QED
    BY <2>2, <2>3
<1>2. TicketsFaithful'
  BY <1>1, FinalIsSome DEF BridgeInv, TicketsFaithful
<1>3. LegsFaithful'
  BY BridgeAssumption DEF BridgeInv, LegsFaithful
<1> QED
  BY <1>2, <1>3

\* Transactions and tickets preserve the invariant.
LEMMA ChainSteps ==
  ASSUME BridgeInv,
         \/ MineSettle \/ MineRelay \/ DropTx
         \/ \E v \in Vaults : PublicSettle(v) \/ \E leg \in Mirrored : PublicRelay(v, leg)
         \/ \E i \in DOMAIN tickets : Redeem(i) \/ Expire(i)
  PROVE  BridgeInv'
<1> USE DEF BridgeInv, chain, memory, tick, counts
<1>1. CASE MineSettle
  <2>1. /\ mempool # << >> /\ mempool' = Tail(mempool)
        /\ Head(mempool).kind = "settle"
        /\ UNCHANGED <<coreStatus, busy, tickets, legFraction, disk, memory, tick, counts>>
    BY <1>1 DEF MineSettle
  <2>2. /\ vaultFraction' \in [Vaults -> Fraction]
        /\ NoneOrFinal(vaultFraction)'
        /\ \A w \in Vaults : vaultFraction[w] # None => vaultFraction'[w] = vaultFraction[w]
    <3>1. CASE Settleable(Head(mempool).vault)
      BY <1>1, <2>1, <3>1, HeadIsFaithful, SettleVaultIsFinal DEF MineSettle
    <3>2. CASE ~Settleable(Head(mempool).vault)
      BY <1>1, <3>2 DEF MineSettle, TypeOK, NoneOrFinal
    <3> QED
      BY <3>1, <3>2
  <2>3. TypeOK'
    BY <2>1, <2>2, HeadIsFaithful DEF TypeOK
  <2>4. TicketsFaithful' /\ LegsFaithful'
    BY <2>1, <2>2, SettlingKeepsFaith
  <2> QED
    BY <2>1, <2>2, <2>3, <2>4, HeadIsFaithful DEF OnRoute, Here, NoneOrFinal, CacheCoversDisk
<1>2. CASE MineRelay
  <2>1. /\ mempool # << >> /\ mempool' = Tail(mempool)
        /\ Head(mempool).kind = "relay"
        /\ UNCHANGED <<coreStatus, busy, vaultFraction, legFraction, disk, memory, tick,
                        counts>>
    BY <1>2 DEF MineRelay, Relayable
  <2>2. tickets' \in Seq(Ticket) /\ TicketsFaithful'
    <3>1. CASE vaultFraction[Head(mempool).vault] # None
      <4>1. Head(mempool).vault \in Mirrored /\ Head(mempool).vault \in Vaults
        BY <2>1, HeadIsFaithful
      <4>2. tickets' = Append(tickets, RelayTicket(Head(mempool).vault, Head(mempool).vault))
        BY <1>2, <3>1 DEF MineRelay, Relayable
      <4> QED
        BY <2>1, <3>1, <4>1, <4>2, NewTicketIsFaithful DEF TicketsFaithful
    <3>2. CASE vaultFraction[Head(mempool).vault] = None
      BY <1>2, <3>2 DEF MineRelay, Relayable, TypeOK, TicketsFaithful
    <3> QED
      BY <3>1, <3>2
  <2>3. TypeOK'
    BY <2>1, <2>2, HeadIsFaithful DEF TypeOK
  <2> QED
    BY <2>1, <2>2, <2>3, HeadIsFaithful
       DEF OnRoute, Here, NoneOrFinal, LegsFaithful, CacheCoversDisk
<1>3. CASE DropTx
  <2>1. TypeOK'
    BY SMTT(40), <1>3, HeadIsFaithful DEF DropTx, TypeOK
  <2> QED
    BY <1>3, <2>1, HeadIsFaithful
       DEF DropTx, OnRoute, Here, NoneOrFinal, TicketsFaithful, LegsFaithful, CacheCoversDisk
<1>4. ASSUME NEW v \in Vaults, PublicSettle(v)
      PROVE  BridgeInv'
  <2>1. /\ vaultFraction' \in [Vaults -> Fraction]
        /\ NoneOrFinal(vaultFraction)'
        /\ \A w \in Vaults : vaultFraction[w] # None => vaultFraction'[w] = vaultFraction[w]
    BY <1>4, SettleVaultIsFinal DEF PublicSettle
  <2>2. TypeOK'
    BY <1>4, <2>1 DEF PublicSettle, TypeOK
  <2>3. TicketsFaithful' /\ LegsFaithful'
    BY <1>4, <2>1, SettlingKeepsFaith DEF PublicSettle
  <2> QED
    BY <1>4, <2>1, <2>2, <2>3 DEF PublicSettle, OnRoute, Here, NoneOrFinal, CacheCoversDisk
<1>5. ASSUME NEW v \in Vaults, NEW leg \in Mirrored, PublicRelay(v, leg)
      PROVE  BridgeInv'
  <2>1. tickets' \in Seq(Ticket) /\ TicketsFaithful'
    BY <1>5, NewTicketIsFaithful DEF PublicRelay, Relayable, TicketsFaithful
  <2>2. TypeOK'
    BY <1>5, <2>1 DEF PublicRelay, Relayable, TypeOK
  <2> QED
    BY <1>5, <2>1, <2>2
       DEF PublicRelay, Relayable, OnRoute, Here, NoneOrFinal, LegsFaithful, CacheCoversDisk
<1>6. ASSUME NEW i \in DOMAIN tickets, Redeem(i) \/ Expire(i)
      PROVE  BridgeInv'
  <2>1. tickets' = RemoveAt(tickets, i) /\ tickets \in Seq(Ticket)
    BY <1>6 DEF Redeem, Expire, TypeOK
  <2>2. /\ tickets' \in Seq(Ticket)
        /\ \A j \in DOMAIN tickets' : \E k \in DOMAIN tickets : tickets'[j] = tickets[k]
    BY <2>1, RemoveAtKeeps
  <2>3. /\ UNCHANGED <<coreStatus, busy, vaultFraction, mempool, disk, memory, tick>>
        /\ UNCHANGED <<crashes, faults, fills, relays>> /\ lost' \in Nat
    BY <1>6 DEF Redeem, Expire, TypeOK
  <2>4. TicketsFaithful'
    BY <2>2, <2>3 DEF TicketsFaithful
  <2>5. legFraction' \in [Mirrored -> Fraction] /\ LegsFaithful'
    <3>1. CASE legFraction' = legFraction
      BY <2>3, <3>1 DEF TypeOK, LegsFaithful
    <3>2. CASE Redeem(i) /\ Accepted(tickets[i])
      <4>1. /\ tickets[i] \in Ticket
            /\ tickets[i].vault = tickets[i].leg
            /\ vaultFraction[tickets[i].leg] = tickets[i].fraction
        BY <2>1, <3>2 DEF Accepted, TicketsFaithful
      <4>2. tickets[i].leg \in Mirrored /\ tickets[i].fraction \in Fraction
        BY <4>1 DEF Ticket
      <4>3. legFraction' = [legFraction EXCEPT ![tickets[i].leg] = tickets[i].fraction]
        BY <3>2 DEF Redeem
      <4> QED
        BY <2>3, <4>1, <4>2, <4>3 DEF TypeOK, LegsFaithful
    <3> QED
      BY <1>6, <3>1, <3>2 DEF Redeem, Expire
  <2>6. TypeOK'
    BY <2>2, <2>3, <2>5 DEF TypeOK
  <2> QED
    BY <2>3, <2>4, <2>5, <2>6 DEF OnRoute, Here, NoneOrFinal, CacheCoversDisk
<1> QED
  BY <1>1, <1>2, <1>3, <1>4, <1>5, <1>6

-----------------------------------------------------------------------------
(***************************************************************************)
(* The keeper's steps.                                                     *)
(***************************************************************************)
\* A tick that moves on to the next vault.
LEMMA MovingOn ==
  ASSUME BridgeInv, pc \in Visiting, NextVault,
         UNCHANGED <<chain, disk, cache>>,
         mempool' \in Seq(FaithfulTx), mempool' \in Seq(SettleTx \union RelayTx),
         elysium' \in BOOLEAN, holding' \in [Mirrored -> 0 .. Hold],
         relayedLegs' \subseteq Mirrored,
         crashes' \in Nat, faults' \in Nat, lost' \in Nat, fills' \in Nat, relays' \in Nat
  PROVE  BridgeInv'
<1>1. /\ visiting' \in 1 .. Len(VaultOrder) + 1
      /\ pc' \in Awaits
      /\ pc' \in {"idle", "settled"}
      /\ pc' \in Visiting => visiting' \in DOMAIN VaultOrder
  BY NextVaultIsOnRoute DEF BridgeInv, OnRoute
<1>2. OnRoute'
  BY <1>1 DEF OnRoute
<1>3. TypeOK'
  BY <1>1 DEF BridgeInv, TypeOK, chain
<1>4. CacheCoversDisk'
  <2>1. pc # "down"
    BY DEF Visiting
  <2> QED
    BY <2>1 DEF BridgeInv, CacheCoversDisk
<1> QED
  BY <1>2, <1>3, <1>4 DEF BridgeInv, chain, NoneOrFinal, TicketsFaithful, LegsFaithful

\* A tick that goes on with the vault it visits.
LEMMA StayingHere ==
  ASSUME BridgeInv, pc \in Visiting, NEW await \in Visiting, GoTo(await),
         await \in {"leg", "relay"} => Here \in Mirrored,
         await = "settle" => cache'[Here] # None,
         UNCHANGED chain,
         NoneOrFinal(cache)', NoneOrFinal(disk)', CacheCoversDisk',
         cache' \in [Vaults -> Fraction], disk' \in [Vaults -> Fraction],
         mempool' \in Seq(FaithfulTx), mempool' \in Seq(SettleTx \union RelayTx),
         elysium' \in BOOLEAN, holding' \in [Mirrored -> 0 .. Hold],
         relayedLegs' \subseteq Mirrored,
         crashes' \in Nat, faults' \in Nat, lost' \in Nat, fills' \in Nat, relays' \in Nat
  PROVE  BridgeInv'
<1>1. pc' = await /\ visiting' = visiting /\ Here' = Here
  BY DEF GoTo, Here
<1>2. OnRoute'
  BY <1>1 DEF BridgeInv, OnRoute
<1>3. TypeOK'
  BY <1>1 DEF BridgeInv, TypeOK, chain, Visiting, Awaits
<1> QED
  BY <1>2, <1>3 DEF BridgeInv, chain, NoneOrFinal, TicketsFaithful, LegsFaithful

\* Writing down Core's fraction, whether the disk takes it or not.
LEMMA ObservingKeepsFaith ==
  ASSUME BridgeInv, pc # "down", pc' # "down", NEW v \in Vaults, Observe(v)
  PROVE  /\ cache' \in [Vaults -> Fraction] /\ NoneOrFinal(cache)'
         /\ disk' \in [Vaults -> Fraction] /\ NoneOrFinal(disk)'
         /\ CacheCoversDisk'
         /\ cache'[v] # None
         /\ faults' \in Nat
         /\ \A w \in Vaults : disk[w] # None => disk'[w] = disk[w]
<1>1. /\ cache' \in [Vaults -> Fraction] /\ NoneOrFinal(cache)'
      /\ cache'[v] # None
      /\ \A w \in Vaults : cache[w] # None => cache'[w] = cache[w]
  BY FinalIsSome DEF BridgeInv, TypeOK, NoneOrFinal, Observe
<1>2. \A w \in Vaults : disk[w] # None => cache[w] = disk[w] /\ cache'[w] = disk[w]
  BY <1>1 DEF BridgeInv, CacheCoversDisk
<1>3. CASE disk' = cache' /\ faults' = faults
  BY <1>1, <1>2, <1>3 DEF BridgeInv, TypeOK, NoneOrFinal, CacheCoversDisk
<1>4. CASE faults' = faults + 1 /\ disk' = disk
  BY <1>1, <1>2, <1>4 DEF BridgeInv, TypeOK, NoneOrFinal, CacheCoversDisk
<1> QED
  BY <1>3, <1>4 DEF Observe, SaveCache

\* A transaction of the keeper joins the mempool.
LEMMA SendingKeepsFaith ==
  ASSUME BridgeInv, NEW t \in FaithfulTx, mempool' = Append(mempool, t)
  PROVE  mempool' \in Seq(FaithfulTx) /\ mempool' \in Seq(SettleTx \union RelayTx)
BY DEF BridgeInv, TypeOK, FaithfulTx

\* The keeper's steps preserve the invariant.
LEMMA KeeperSteps ==
  ASSUME BridgeInv,
         \/ ReadSettled \/ ReadStatus \/ SendSettle \/ ReadLeg \/ SendRelay
         \/ Receipt \/ CallFails \/ Crash \/ Restart
  PROVE  BridgeInv'
<1>0. /\ mempool \in Seq(FaithfulTx) /\ mempool \in Seq(SettleTx \union RelayTx)
      /\ cache \in [Vaults -> Fraction] /\ disk \in [Vaults -> Fraction]
      /\ elysium \in BOOLEAN /\ holding \in [Mirrored -> 0 .. Hold]
      /\ relayedLegs \subseteq Mirrored
      /\ crashes \in Nat /\ faults \in Nat /\ lost \in Nat /\ fills \in Nat /\ relays \in Nat
      /\ NoneOrFinal(cache) /\ NoneOrFinal(disk) /\ CacheCoversDisk
      /\ pc \in Visiting => Here \in Vaults
  BY HereIsVault DEF BridgeInv, TypeOK, OnRoute
<1>1. CASE ReadSettled
  <2>1. /\ pc = "settled" /\ pc \in Visiting
        /\ UNCHANGED <<chain, mempool, disk, cache, elysium, holding, relayedLegs>>
        /\ UNCHANGED <<crashes, faults, lost, fills, relays>>
    BY <1>1 DEF ReadSettled, Visiting, memory, counts
  <2>2. CASE NextVault
    BY <1>0, <2>1, <2>2, MovingOn
  <2>3. CASE GoTo("status") \/ (Here \in Mirrored /\ GoTo("leg"))
    <3>1. NoneOrFinal(cache)' /\ NoneOrFinal(disk)' /\ CacheCoversDisk'
      BY <1>0, <2>1, <2>3 DEF NoneOrFinal, CacheCoversDisk, GoTo
    <3>2. "status" \in Visiting /\ "leg" \in Visiting
      BY DEF Visiting
    <3> QED
      BY <1>0, <2>1, <2>3, <3>1, <3>2, StayingHere
  <2> QED
    BY <1>1, <2>2, <2>3 DEF ReadSettled
<1>2. CASE ReadStatus
  <2>1. /\ pc = "status" /\ pc \in Visiting
        /\ UNCHANGED <<chain, mempool, elysium, holding, relayedLegs>>
        /\ UNCHANGED <<crashes, lost, fills, relays>>
        /\ "settle" \in Visiting
    BY <1>2 DEF ReadStatus, Visiting
  <2>2. CASE NextVault /\ UNCHANGED <<disk, cache, faults>>
    BY <1>0, <2>1, <2>2, MovingOn
  <2>3. CASE Observe(Here) /\ GoTo("settle")
    <3>1. pc' # "down" /\ pc # "down"
      BY <2>1, <2>3 DEF GoTo
    <3> QED
      BY <1>0, <2>1, <2>3, <3>1, ObservingKeepsFaith, StayingHere
  <2>4. CASE cache[Here] # None /\ GoTo("settle") /\ UNCHANGED <<disk, cache, faults>>
    <3>1. NoneOrFinal(cache)' /\ NoneOrFinal(disk)' /\ CacheCoversDisk'
      BY <1>0, <2>1, <2>4 DEF NoneOrFinal, CacheCoversDisk
    <3> QED
      BY <1>0, <2>1, <2>4, <3>1, StayingHere
  <2> QED
    BY <1>2, <2>2, <2>3, <2>4 DEF ReadStatus
<1>3. CASE SendSettle
  <2>1. /\ pc = "settle" /\ pc \in Visiting
        /\ UNCHANGED <<chain, disk, cache, elysium, holding, relayedLegs>>
        /\ UNCHANGED <<crashes, faults, lost, fills, relays>>
        /\ "receipt" \in Visiting
    BY <1>3 DEF SendSettle, Visiting, memory, counts
  <2>2. CASE NextVault /\ UNCHANGED mempool
    BY <1>0, <2>1, <2>2, MovingOn
  <2>3. CASE GoTo("receipt") /\ mempool' = Append(mempool, [kind |-> "settle", vault |-> Here,
                                                            fraction |-> cache[Here]])
    <3>1. /\ Here \in Vaults /\ cache[Here] # None
          /\ cache[Here] \in Fraction /\ cache[Here] = Final[Here]
      BY <1>0, <2>1 DEF BridgeInv, OnRoute, NoneOrFinal
    <3>2. [kind |-> "settle", vault |-> Here, fraction |-> cache[Here]] \in FaithfulTx
      BY <3>1 DEF FaithfulTx, SettleTx
    <3>3. mempool' \in Seq(FaithfulTx) /\ mempool' \in Seq(SettleTx \union RelayTx)
      BY <2>3, <3>2, SendingKeepsFaith
    <3>4. NoneOrFinal(cache)' /\ NoneOrFinal(disk)' /\ CacheCoversDisk'
      BY <1>0, <2>1, <2>3 DEF NoneOrFinal, CacheCoversDisk
    <3> QED
      BY <1>0, <2>1, <2>3, <3>3, <3>4, StayingHere
  <2> QED
    BY <1>3, <2>2, <2>3 DEF SendSettle
<1>4. CASE ReadLeg
  <2>1. /\ pc = "leg" /\ pc \in Visiting /\ Here \in Mirrored
        /\ UNCHANGED <<chain, mempool, disk, cache, elysium>>
        /\ UNCHANGED <<crashes, faults, lost, fills, relays>>
        /\ "relay" \in Visiting
    BY <1>4 DEF ReadLeg, Visiting, counts, BridgeInv, OnRoute
  <2>2. /\ relayedLegs' \subseteq Mirrored
        /\ holding' \in [Mirrored -> 0 .. Hold]
    BY <1>0, <1>4, <2>1, BridgeAssumption DEF ReadLeg
  <2>3. CASE NextVault
    BY <1>0, <2>1, <2>2, <2>3, MovingOn
  <2>4. CASE GoTo("relay")
    <3>1. NoneOrFinal(cache)' /\ NoneOrFinal(disk)' /\ CacheCoversDisk'
      BY <1>0, <2>1, <2>4 DEF NoneOrFinal, CacheCoversDisk
    <3> QED
      BY <1>0, <2>1, <2>2, <2>4, <3>1, StayingHere
  <2> QED
    BY <1>4, <2>3, <2>4 DEF ReadLeg
<1>5. CASE SendRelay
  <2>1. /\ pc = "relay" /\ pc \in Visiting /\ Here \in Mirrored
        /\ UNCHANGED <<chain, disk, cache, elysium, relayedLegs>>
        /\ UNCHANGED <<crashes, lost, fills, relays>>
        /\ "receipt" \in Visiting
    BY <1>5 DEF SendRelay, Visiting, BridgeInv, OnRoute
  <2>2. /\ faults' \in Nat
        /\ holding' \in [Mirrored -> 0 .. Hold]
    BY <1>0, <1>5, <2>1, BridgeAssumption DEF SendRelay
  <2>3. CASE NextVault /\ UNCHANGED mempool
    BY <1>0, <2>1, <2>2, <2>3, MovingOn
  <2>4. CASE GoTo("receipt") /\ mempool' = Append(mempool, [kind |-> "relay", vault |-> Here])
    <3>1. [kind |-> "relay", vault |-> Here] \in FaithfulTx
      BY <2>1 DEF FaithfulTx, RelayTx
    <3>2. mempool' \in Seq(FaithfulTx) /\ mempool' \in Seq(SettleTx \union RelayTx)
      BY <2>4, <3>1, SendingKeepsFaith
    <3>3. NoneOrFinal(cache)' /\ NoneOrFinal(disk)' /\ CacheCoversDisk'
      BY <1>0, <2>1, <2>4 DEF NoneOrFinal, CacheCoversDisk
    <3> QED
      BY <1>0, <2>1, <2>2, <2>4, <3>2, <3>3, StayingHere
  <2> QED
    BY <1>5, <2>3, <2>4 DEF SendRelay
<1>6. CASE Receipt
  <2>1. /\ pc \in Visiting /\ NextVault
        /\ UNCHANGED <<chain, mempool, disk, cache, elysium, holding, relayedLegs>>
        /\ UNCHANGED <<crashes, faults, lost, fills, relays>>
    BY <1>6 DEF Receipt, Visiting, memory, counts
  <2> QED
    BY <1>0, <2>1, MovingOn
<1>7. CASE CallFails
  <2>1. /\ pc \in Visiting /\ NextVault /\ faults' = faults + 1
        /\ UNCHANGED <<chain, mempool, disk, cache, elysium, holding, relayedLegs>>
        /\ UNCHANGED <<crashes, lost, fills, relays>>
    BY <1>7 DEF CallFails, Visiting, memory
  <2> QED
    BY <1>0, <2>1, MovingOn
<1>8. CASE Crash
  <2>1. /\ pc' = "down" /\ visiting' = 1 /\ cache' = NoFractions
        /\ elysium' = FALSE /\ holding' = NoHolds /\ relayedLegs' = {}
        /\ crashes' = crashes + 1
        /\ UNCHANGED <<chain, mempool, disk, faults, lost, fills, relays>>
    BY <1>8 DEF Crash
  <2>2. /\ cache' \in [Vaults -> Fraction] /\ NoneOrFinal(cache)'
        /\ holding' \in [Mirrored -> 0 .. Hold]
    BY <2>1, BridgeAssumption DEF NoFractions, NoHolds, Fraction, NoneOrFinal
  <2>3. visiting' \in 1 .. Len(VaultOrder) + 1
    BY <2>1, BridgeAssumption
  <2>4. TypeOK'
    <3>1. /\ pc' \in Awaits /\ relayedLegs' \subseteq Mirrored /\ crashes' \in Nat
          /\ elysium' \in BOOLEAN
      <4>1. pc' \in Awaits
        BY <2>1 DEF Awaits
      <4>2. elysium' \in BOOLEAN /\ relayedLegs' \subseteq Mirrored
        BY <2>1, Zenon
      <4>3. crashes' \in Nat
        BY <1>0, <2>1
      <4> QED
        BY <4>1, <4>2, <4>3
    <3>2. UNCHANGED <<chain, mempool, disk, faults, lost, fills, relays>>
      BY <2>1
    <3> QED
      BY <2>2, <2>3, <3>1, <3>2 DEF BridgeInv, TypeOK, chain
  <2>5. OnRoute' /\ CacheCoversDisk'
    BY <2>1 DEF OnRoute, Visiting, CacheCoversDisk
  <2> QED
    BY <2>1, <2>2, <2>4, <2>5
       DEF BridgeInv, chain, NoneOrFinal, TicketsFaithful, LegsFaithful
<1>9. CASE Restart
  <2>1. /\ pc' = "idle" /\ cache' = disk
        /\ UNCHANGED <<chain, mempool, disk, elysium, holding, relayedLegs, visiting>>
        /\ UNCHANGED <<crashes, faults, lost, fills, relays>>
    BY <1>9 DEF Restart, LoadedCache, counts
  <2>2. TypeOK'
    BY <2>1 DEF BridgeInv, TypeOK, chain, Awaits
  <2>3. OnRoute' /\ CacheCoversDisk'
    BY <2>1 DEF OnRoute, Visiting, CacheCoversDisk
  <2> QED
    BY <2>1, <2>2, <2>3
       DEF BridgeInv, chain, NoneOrFinal, TicketsFaithful, LegsFaithful
<1> QED
  BY <1>1, <1>2, <1>3, <1>4, <1>5, <1>6, <1>7, <1>8, <1>9

-----------------------------------------------------------------------------
(***************************************************************************)
(* What is promised.                                                       *)
(***************************************************************************)
LEMMA NextBridgeInv == BridgeInv /\ [Next]_vars => BridgeInv'
<1> SUFFICES ASSUME BridgeInv, [Next]_vars
             PROVE  BridgeInv'
  OBVIOUS
<1>1. CASE \E v \in Vaults : SettleOutcome(v) \/ PruneOutcome(v) \/ FillSlot(v) \/ FreeSlot(v)
  BY <1>1, QuietSteps
<1>2. CASE VerifyElysium \/ TimePasses \/ StartTick \/ UNCHANGED vars
  BY <1>2, QuietSteps
<1>3. CASE \/ MineSettle \/ MineRelay \/ DropTx
           \/ \E v \in Vaults : PublicSettle(v) \/ \E leg \in Mirrored : PublicRelay(v, leg)
           \/ \E i \in DOMAIN tickets : Redeem(i) \/ Expire(i)
  BY <1>3, ChainSteps
<1>4. CASE \/ ReadSettled \/ ReadStatus \/ SendSettle \/ ReadLeg \/ SendRelay
           \/ Receipt \/ CallFails \/ Crash \/ Restart
  BY <1>4, KeeperSteps
<1> QED
  BY <1>1, <1>2, <1>3, <1>4 DEF Next, Keeper

LEMMA BridgeInvariant == Spec => []BridgeInv
BY InitBridgeInv, NextBridgeInv, PTL DEF Spec

\* Every variable keeps its type; a tick never runs past the registry.
THEOREM TypeCorrect == Spec => []TypeOK
<1>1. BridgeInv => TypeOK
  BY DEF BridgeInv
<1> QED
  BY <1>1, BridgeInvariant, PTL

\* A keeper that is up knows every fraction that is on its disk.
THEOREM MemoryCoversDisk == Spec => []CacheCoversDisk
<1>1. BridgeInv => CacheCoversDisk
  BY DEF BridgeInv
<1> QED
  BY <1>1, BridgeInvariant, PTL

\* No step changes a fraction on the disk.
LEMMA DiskStep ==
  ASSUME BridgeInv, [Next]_vars, NEW v \in Vaults, disk[v] # None
  PROVE  disk'[v] = disk[v]
<1>1. CASE ReadStatus
  <2>1. CASE UNCHANGED disk
    BY <2>1
  <2>2. CASE Observe(Here) /\ GoTo("settle")
    <3>1. pc # "down" /\ pc' # "down" /\ Here \in Vaults
      BY <1>1, <2>2, HereIsVault DEF BridgeInv, OnRoute, ReadStatus, GoTo, Visiting
    <3> QED
      BY <2>2, <3>1, ObservingKeepsFaith
  <2> QED
    BY <1>1, <2>1, <2>2 DEF ReadStatus
<1>2. CASE UNCHANGED disk
  BY <1>2
<1>3. ReadStatus \/ UNCHANGED disk
  BY DEF Next, vars, Keeper, SettleOutcome, PruneOutcome, FillSlot, FreeSlot, PublicSettle,
         PublicRelay, Relayable, MineSettle, MineRelay, DropTx, Redeem, Expire, StartTick, ReadSettled,
         SendSettle, ReadLeg, SendRelay, Receipt, CallFails, VerifyElysium, TimePasses,
         Crash, Restart
<1> QED
  BY <1>1, <1>2, <1>3

\* The cache file never loses a fraction, whichever keeper writes it.
THEOREM DiskIsKept == Spec => DiskKeepsFractions
<1>1. BridgeInv /\ [Next]_vars =>
        [\A v \in Vaults : disk[v] # None => disk'[v] = disk[v]]_vars
  BY DiskStep
<1> QED
  BY <1>1, BridgeInvariant, PTL DEF Spec, DiskKeepsFractions

\* Every step of the bridge settles a vault to Core's fraction, or a settled
\* vault's leg to the vault's fraction, or changes neither.
LEMMA StepSettlesOnce ==
  ASSUME BridgeInv, [Next]_vars
  PROVE  [SettlesOnce!Next]_<<vaultFraction, legFraction>>
<1>1. CASE MineSettle
  <2>1. CASE Settleable(Head(mempool).vault)
    <3>1. /\ Head(mempool).vault \in Vaults
          /\ Head(mempool).fraction = Final[Head(mempool).vault]
          /\ SettleVault(Head(mempool).vault, Head(mempool).fraction)
          /\ UNCHANGED legFraction
      BY <1>1, <2>1, HeadIsFaithful DEF MineSettle, BridgeInv
    <3>2. SettlesOnce!SettleVault(Head(mempool).vault)
      BY <3>1, SettleVaultIsFinal DEF SettlesOnce!SettleVault
    <3> QED
      BY <3>1, <3>2 DEF SettlesOnce!Next
  <2>2. CASE ~Settleable(Head(mempool).vault)
    BY <1>1, <2>2 DEF MineSettle
  <2> QED
    BY <2>1, <2>2
<1>2. ASSUME NEW v \in Vaults, PublicSettle(v)
      PROVE  SettlesOnce!Next
  <2>1. SettlesOnce!SettleVault(v)
    BY <1>2, SettleVaultIsFinal DEF PublicSettle, SettlesOnce!SettleVault
  <2> QED
    BY <2>1 DEF SettlesOnce!Next
<1>3. ASSUME NEW i \in DOMAIN tickets, Redeem(i)
      PROVE  [SettlesOnce!Next]_<<vaultFraction, legFraction>>
  <2>1. CASE Accepted(tickets[i])
    <3>1. /\ tickets[i].vault = tickets[i].leg
          /\ legFraction[tickets[i].leg] = None
          /\ vaultFraction[tickets[i].leg] = tickets[i].fraction
          /\ tickets[i].fraction = Final[tickets[i].leg]
          /\ tickets[i].leg \in Mirrored
      <4>1. tickets \in Seq(Ticket)
        BY DEF BridgeInv, TypeOK
      <4>2. tickets[i] \in Ticket
        BY <4>1
      <4> QED
        BY <2>1, <4>2 DEF Accepted, BridgeInv, TicketsFaithful, Ticket
    <3>2. vaultFraction[tickets[i].leg] # None
      BY <3>1, FinalIsSome, BridgeAssumption
    <3>3. legFraction' = [legFraction EXCEPT ![tickets[i].leg] = vaultFraction[tickets[i].leg]]
      BY <1>3, <2>1, <3>1 DEF Redeem
    <3>4. SettlesOnce!SettleLeg(tickets[i].leg)
      BY <1>3, <3>1, <3>2, <3>3 DEF Redeem, SettlesOnce!SettleLeg
    <3> QED
      BY <3>1, <3>4 DEF SettlesOnce!Next
  <2>2. CASE ~Accepted(tickets[i])
    BY <1>3, <2>2 DEF Redeem
  <2> QED
    BY <2>1, <2>2
<1>4. CASE UNCHANGED <<vaultFraction, legFraction>>
  BY <1>4
<1>5. \/ MineSettle
      \/ \E v \in Vaults : PublicSettle(v)
      \/ \E i \in DOMAIN tickets : Redeem(i)
      \/ UNCHANGED <<vaultFraction, legFraction>>
  BY DEF Next, vars, chain, Keeper, SettleOutcome, PruneOutcome, FillSlot, FreeSlot,
         PublicRelay, Relayable, MineRelay, DropTx, Expire, StartTick, ReadSettled,
         ReadStatus, SendSettle, ReadLeg, SendRelay, Receipt, CallFails, VerifyElysium,
         TimePasses, Crash, Restart
<1> QED
  BY <1>1, <1>2, <1>3, <1>4, <1>5

\* A market settles once, to Core's fraction, its vault before its leg, however
\* many keepers, transactions and tickets come and go.
THEOREM BridgeSettlesOnce == Spec => ImplementsSettleOnce
<1>1. Init => SettlesOnce!Init
  BY DEF Init, SettlesOnce!Init, NoFractions
<1>2. BridgeInv /\ [Next]_vars => [SettlesOnce!Next]_<<vaultFraction, legFraction>>
  BY StepSettlesOnce
<1> QED
  BY <1>1, <1>2, BridgeInvariant, PTL DEF Spec, ImplementsSettleOnce, SettlesOnce!Spec
=============================================================================
