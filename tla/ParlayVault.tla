---------------------------- MODULE ParlayVault ----------------------------
(***************************************************************************)
(* ParlayVault.sol: parlay tickets (ERC-721) over outcome legs.            *)
(*                                                                         *)
(* A mint escrows a ticket's full maximum payout, the premium from the     *)
(* taker and the rest from the house writer.  Anyone may resolve a ticket  *)
(* once its legs allow a verdict: Dead returns the escrow to the writer    *)
(* recorded at mint, Void gives the premium back to the current holder,    *)
(* Won leaves the escrow to be claimed by the current holder.              *)
(*                                                                         *)
(* One action is one transaction, so a call that reverts is no step.  The  *)
(* legs, the USDC token and the ERC-721 transfers are the environment.     *)
(***************************************************************************)
EXTENDS Integers, Sequences

CONSTANTS
  Accounts,      \* addresses that hold USDC and tickets
  NoAccount,     \* the zero address, owner of a burned ticket
  Signers,       \* keys that may have signed a quote
  Legs,          \* IOutcomeLeg contracts
  Quotes,        \* the quotes ever signed, by any key
  InitialUsdc,   \* what each account starts with
  Owners,        \* accounts that may come to own the contract
  Registrars,    \* accounts the owner may appoint as leg registrar
  Writers,       \* accounts the owner may appoint as the house writer
  Floors,        \* premium floors the owner may set, in basis points
  Approvals,     \* the approvals accounts may give the vault: <<account, amount>>
  MaxTime,       \* bound: the clock stops there
  Donor,         \* the account that sends USDC to the vault outside a mint
  MaxGifts       \* bound: how much it sends

MaxLegs == 10
Statuses == {"Open", "Won", "Dead", "Void"}
LegChoice == [vault : Legs, isYes : BOOLEAN]
Quote == [quoteId : Nat, signer : Signers, taker : Accounts,
          legs : Seq(LegChoice), premium : Nat, maxPayout : Nat, deadline : Nat]
Parlay == {p \in [legs : Seq(LegChoice), writer : Accounts,
                  premium : Nat, maxPayout : Nat, status : Statuses] :
             p.premium < p.maxPayout}

\* What settleFractionWad tells a parlay: 0, 1e18, or something in between.
Fractions == {"zero", "partial", "one"}

ASSUME ConstantsAssumption ==
  /\ Quotes \subseteq Quote
  /\ NoAccount \notin Accounts
  /\ InitialUsdc \in [Accounts -> Nat]
  /\ Owners \subseteq Accounts
  /\ Registrars \subseteq Accounts \union {NoAccount}
  /\ Writers \subseteq Accounts
  /\ Floors \subseteq Nat
  /\ Approvals \subseteq Accounts \X Nat
  /\ MaxTime \in Nat
  /\ Donor \in Accounts
  /\ MaxGifts \in Nat

VARIABLES
  owner, legRegistrar, writer, quoteSigner, minPremiumBps, allowedLeg,
  parlays,     \* parlays[id], ids from 1 as ++nextId gives them
  usedQuotes,
  ownerOf,     \* ERC-721 owner of each ticket
  pot,         \* USDC balance of the vault
  usdc,        \* USDC balance of each account
  allowance,   \* what each account lets the vault pull
  fraction,    \* fraction[l]: "unsettled", or the leg's final fraction
  now,         \* block.timestamp
  events,      \* per ticket, what ParlayMinted and the burn's Transfer log
  gifts        \* history: USDC the vault received outside a mint

config == <<owner, legRegistrar, writer, quoteSigner, minPremiumBps, allowedLeg>>
money == <<pot, usdc, allowance, gifts>>
tickets == <<parlays, usedQuotes, ownerOf, events>>
vars == <<config, money, tickets, fraction, now>>

Event == [taker : Accounts, quoteId : Nat, payee : Accounts \union {NoAccount}]
Ids == 1 .. Len(parlays)

TypeOK ==
  /\ owner \in Accounts
  /\ legRegistrar \in Accounts \union {NoAccount}
  /\ writer \in Accounts
  /\ quoteSigner \in Signers
  /\ minPremiumBps \in Nat
  /\ allowedLeg \subseteq Legs
  /\ parlays \in Seq(Parlay)
  /\ usedQuotes \subseteq Nat
  /\ ownerOf \in Seq(Accounts \union {NoAccount})
  /\ Len(ownerOf) = Len(parlays)
  /\ pot \in Nat
  /\ usdc \in [Accounts -> Nat]
  /\ allowance \in [Accounts -> Nat]
  /\ fraction \in [Legs -> Fractions \union {"unsettled"}]
  /\ now \in 0 .. MaxTime
  /\ events \in Seq(Event)
  /\ Len(events) = Len(parlays)
  /\ gifts \in 0 .. MaxGifts

Init ==
  /\ owner \in Owners
  /\ legRegistrar = NoAccount
  /\ writer \in Writers
  /\ quoteSigner \in Signers
  /\ minPremiumBps \in Floors
  /\ allowedLeg = {}
  /\ parlays = << >>
  /\ usedQuotes = {}
  /\ ownerOf = << >>
  /\ pot = 0
  /\ usdc = InitialUsdc
  /\ allowance = [a \in Accounts |-> 0]
  /\ fraction = [l \in Legs |-> "unsettled"]
  /\ now = 0
  /\ events = << >>
  /\ gifts = 0

-----------------------------------------------------------------------------
(***************************************************************************)
(* Configuration.  Only the owner calls the setters; the leg registrar may *)
(* call allowLeg, which can only add.                                      *)
(***************************************************************************)
SetOwner(caller, o) ==
  /\ caller = owner
  /\ owner' = o
  /\ UNCHANGED <<legRegistrar, writer, quoteSigner, minPremiumBps, allowedLeg,
                 money, tickets, fraction, now>>

SetLegRegistrar(caller, r) ==
  /\ caller = owner
  /\ legRegistrar' = r
  /\ UNCHANGED <<owner, writer, quoteSigner, minPremiumBps, allowedLeg,
                 money, tickets, fraction, now>>

SetWriter(caller, w) ==
  /\ caller = owner
  /\ writer' = w
  /\ UNCHANGED <<owner, legRegistrar, quoteSigner, minPremiumBps, allowedLeg,
                 money, tickets, fraction, now>>

SetQuoteSigner(caller, s) ==
  /\ caller = owner
  /\ quoteSigner' = s
  /\ UNCHANGED <<owner, legRegistrar, writer, minPremiumBps, allowedLeg,
                 money, tickets, fraction, now>>

SetMinPremiumBps(caller, bps) ==
  /\ caller = owner
  /\ bps < 10000
  /\ minPremiumBps' = bps
  /\ UNCHANGED <<owner, legRegistrar, writer, quoteSigner, allowedLeg,
                 money, tickets, fraction, now>>

AllowLeg(caller, l) ==
  /\ caller \in {owner, legRegistrar}
  /\ allowedLeg' = allowedLeg \union {l}
  /\ UNCHANGED <<owner, legRegistrar, writer, quoteSigner, minPremiumBps,
                 money, tickets, fraction, now>>

-----------------------------------------------------------------------------
(***************************************************************************)
(* The environment: token approvals, transfers, time and leg settlement.   *)
(***************************************************************************)
Approve(a, n) ==
  /\ allowance' = [allowance EXCEPT ![a] = n]
  /\ UNCHANGED <<config, pot, usdc, gifts, tickets, fraction, now>>

\* Anyone can send USDC straight to the vault's address.
Donate ==
  /\ usdc[Donor] > 0
  /\ gifts < MaxGifts
  /\ usdc' = [usdc EXCEPT ![Donor] = @ - 1]
  /\ pot' = pot + 1
  /\ gifts' = gifts + 1
  /\ UNCHANGED <<config, allowance, tickets, fraction, now>>

TransferTicket(id, to) ==
  /\ ownerOf[id] \in Accounts
  /\ ownerOf' = [ownerOf EXCEPT ![id] = to]
  /\ UNCHANGED <<config, money, parlays, usedQuotes, events, fraction, now>>

\* A leg settles once and for all (OutcomeVault.settle, OutcomeLeg.receiveSettlement).
SettleLeg(l, f) ==
  /\ fraction[l] = "unsettled"
  /\ fraction' = [fraction EXCEPT ![l] = f]
  /\ UNCHANGED <<config, money, tickets, now>>

Tick ==
  /\ now < MaxTime
  /\ now' = now + 1
  /\ UNCHANGED <<config, money, tickets, fraction>>

-----------------------------------------------------------------------------
(***************************************************************************)
(* mint: the taker submits a signed quote.                                 *)
(***************************************************************************)
Settled(leg) == fraction[leg.vault] # "unsettled"

\* Mutant: a quote may be used again.
AnyQuote(q) == TRUE
FreshQuote(q) == q.quoteId \notin usedQuotes

LiveQuote(q) ==
  /\ q.signer = quoteSigner
  /\ now <= q.deadline
  /\ FreshQuote(q)
  /\ Len(q.legs) \in 1 .. MaxLegs

PriceAccepted(q) ==
  /\ q.premium < q.maxPayout
  /\ q.premium * 10000 >= q.maxPayout * minPremiumBps

LegsAccepted(q) ==
  \A i \in DOMAIN q.legs : q.legs[i].vault \in allowedLeg /\ ~Settled(q.legs[i])

\* safeTransferFrom(from, vault, n) on balances and allowances.  Mutant: the
\* allowance alone decides.
AnyBalance(bal, allow, from, n) == allow[from] >= n
CanPull(bal, allow, from, n) == bal[from] >= n /\ allow[from] >= n
Pulled(f, from, n) == [f EXCEPT ![from] = @ - n]

HouseShare(q) == q.maxPayout - q.premium

Mint(q) ==
  /\ LiveQuote(q)
  /\ PriceAccepted(q)
  /\ LegsAccepted(q)
  /\ CanPull(usdc, allowance, q.taker, q.premium)
  /\ CanPull(Pulled(usdc, q.taker, q.premium), Pulled(allowance, q.taker, q.premium),
             writer, HouseShare(q))
  /\ usdc' = Pulled(Pulled(usdc, q.taker, q.premium), writer, HouseShare(q))
  /\ allowance' = Pulled(Pulled(allowance, q.taker, q.premium), writer, HouseShare(q))
  /\ pot' = pot + q.premium + HouseShare(q)
  /\ parlays' = Append(parlays, [legs |-> q.legs, writer |-> writer, premium |-> q.premium,
                                 maxPayout |-> q.maxPayout, status |-> "Open"])
  /\ usedQuotes' = usedQuotes \union {q.quoteId}
  /\ ownerOf' = Append(ownerOf, q.taker)
  /\ events' = Append(events, [taker |-> q.taker, quoteId |-> q.quoteId, payee |-> NoAccount])
  /\ UNCHANGED <<config, gifts, fraction, now>>

-----------------------------------------------------------------------------
(***************************************************************************)
(* resolveParlay: one pass over the legs decides.  A lost leg kills the    *)
(* ticket whatever its siblings do; a settled fractional leg voids it even *)
(* while a sibling is unsettled; otherwise every leg must have hit.        *)
(***************************************************************************)
LostAt(leg) == IF leg.isYes THEN "zero" ELSE "one"

Lost(id) == \E i \in DOMAIN parlays[id].legs :
              fraction[parlays[id].legs[i].vault] = LostAt(parlays[id].legs[i])
Fractional(id) == \E i \in DOMAIN parlays[id].legs :
                    fraction[parlays[id].legs[i].vault] = "partial"
AllSettled(id) == \A i \in DOMAIN parlays[id].legs : Settled(parlays[id].legs[i])

\* Mutants: dead only once every leg is in; won without waiting for the last leg.
DeadWhenAllSettled(id) == Lost(id) /\ AllSettled(id)
WonWhenNoneLost(id) == ~Lost(id) /\ ~Fractional(id)
IsDead(id) == Lost(id)
IsVoid(id) == ~Lost(id) /\ Fractional(id)
IsWon(id) == ~Lost(id) /\ ~Fractional(id) /\ AllSettled(id)

\* Mutant: the escrow goes to whoever is writer now.
CurrentWriter(id) == writer
Funder(id) == parlays[id].writer
Holder(id) == ownerOf[id]

SetStatus(id, s) == parlays' = [parlays EXCEPT ![id].status = s]
Pays(bal, to, n) == [bal EXCEPT ![to] = @ + n]

\* Mutant: the payout leaves the ticket in its holder's hands.
NoBurn(id) ==
  /\ events' = [events EXCEPT ![id].payee = ownerOf[id]]
  /\ UNCHANGED ownerOf
Burn(id) ==
  /\ ownerOf' = [ownerOf EXCEPT ![id] = NoAccount]
  /\ events' = [events EXCEPT ![id].payee = ownerOf[id]]

ResolveDead(id) ==
  /\ parlays[id].status = "Open"
  /\ IsDead(id)
  /\ SetStatus(id, "Dead")
  /\ pot >= parlays[id].maxPayout
  /\ pot' = pot - parlays[id].maxPayout
  /\ usdc' = Pays(usdc, Funder(id), parlays[id].maxPayout)
  /\ UNCHANGED <<config, allowance, gifts, usedQuotes, ownerOf, events, fraction, now>>

ResolveVoid(id) ==
  /\ parlays[id].status = "Open"
  /\ IsVoid(id)
  /\ SetStatus(id, "Void")
  /\ Burn(id)
  /\ pot >= parlays[id].maxPayout
  /\ pot' = pot - parlays[id].maxPayout
  /\ usdc' = Pays(Pays(usdc, Holder(id), parlays[id].premium),
                  Funder(id), parlays[id].maxPayout - parlays[id].premium)
  /\ UNCHANGED <<config, allowance, gifts, usedQuotes, fraction, now>>

ResolveWon(id) ==
  /\ parlays[id].status = "Open"
  /\ IsWon(id)
  /\ SetStatus(id, "Won")
  /\ UNCHANGED <<config, money, usedQuotes, ownerOf, events, fraction, now>>

\* claim: by the holder.  An Open ticket is resolved first; a verdict other than
\* Won reverts the whole call.
Claim(id) ==
  /\ \/ parlays[id].status = "Won"
     \/ parlays[id].status = "Open" /\ IsWon(id)
  /\ ownerOf[id] \in Accounts
  /\ SetStatus(id, "Won")
  /\ Burn(id)
  /\ pot >= parlays[id].maxPayout
  /\ pot' = pot - parlays[id].maxPayout
  /\ usdc' = Pays(usdc, ownerOf[id], parlays[id].maxPayout)
  /\ UNCHANGED <<config, allowance, gifts, usedQuotes, fraction, now>>

-----------------------------------------------------------------------------
Next ==
  \/ \E caller \in Accounts :
       \/ \E o \in Owners : SetOwner(caller, o)
       \/ \E r \in Registrars : SetLegRegistrar(caller, r)
       \/ \E w \in Writers : SetWriter(caller, w)
       \/ \E s \in Signers : SetQuoteSigner(caller, s)
       \/ \E bps \in Floors : SetMinPremiumBps(caller, bps)
       \/ \E l \in Legs : AllowLeg(caller, l)
  \/ \E approval \in Approvals : Approve(approval[1], approval[2])
  \/ Donate
  \/ \E l \in Legs, f \in Fractions : SettleLeg(l, f)
  \/ Tick
  \/ \E q \in Quotes : Mint(q)
  \/ \E id \in Ids :
       \/ \E to \in Accounts : TransferTicket(id, to)
       \/ ResolveDead(id)
       \/ ResolveVoid(id)
       \/ ResolveWon(id)
       \/ Claim(id)

Spec == Init /\ [][Next]_vars

-----------------------------------------------------------------------------
(***************************************************************************)
(* What the vault owes on a ticket: the full payout until the escrow has   *)
(* left, nothing afterwards.  A Won ticket's escrow leaves when it burns.  *)
(***************************************************************************)
Owed(id) ==
  IF \/ parlays[id].status = "Open"
     \/ parlays[id].status = "Won" /\ ownerOf[id] # NoAccount
  THEN parlays[id].maxPayout ELSE 0

\* The interval lo .. hi divides into n consecutive shares of the sizes owed[1..n].
DividesInto(lo, hi, n, owed) ==
  \E cut \in [0 .. n -> 0 .. hi] :
    /\ cut[0] = lo
    /\ cut[n] = hi
    /\ \A i, j \in 0 .. n : i <= j => cut[i] <= cut[j]
    /\ \A i \in 1 .. n : cut[i] = cut[i - 1] + owed[i]

\* The vault's balance, less what was sent to it outside a mint, divides into
\* one share per ticket, exactly as large as what is owed on it: every
\* outstanding ticket can be paid in full whatever happens to the others, and no
\* escrow is left behind (ParlayVault.sol, "Full max payout is escrowed at
\* mint"; ParlayAnchor.t.sol, "resolvingOneParlayNeverTouchesAnothers").
EscrowPartition ==
  DividesInto(gifts, pot, Len(parlays), [id \in Ids |-> Owed(id)])

\* A verdict is always one the legs' final results support: nothing is Won
\* with a leg missing or not hit, nothing Dead without a lost leg, nothing
\* Void without a fractional one.
VerdictsMatchLegs ==
  \A id \in Ids :
    /\ parlays[id].status = "Won" => IsWon(id)
    /\ parlays[id].status = "Dead" => Lost(id)
    /\ parlays[id].status = "Void" => Fractional(id)

\* The ticket that a quote backs
TicketOf(quoteId) == CHOOSE id \in Ids : events[id].quoteId = quoteId
Escrowed(id) ==
  [legs |-> parlays[id].legs, funder |-> parlays[id].writer, holder |-> ownerOf[id],
   premium |-> parlays[id].premium, escrow |-> Owed(id), verdict |-> parlays[id].status]

Tickets == [quoteId \in {events[id].quoteId : id \in Ids} |-> Escrowed(TicketOf(quoteId))]

\* With one pot for all tickets, one allowance per account, writers, keys, floors
\* and legs that change, and the same quote signed and sent again, the vault does
\* what an escrow for every quote would: each is filled once, in full, and leaves
\* once, whole, on a verdict of the legs, to the writer that filled it or to
\* whoever holds the ticket then (usedQuotes; "The burn is the double-pay guard";
\* "payout follows ownership").
Escrow == INSTANCE ParlayEscrow WITH
  Initial <- InitialUsdc, balance <- usdc, result <- fraction, tickets <- Tickets
KeepsEscrows == Escrow!Spec

\* What account a put into ticket id and got out of it, according to the events.
PaidIn(a, id) ==
  (IF events[id].taker = a THEN parlays[id].premium ELSE 0)
  + (IF parlays[id].writer = a THEN parlays[id].maxPayout - parlays[id].premium ELSE 0)
PaidOut(a, id) ==
  LET p == parlays[id]
      funder == p.writer = a
      payee == events[id].payee = a
  IN  CASE p.status = "Open" -> 0
        [] p.status = "Dead" -> IF funder THEN p.maxPayout ELSE 0
        [] p.status = "Void" -> (IF payee THEN p.premium ELSE 0)
                                + (IF funder THEN p.maxPayout - p.premium ELSE 0)
        [] p.status = "Won"  -> IF payee THEN p.maxPayout ELSE 0

\* d[1] + ... + d[n].
Total(d, n) ==
  LET sum[i \in 0 .. n] == IF i = 0 THEN 0 ELSE sum[i - 1] + d[i]
  IN  sum[n]

\* Every account's balance is what the tickets' history says it is: stakes come
\* from the taker and from the writer of the day, a dead or void ticket's
\* escrow goes back to the writer that funded it whoever is writer by then,
\* refunds and winnings go to the holder of that moment.
BalancesFollowEvents ==
  \A a \in Accounts :
    usdc[a] = InitialUsdc[a] - (IF a = Donor THEN gifts ELSE 0)
              + Total([id \in Ids |-> PaidOut(a, id) - PaidIn(a, id)], Len(parlays))

-----------------------------------------------------------------------------
(***************************************************************************)
(* resolveParlay is permissionless and the writer service polls for it, so *)
(* a resolution that stays possible happens.  Nobody has to claim, trade,  *)
(* mint or settle a leg.                                                   *)
(***************************************************************************)
PossibleIds == {q.quoteId : q \in Quotes}

FairSpec ==
  /\ Spec
  /\ \A id \in PossibleIds :
       WF_vars(id \in Ids /\ (ResolveDead(id) \/ ResolveVoid(id)))

\* A ticket that can no longer be won does not keep its escrow locked: once a
\* leg is lost or fractional it is resolved, without waiting for legs that may
\* never settle (resolveParlay's early return and early void).
UnwinnableEscrowReturns ==
  \A id \in PossibleIds :
    (id \in Ids /\ parlays[id].status = "Open" /\ (Lost(id) \/ Fractional(id)))
      ~> (id \in Ids /\ parlays[id].status \in {"Dead", "Void"})

=============================================================================
