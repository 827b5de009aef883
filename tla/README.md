# Hyperflip: models, checks and proofs

TLA+ models of Hyperflip, sports parlays over prediction-market outcomes: what each
part keeps and does, how the parts interleave and fail, what TLC checks on small
instances and what TLAPS proves for every instance. Every definition is translated
from the code; `PROJECT.json` maps each one to its lines.

Paths below are relative to the repository (`src/src/` holds the Solidity sources).

## 1. The system

A bettor combines legs, each "outcome YES/NO of a market", into one ticket. Markets
live on HyperCore, the chain's exchange; an *outcome vault* wraps each of them for
the EVM. Tickets live on HyperEVM, or on the L2 Elysium, in the *parlay vault*, where
legs are either the outcome vaults themselves or *outcome legs*, mirrors that a
*settlement relay* reaches with retryable tickets. A *writer* prices tickets, signs
quotes and funds the house side; a *keeper* watches Core and tells the contracts what
it sees.

    web app --/quote--> writer --signed quote--> web app --mint--> ParlayVault
                          |  ^                                      |   ^
                          |  +------------ events, pokes -----------+   | settled(), fraction
                          v                                             |
                    exposure book                        OutcomeVault / OutcomeLeg
                                                            ^   |            ^
       HyperCore <--CoreWriter actions, precompile reads----+   | relay      | retryable
           ^                                                    v            | ticket
           +---------- keeper: balances, status, attest, settle, relay ------+
                            |
                            v
                      KeeperVerifier <--statusOf-- OutcomeVault

### Inventory

| Part | State | Operations | Hard because | Correct when |
|---|---|---|---|---|
| Parlay escrow (`ParlayVault.sol`) | roles, floor, allowed legs, tickets with their writer and escrow, used quote ids, one USDC pot | admin setters, `mint`, ERC-721 transfers, `resolveParlay`, `claim` | one pot for all tickets; writer, holder and owner change while tickets are open; legs settle in any order; early verdicts | the pot splits into what each ticket is owed; verdicts agree with the legs; one ticket per quote id; escrow of unwinnable tickets returns |
| Outcome vault (`OutcomeVault.sol`, `OutcomeToken.sol`, `CoreConstants.sol`) | one pending deposit or redeem, debts, outbound tracker, settlement, two tokens | `deposit`, `claim/cancelDeposit`, `requestRedeem`, `claim/cancelRedeem`, `withdraw`, `settle`, `pullSettledFunds`, `redeemSettled`, admin | Core acts later, or silently not at all; sends are dropped whole; two unit scales; one slot | pairs are backed; debts are covered; sends are tracked; slots clear; early redeemers take nothing from late ones |
| Execution verifier (`IExecutionVerifier.sol`, `KeeperVerifier.sol`) | attestations, delay, pause, roles | `attest`, `statusOf`, admin | delays change, pauses come and go | one verdict per operation, never revised |
| Settlement relay and legs (`SettlementRelay.sol`, `OutcomeLeg.sol`) | immutable target; fraction | `relay`, `receiveSettlement` | anyone may relay any vault to any leg; tickets expire or repeat | a leg settles once, to its own vault's fraction |
| Keeper settlement loop (`keeper/src/settlement.ts`) | fraction cache in memory and on disk, relay holds | `tick` | Core forgets an outcome: the cache may hold the only copy; crashes, failing disk and calls | the disk keeps every fraction; every recorded fraction settles its vault and leg |
| Keeper balance loop (`keeper/src/balance.ts`, `pure.ts`) | samples, the tracked operation | `tick`, `watchOpQueued`, `seedPendingOps` | no event tells of a drop; two clocks; late answers; restarts without history | an attestation is what Core did |
| Writer exposure book and poker (`exposure.ts`, `poker.ts`, `settlement.ts`) | reservations, open tickets, scan position | `check`, `reserve`, `release`, `addOpen`, `tick`, `seed` | quotes in flight, mints at the deadline, restarts with an empty book | exposure stays within caps, counts until it ends, and is released |
| Writer quote handling (`server.ts`, `bankroll.ts`) | in-flight requests, metrics | `/quote`, `/limits`, `/me`, waitlist and admission routes | what was read before an await is used after it | no quote beyond the caps; a failed quote leaves no reservation |
| Writer pricing (`pricing.ts`, `units.ts`, `priceFeed.ts`, `spotPx.ts`, `infoApi.ts`) | last fresh ask of each coin | joint probability, edge, payout, book walk, spot price | rounding on every step, stale or thin books, the cap on multiples | the terms fit the vault's checks, no price beats fair odds, no quote outlives its legs |
| Live prior (`livePrior.ts`) | lookups, samples and suspensions per market | `tick`, `pricedYes` | feeds fail, list and delist games; a soccer question is scaled as one | a jump suspends; a question's prices sum to one; a listed game is sampled again |
| Waitlist and sheet (`waitlist.ts`, `googleSheets.ts`, `auth.ts`, `Code.gs`) | entries in memory and file, the sheet's rows | `signup`, `claim`, `admit`, `sync`, the script's `doPost` and `sendApproved` | failing saves, lost answers on both sides, two programs that call each other | what was answered survives; one row each; `sent` means mailed; every signup exported |
| Quote journal (`journal.ts`) | append-only file | `append`, startup check | a partial append | after a failure nothing more is appended |
| Web ticket flow (`web/app/(trading)/build`, `web/lib/ticket*.ts`) | slip, quote, approval, mint, memory of mints | edit, quote, approve, mint, reload | slip, wallet and chain change during awaits | what is minted is what is shown, once, and remembered; a slip gets its answer |
| Web positions (`web/app/(trading)/positions`, `web/lib/position*.ts`) | rows, cursor, receipts in localStorage | load, load more, claim, discard receipts | an index and nodes that lag; superseded loads go on | paid tickets are not offered; the gap of the index is covered |
| Subgraph (`subgraph/src/mapping.ts`) | index | event handlers | none of its own | mirrors events |
| Rotation and house tools (`tools/*.mjs`, `ops/systemd`) | registry file, outcomes on Core, vaults and legs | house sync, wrap, rotate, restart of the keeper | runs that fail or are killed half way, feeds that are down, kickoffs that move | no open leg leaves the registry; Core is told what was reported; budgets hold |
| Deployment and operations (`script/`, `scripts/`, `registry/`, alerts) | manifests | deploy, forward alerts | one-off | not applicable |

`PROJECT.json` lists the hazards of these parts, each at its line, with the properties
that would catch it.

## 2. Modules

| Module | Models | Status |
|---|---|---|
| `ParlayEscrow` | abstract: an escrow of its own for every quote | abstract specification |
| `ParlayVault` | the parlay escrow: one action per transaction; legs, USDC and ticket transfers as environment; implements `ParlayEscrow` | checked, proved (`ParlayVaultProofs`) |
| `ExecutionVerifier` | abstract: one verdict per operation, reported or held back | abstract specification |
| `KeeperVerifier` | the contract; implements `ExecutionVerifier` | proved (`KeeperBalanceProofs`), checked inside `KeeperBalance` |
| `HyperCore` | the vault's Core account, its queues, drops, losses, prunes (external; after `CoreSim.sol` and `CoreConstants.sol`) | used by `OutcomeVault` |
| `OutcomeVault` | the vault; composed with `HyperCore` | checked, proved (`OutcomeVaultProofs`) |
| `SettleOnce` | abstract: a market settles once, vault before leg | abstract specification |
| `SettlementBridge` | Core status, vault, relay, tickets, leg and the keeper's settlement tick; implements `SettleOnce` | checked, proved (`SettlementBridgeProofs`) |
| `KeeperBalance` | the keeper's balance loop and the vault's slot; composed with `KeeperVerifier` | checked, proved (`KeeperBalanceProofs`) |
| `WriterBook` | `/quote` from the readiness gate on, the exposure book, the poker, and as much of the chain as they see | checked, proved (`WriterBookProofs`) |
| `Pricing` | the integer arithmetic of a quote | used by `QuotePath` |
| `QuotePath` | one visitor's `/quote` requests: rate limit, validation, prices, terms | checked, proved (`WriterServiceProofs`) |
| `LivePrior` | the odds feeds and what they serve | checked, proved (`WriterBookProofs`) |
| `Waitlist` | the writer's list, its export, the sheet and the sheet's script | checked, proved (`WriterServiceProofs`) |
| `Ticket` | the page that builds, approves and mints a ticket | checked, proved (`WebProofs`) |
| `Positions` | the page of a wallet's tickets, its receipts, the index | checked, proved (`WebProofs`) |
| `HousePlan` | the pure plan of the house sync | used by `Registry` |
| `Registry` | the hourly service over Core, vaults, legs and the registry file | checked, proved (`RegistryProofs`) |
| `MC*` | small instances | |

`WriterBookProofs`, `WriterServiceProofs` and `WebProofs` each extend two components, so
the variables' tuple, `Init`, `Next`, `Spec` and `TypeOK` of `LivePrior`, `Waitlist` and
`Ticket` carry a prefix.

### How state and actions correspond to the code

**ParlayVault.** Variables are the contract's storage (`parlays`, `usedQuotes`,
`ownerOf`, roles, `allowedLeg`, `pot` = the contract's USDC) plus the accounts'
balances and approvals and an `events` history (taker, quote id, payee). `Mint` is one
transaction with all its `require`s; `resolveParlay` is three actions, one per verdict
it may reach (`ResolveDead`, `ResolveVoid`, `ResolveWon`); a signature is the identity
of the signer. Fractions are only `zero`, `partial`, `one`: resolution tells no others
apart. `TransferTicket` is ERC-721's transfer. Seen as a `ParlayEscrow`, the contract
is `Tickets`: each used quote id with the ticket it backs - its legs, the writer that
funded it, its holder, what is still owed on it, its verdict; roles, floors, keys, the
one pot and the allowances do not appear there.

**OutcomeVault and HyperCore.** Amounts are integers in two scales, EVM units and Core
wei, with the contract's truncating conversions. A call queues an entry for Core;
`CoreStep` credits, executes, rejects, drops or prunes at any time. `PayOut` credits a
user when the spotSend is queued and pays when the balance is here, as `_payOut`
does. Verdicts are those of true attestations; what makes them true is `KeeperBalance`,
what makes them final is `KeeperVerifier`.

**SettlementBridge.** A step of the keeper is what runs between two awaits; `pc` names
the await. `Observe` puts a fraction in the cache and writes the whole file, which may
fail. Its transactions sit in a mempool, may revert or vanish; `Receipt` returns
whatever happened. The hold on relays runs down with `TimePasses`. `Crash` loses all
memory, `Restart` reads the file. One deposit or redeem may sit in the vault's slot,
where it blocks `settle` (`_requireIdle`).

**KeeperBalance.** Two clocks: the chain's, and the keeper's, `Skew` behind. The tick
(read, record, evaluate, attest) interleaves with log handlers (block read, balance
read, track). An attestation mines late, its receipt may never be seen. After a crash
`Seed` rebuilds the tracked operation without a confident baseline.

**WriterBook.** A request is `new`, `priced` (the reads done), `signing` (reserved),
then `quoted` or `rejected`; check and reserve are one step, as the code insists. The
poker seeds (head first, then the open tickets), fetches a batch of events, books
mints one await at a time, releases what is resolved and pokes what cannot pay. The
next scan begins where the batch ended, so that a mint is booked or still ahead of the
scan (`Ahead`). A crash empties the book.

**Pricing and QuotePath.** `Pricing` computes with the code's truncating divisions, at
any fixed point. In `QuotePath` a request goes through `auth`, `pricing` and `room`,
the awaits of `handleQuote`; `FetchPrices` reads all legs (order book, prior or spot
price with its staleness and placeholder); the end is `quoted` with its terms, or
`refused` with the stake that would fit. The limiter keeps its list of hits.

**LivePrior.** The clock is kept as ages, so that the state space is finite without a
bound on time. `Turn` is one game's turn in a tick (`pm` and `mn` are the cached
lookups, a miss is retried later); `Round` is the turn of a soccer question, whose
members are scaled together; `Pass` is the poll interval.

**Waitlist.** `entries` is the memory, `file` the disk; `save` writes, or throws. Four
actors: people (`Signup`, `Access`, `DeleteRow`, `Approve`), the export loop (`Sync`,
`SheetTakes`, `Synced`), the sheet's script (`StartScript` ... `EndScript`, under the
script lock) and the admission that it posts (`Admit`, `Mail`, `MailReturns`,
`AdmitReturns`). A call that times out may still arrive (`StrayTaken`).

**Ticket.** A render is a step (`Render`); timers, the answer to the quote, the wallet
and the chain come between renders. Revisions and request numbers are kept as "still
current or not", which is all that the code asks of them. `Reload` is also an unmount.

**Positions.** Every block is one event of one of the wallet's tickets; `indexed` is
the subgraph's block and each node read chooses a block within `Lag`. A load awaits its
page, the receipts and their verification; a superseded load still discards receipts,
as the code lets it. `receipts` is all that was ever remembered, `kept` what is in
localStorage: the list has room for `MaxReceipts` (20 in `position-receipts.ts`), and a
newer receipt pushes the oldest out (`Newest`).

**HousePlan and Registry.** `HousePlan` says which contract is settled at what, and
what is registered on which venue. In `Registry` a run of the service is `Sync` (the
plan applied, call by call refused or not), `Wrap` per coin, `Write`, `Rotate`,
`Restart`; `Killed` may end it between any two. `writeRegistry` truncates
`registry/markets.json` and writes it in place (`rotate-lib.mjs:215-218`): `Write` comes
to its end, `WriteCut` is a kill or a full disk before that, which leaves a file that
cannot be parsed (`file.whole`). Neither sync, rotation nor a start of the keeper gets
past such a file. The keeper watches the rows of its last start. A coin's vault and leg settle through it or through anybody.

## 3. Runs

| Run | Question | Instance |
|---|---|---|
| `parlay` | is every ticket's escrow its own, are verdicts right and does unwinnable escrow return, whatever is minted, moved, resolved and whoever is signer or writer? | 2 accounts, 1 owner, 2 legs, 3 quotes of which two share an id, 2 signers, 2 floors, a deadline, 1 gift; 243 thousand states |
| `vault_noise` | pairs, promises, refunds and the slot, with everything Core and others may do | 3 operations of 100 or 205 units, 10 wei a unit, 0.95% merge fee, one drop, loss, stray credit and gift; 110 thousand states |
| `vault_settlement` | who is paid what after settlement | 2 holders, fractions 0, 1/3, 2/3 (one relayed to 1), 2 pulls, 1 clear, 1 gift; 725 thousand states |
| `bridge` | does each market settle once and right, and does it settle at all? | 2 markets, one mirrored; a crash, one mishap (call, disk, transaction or ticket), one operation in the slot, a foreign relay; 377 thousand states |
| `keeper_balance` | is what is attested true, and does the verifier keep its promise? | 2 operations (split or merge), 2 delays, skew = margin = 1, history of 2 samples, one restart, one act of the owner, 6 time units; 2.0 million states |
| `writer` | do the caps hold, is no ticket lost between scans, are losers resolved and their exposure released? | 3 quotes on 2 markets of a cluster, mints at and past the deadline, one crash or fault; 372 thousand states |
| `waitlist` | does what was promised survive, does everyone get one row and one mail? | 2 people, 2 accounts (one may own both emails), 2 cohorts, one repeated signup, one mishap; 500 thousand states |
| `live_prior` | is a served price one that may be served, and are listed games sampled? | one game with all feeds, or a question of 2 members; odds 3 or 7 tenths, one fault; 37 thousand states |
| `quote_path` | are signed terms sound, in time and within the rate? | 3 markets (one question), prices of 20 to 95 hundredths, 4 stakes, 4 requests in 6 time units; 243 thousand states |
| `ticket` | is what is shown what is minted, once, and answered? | 3 markets (2 of one question), 2 quotes, 2 edits, one fault; 364 thousand states |
| `positions` | is what is offered payable, and is nothing confirmed missing? | 2 tickets, pages of 1, nodes one block behind, 2 loads, room for 2 receipts; 307 thousand states |
| `registry` | what do runs leave of rows, results and budgets, whatever is killed, cut short or down? | a standalone game, a question of 2 sides, one moved kickoff, 3 hours; 1.04 million states |

### The properties, and why they are not obvious

* `EscrowPartition`, `BalancesFollowEvents` - the contract keeps one balance and no
  per-ticket escrow; that a resolution takes no more than its own ticket's share is a
  fact about all mints, resolutions and claims together.
* `VerdictsMatchLegs` - a verdict is reached early (a lost or fractional leg); it has
  to be right for legs that settle later, too.
* `KeepsEscrows` - refinement: a quote is sold once (two share an id, whichever is
  minted), and what one ticket is paid comes out of no other's stakes, although pot,
  allowances and writer are common to all.
* `UnwinnableEscrowReturns`, `LosersResolve` - nobody gains from resolving a loser.
* `PairsBacked`, `PayoutsCovered`, `DepositRecoverable` - the vault computes what is in
  the air from totals (`outboundExpectedEvm`, `totalPaidOutEvm`, its balance); they
  relate those totals to Core's actual queues (`OwedCovered` and `SendsTracked` are the
  two halves of `PayoutsCovered`).
* `PoolStaysCovered` - once the pool covers what is outstanding, no order of
  redemptions and sweeps leaves it short.
* `SlotsClear` - one operation at a time: one that never ends is the end of the vault.
* `ImplementsVerifier`, `ImplementsSettleOnce` - refinements.
* `DiskKeepsFractions`, `PersistedFractionSettles`, `LegsFollow` - each save rewrites
  the file from memory, so memory must never lack what the file has.
* `AttestationsTrue`, `ConfidentIsPreOp` - the keeper infers a drop from the absence
  of a change; one sample from the wrong side of the operation makes it lie.
* `CapsHold`, `MintsStayCounted`, `ExposureReturns` - reservation, event scan and
  resolution overlap; between them exposure must count once at least, and end. Mints go
  on while a tick awaits its calls, a tick may fail half way, and a restart reads the
  open tickets while more are minted: `MintsStayCounted` says that none falls between two
  scans, however late the poker is, and how long an unbooked one certainly counts.
* `StoreHolds`, `SentIsMailed`, `SyncedIsExported`, `OneRowEach`, `SignupsExported` -
  memory, file, sheet and mailbox are four copies with no common transaction; each
  property orders two of them.
* `PricesSound` (with `JumpsSuspend`, `QuestionSumsToOne`), `ListedGamesSampled` - a
  sample is compared with the one before it, whichever feed gave that one; a lookup
  that found nothing is cached, and has to be forgotten again.
* `SoundTerms` (with `PricedIsAccepted`, `NeverBetterThanFair`, `FitStakeFits`) - the
  writer rounds three times and the vault checks with its own rounding. `FitStakeFits`
  says that a bettor who follows the writer's advice is not refused again.
* `QuoteEndsBeforeExpiry`, `RateHeld` - both rest on what time the awaits take, which
  no single function sees.
* `ShownIsMinted`, `MintedOnce`, `MintsRemembered`, `SlipsAreAnswered` - React state,
  refs and awaits give each flow its own view of the slip.
* `PaidIsNotOffered`, `GapIsCovered` - a receipt may be thrown away only when an index
  page is known to include it, and pages overtake each other. Both allow for the list's
  limit: of a receipt that `MaxReceipts` newer ones pushed out they promise nothing.
* `OpenLegsStayListed`, `ResultsAreReported`, `VenuesWithinBudget` - the programs act
  on what they read an hour, a call or a crash ago. The first is about every write that
  comes to its end; of one that is cut it says that nothing acts on what it left.

### Bounds, and why they are enough

Two of everything that competes: two tickets that share a leg, two operations that
follow each other in a slot, two markets in one file, three quotes of which each pair
competes for something, two loads of which one supersedes the other. One of each
fault, at any moment: each hazard listed needs one. In `bridge`, failing calls, failing
saves and lost messages share one budget; so they do in `writer` and `waitlist`.
Amounts are chosen around the limits that the code has: 205 units is not expressible
in outcome wei, 95 basis points leave a merge just above the tolerated 99%, quotes
exceed a cap by one, the stake 8 exceeds the largest, the odds 95 need the cap on
multiples. In `registry` ESPN forgets a match at its kickoff, sooner than its deadline;
the code asks for 7 days back and gives 3 until the deadline, so there this takes an
outage of ESPN's history, and the instance has it without an hour for each of them.
`MaxReceipts` is 20 in the code and 2 in `positions`, so that with four receipts the list
overflows and `GapIsCovered` meets its exception; `MCPositionsFull.cfg` has room for 1,
where a paid ticket is offered again. In `writer` a mint is booked within the grace,
which `CapsHold` needs; `MintsStayCounted` needs no such bound, and is proved without.
In `parlay` there is one owner: ownership moves no money, and the proofs are for any.
`MaxRepeats` in `Waitlist` bounds signups of one person: each makes the entry the
newest, and without a bound the oldest-first export could be kept from it. Each
property has a mutant in `PROJECT.json`, a plausible bug that the same instance
catches: the bounds are large enough to see it.

`LivePrior` and `Waitlist` check deadlock. The others say `CHECK_DEADLOCK
FALSE`: with the bounds used up, and in the systems themselves once every ticket and
operation has ended, nothing need happen.

### Fairness

* `ParlayVault`: `resolveParlay` is permissionless and the poker calls it for dead and
  void tickets: weak fairness of those two. Nobody has to mint, claim, or settle a leg.
* `OutcomeVault`: Core works its queues; each verifier's keeper attests what it saw;
  the user whose operation is in the slot ends it when it can be ended. Drops finite.
* `SettlementBridge`: the keeper polls (`every` never lets an exception stop it),
  systemd restarts it, its transactions mine, tickets are redeemed unless lost, time
  passes, the operation in a slot ends. Crashes and mishaps finite. The number of
  operations that fill the slot is bounded too: with deposits back to back the vault
  is never idle and `settle` could be kept out for ever.
* `WriterBook`: the poker polls and is restarted; crashes and faults finite.
* `LivePrior`: the feed ticks for ever and every call it awaits times out.
* `Waitlist`: the export loop runs every minute and calls end in an answer or a
  timeout. Strong fairness of an export that finds the sheet unlocked and of the sheet
  taking it: a person starts the script now and then, not so that the lock, for which
  `doPost` waits 5 s, is held at every attempt. The script itself ends.
* `Ticket`: React renders, timers fire, the awaited calls return or time out, a sent
  mint is mined. Nobody has to click.

## 4. Disagreements with the documentation, and definitions that fail

No listed run expects a violation. These definitions and configurations stay beside
the runs; TLC finds each violated:

* `MCOutcomeVaultGift.cfg` (module `MCOutcomeVault`, `NothingUncoverableCredited`):
  `OutcomeVault.sol:317-318` says donations make nothing uncoverable credited. Quote
  sent to the vault while a payout is in the air counts as that payout having landed;
  the next payout is then promised from the same Core balance, and Core drops its send
  whole. `PayoutsCovered` allows for the gift; `DepositRecoverable` says so (`gifts = 0`),
  because a gift also hides a send from the baseline that a deposit takes.
* `MCOutcomeVaultLostCredit.cfg` (`FailedDepositRefunded`): `DEPLOY.md:447-448` names a
  verifier that attests `Failed` as the recovery for a deposit whose credit never came.
  `cancelDeposit` demands that the credit has arrived, so it refunds nothing.
* `KeeperBalanceLogs.cfg` (module `KeeperBalance`, `DiscardedLogsAreDuplicates`): an
  operation whose attestation was mined without the keeper seeing it stays tracked, so
  the next one's log is discarded as a "stray duplicate" (`balance.ts:49`).
* `MCWriterBookLate.cfg` (`LateMintsStayCounted`): `index.ts:36` holds expired
  reservations "for two polls so a late mint remains counted". A tick that waits for
  receipts may outlast two polls, and the mint then counts nowhere until it is booked.
* `MCWriterBookStale.cfg` (`ReservedIsFunded`): the room read in `price()` is stale
  when another quote is minted and booked before `reserveAndSign` (`bankroll.ts:4-6`).
* `MCTicketLink.cfg` (`OneLegPerQuestion`): `ticket.ts:16` wants one leg per group on a
  slip. A link's legs are all added at once by `use-slip-legs.ts:29`, unlike the other
  hand-offs, so that a link with two sides of a question builds such a slip.
* `MCPositionsFull.cfg` (`PaidIsNeverOffered`): `position-receipts.ts:22,27,28` keeps the
  newest 20 receipts. With more confirmed than that while the index lags, a claim's
  receipt is dropped, and a page of the index, read cleanly, offers the paid ticket for
  a claim again; the claim then reverts.
* `RegistryCut.cfg` (module `Registry`, `RowsSurvive`): `rotate-markets.mjs:47` wants to
  "Retain metadata for settlement recovery of retired vaults", and `DEPLOY.md:165` to
  preserve the file. `writeRegistry` (`rotate-lib.mjs:215-218`) truncates it in place,
  where other state goes through `replaceFile` (`services/files.mts:18-27`), so that a kill
  or a full disk in the middle of the write loses every row.
* `SuspendedIsRefused` in `LivePrior`: the header of `livePrior.ts` (17-18) says a leg
  that jumped is refused; before its kickoff it is still priced, from the registry.
* `RetiredIsSettled` in `Registry`: `rotate-markets.mjs:14` retires a row when its read
  address is settled; line 33 also retires an expired one that is not. The keeper's
  next start no longer watches it. `DEPLOY.md:362` names `VAULT_ADDRESSES` for such
  vaults, which carries no legs (`keeper/src/config.ts:75-77`), so that the leg then
  waits for someone to call `relay`.

Seen while modelling, without a definition: the keeper throws at a start with an empty
registry (`pure.ts:124`); NFL fixtures are matched by their exact kickoff
(`house-lib.mjs:204,210`), so that one that moves is registered a second time and its
first outcome settles at one half at its deadline.

## 5. Proofs

TLAPS checks these for all values of the constants that satisfy the named assumptions.

* `ParlayVaultProofs` (from `ConstantsAssumption`): `TypeCorrect`;
  `EscrowIsPartitioned`; `VerdictsAreRight`; `QuotesAreNotReplayed`; `BalancesFollow`;
  `EscrowsAreKept`, that the contract implements `ParlayEscrow`.
  `TypeOK` already says that no balance is overdrawn; the escrow invariant is
  `EscrowInv` = types, every open ticket has a holder, and `EscrowPartition`, which
  states the sum without recursion: the pot is cut into consecutive shares of the
  sizes owed. The lemmas `DividesAppend`, `DividesRelease` and `DividesShift` say what
  a mint, a payment and a gift do to such a cut. A holder is needed because a Won
  ticket is owed until it burns. Verdicts hold by a stability argument: settled legs
  do not change (`VerdictsStable`). `BalanceInv` adds `PayeesAreLast`: who a ticket paid
  is who held it last, so that the sum over a ticket's events changes with one event
  alone. `EscrowsAreKept` takes one lemma per transaction (`MintIsSell`,
  `TransferIsHandOver`, `DeadIsDie`, `VoidIsRefund`, `WonIsWin`, `ClaimIsPay`); every
  other step changes nothing an escrow shows, or is `Give` or `Settle`. The ticket of a
  quote is a `CHOOSE`: `TicketsByQuote` gives it by the distinct ids of `QuoteInv`
  (`QuoteBacksOneTicket`), which a mint keeps because it takes an unused id.
* `OutcomeVaultProofs` (from the vault's and `HyperCore`'s assumptions): `TypeCorrect`,
  `PairsAreBacked`, `PoolRemainsCovered`, `PayoutsAreCovered`, `DepositsAreRecoverable`.
  The totals that the contract keeps are the sums of its users' parts
  (`Enumerates`, `RunningSums`: a sum is the end of a list of partial sums). `BackingInv`
  adds to `PairsBacked` that one operation is under way at a time, under a fresh number,
  that verdicts are true and that a settled vault is idle. `SendInv` sums Core's queue of
  sends: all are whole units (`WeiOfUnits`: no dust is lost between the scales), the
  vault's tracker follows the sum, and Core's balance covers the first sends of the
  queue, all of them until the vault is settled. `RecoverInv` says what is above a deposit's
  baseline once its credit has come.
* `KeeperBalanceProofs`: of `KeeperVerifier` alone, from `DelaysAssumption`,
  `VerifierImplemented`, with its refinement mapping; of the loop around it, from
  `TimingAssumption` as well, `TypeCorrect`, `VerdictsAreFinal`, `AttestationsAreTrue`
  and `ConfidenceIsJustified`. `KeeperInv` = types and what is known of operations,
  samples, the tracked operation, transactions and verdicts: a confident baseline is the
  balance before the operation because a sample is used only if it is older than the
  operation by the margin on the chain's clock, which the skew cannot use up; a verdict
  "executed" is never given without a move of the balance, and "dropped" not before
  the timeout, when Core and the reads have long been through.
* `WriterBookProofs` (from `WriterAssumption`): `TypeCorrect`; `MintsAreCounted`, for
  however late a poker; and `CapsAreKept`, under the hypothesis `PolledInTime`, that a
  mint is booked within the grace: the code holds expired reservations for two polls
  (`index.ts:36-37`), which do not guarantee it (`MCWriterBookLate.cfg`).
  `MintsAreCounted` rests on `BookedOrAhead`: what a scan read is booked, one mint after
  the other, before the scan moves past it (`AheadStep`), a tick that fails leaves the
  scan where it was, and a seed takes the head before it reads the open tickets. For
  the caps, `IInv` = types; `ChainInv` (the chain, its events and the requests agree);
  `BookInv` (a quote that can still be minted is reserved, and a mint that is not booked
  yet is younger than a poll); and `CapsInv` (the quotes that are minted or can be,
  but for forgotten ones, are within the caps). `LiveIsBooked` ties the two: what the
  caps are checked against contains all that is live. The
  exposure of a set of quotes is a recursive function, whose sum is proved to grow with
  the set and to be monotonic (`RiskOf`).
* `WriterBookProofs`, of `LivePrior` (from `PriorAssumption`): `PricesAreSound`, for any
  number of markets, feeds, ages and sides of a question. `PriorInv` = types; `Balanced`
  (what is left of a suspension and the time since the leap that began it are together
  `suspendMs`, so that a suspension ends exactly that long after the last leap); and the
  sum itself: `ScaledToOne` proves that the terms, each scaled by their sum and rounded
  down, lose less than one each, so that a question sums to one but for less than a unit
  per side, and `SumStays` that a turn about other markets changes no term. The sum over a finite set is computed one element at a time
  (`Adds`, `FirstInduction`).
* `SettlementBridgeProofs` (from `BridgeAssumption`): `TypeCorrect`,
  `MemoryCoversDisk`, `DiskIsKept`, `BridgeSettlesOnce`. The inductive invariant
  `BridgeInv` says that every copy of a fraction - cache, disk, vault, transactions,
  tickets, legs - is absent or Core's final one, that tickets in flight name settled
  vaults, that the tick is on its route, and that a running keeper's cache covers the
  disk; the last is what makes rewriting the file safe.
* `WriterServiceProofs`, of `QuotePath` (from `PricingAssumption` and
  `QuoteAssumption`): `TypeCorrect`, `QuotesEndInTime`, `TermsAreSound`, `RateIsHeld`. `PathInv` carries through the awaits
  that the legs were open, by the lockout, when the request came, and that it is no
  older than `MaxLatency`; the lockout (10 minutes) exceeds that and a quote's life
  (10 s). The terms are arithmetic, at any fixed point: `PriceIsDearer` (the edge only
  raises the price), `MinOfTwo` and `Scales` (the cap only lowers the payout), and
  `FitAtRate`: a stake that is scaled down by the headroom over the risk wins, at either
  of the two rates, no more than the headroom, truncations included. The limiter's
  `LimiterOK` says that its list is the end of all that was served, that what it dropped
  is out of the window, and that entries of the list that are `Limit` apart are a window
  apart.
* `WriterServiceProofs`, of `Waitlist` (from `WaitlistAssumption`): `StoreKeepsPromises`,
  `OneRowForEach`, `SentWasMailed`, `SyncedWasExported`. `WaitlistInv` = types; `StoreInv`
  (the memory is the file, or behind it after a `save` that threw: `Grows`; the file
  loads, keeps the promises, and marks only what was mailed or exported); `AdmissionInv`
  (whoever is being mailed is approved); `ExportInv` (an export under way, and one that
  timed out and may still arrive, says "mailed" only of entries whose mail is on file,
  and an answer on its way back is of rows that the sheet has); `SheetInv` (one copy at
  most of each row, and "sent" only of such entries). That the oldest unfinished entry
  exists, a `CHOOSE` in the model, is `CurrentIsTodo`.
* `WebProofs`, of `Ticket` (from `TicketAssumption`): `WhatIsShownIsMinted`,
  `SlipsAreMintedOnce`, `MintsAreRemembered`. `TicketInv` = types; `ChainInv` (a
  transaction that may still be mined is that of the mint under way, or of one whose
  receipt the page will not see); `AskInv` (only the quote call that is not superseded
  sets the quote that is shown, none is out while a mint is, and the button mints what
  is shown, unless that ran out); `OnceInv` (unless an approval upset the page, the
  slip that is being minted was not minted yet and the page is frozen, but for a quote
  that ran out and that the mint then replaces; a slip that was minted offers nothing).
* `WebProofs`, of `Positions` (from `PositionsAssumption`): `TypeCorrect`, `ReceiptsCoverTheGap`,
  `PaidIsNotOfferedAgain`, for any tickets, page size, lag, room for receipts and number
  of loads. `GapInv`
  adds to `GapIsCovered` that the list holds only what was remembered (`ListOK`; what was
  pushed out stays so, `OutStays`), that a ticket ends after its mint, in a block that exists
  (`ChainOK`), that the snapshot of a load which has its page is counted among those
  seen (`LoadsOK`), and that what a receipt confirms, or is about to, has ended on the
  chain (`EndsOK`). `PaidInv` adds that receipts tell the truth (`AreTrue`), that a load
  which is still live and has begun its second reading reads every claim that the index
  lacks (`TellsOf`: a claim confirmed later retires the load), and that no load is live
  beside a clean page; `CleanPageIsRight` is then about one page and one reading.
* `RegistryProofs` (from `RegistryAssumption` and `HousePlan`'s): `TypeCorrect`,
  `RowsStayListed`, `CoreIsToldResults`, `VenuesKeepBudget`. `RegistryInv` = `TypeOK`, `JobOK` (the types of
  what a run carries from step to step) and `RunOK`: a run, and the restart after it, have a whole file, and against the file that it
  read, what a run is about to write loses nothing, leaves out only what was settled or due, and
  wraps no row anew. It is kept because only the service writes the file, a settled leg
  stays settled, and time only makes more rows due. `VenuesKeepBudget` needs that there are
  finitely many contracts (`IsFiniteSet(DOMAIN core)`), and the plan's arithmetic:
  `PlacesFit` (the places that games and questions are given on a venue, four or one
  outcomes each, fit its room), `TakenUnion`, `TakenMonotone` and `TakenUniform` (what sets
  of contracts take, a `FoldSet`). What a sync finds active afterwards on a venue was held
  and not settled, or is new; a venue that gets something new had room for it, and on one
  that does not nothing becomes active, even where it holds more than its maximum.

Sums over accounts, users, quotes, tickets, members and contracts are recursive functions or lists of
partial sums; what is proved of them for every size goes through `SetInduction`, which
the modules prove from the well-foundedness of the naturals, since the library's
induction theorems take an operator as a parameter and cannot be used.

Every safety property that a run checks is proved. Only model-checked are the liveness
properties (fairness and `ENABLED` are out of the prover's reach). `Joint`, a fold over the legs, is any number between 1 and `WAD - 1`
to the proof of `TermsAreSound`.

## 6. Assumptions and simplifications

* The owner is trusted as the contracts trust it: `clearOutbound` before Core has
  really dropped a send voids the tracker, and properties about it say `clears = 0`.
* Core (external): it rejects splits and merges once the outcome has resolved, applies
  sends whole or not at all, credits transfers unless one is lost, and may forget a
  settled outcome.
* `OutcomeVault` takes true verdicts; their delay and pause are in `KeeperVerifier`.
* `SettlementBridge`: a vault's outcome id always names its own question (the check
  that stops a re-used id is left out, with the staleness alert).
* `KeeperBalance`: one vault; nobody sends outcome tokens to its Core account; Core
  executes strictly after the operation's block; polls are a unit apart; the skew is
  within `CLOCK_SKEW_MARGIN_MS`; execution and read latency together are within
  `BALANCE_TIMEOUT_MS` (60 s by default); the margin is within `minDelay` (10 minutes
  by default).
* `WriterBook`: `CapsHold` assumes that the poker books a mint within the grace
  (`PollDelay + Lag < Grace`; section 4 has the case where it does not).
  `MintsStayCounted` does not. The wallet is
  not refilled; returned escrow does not add room. Quotes that a restart forgets are
  excluded from `CapsHold`, as the code documents ("Lost on restart by design"). One
  writer: DEPLOY.md rules out replicas. The journal's fail-stop is a failing quote.
* `OutcomeVault`: `DepositRecoverable` is about a vault that nobody gave quote to.
* `QuotePath`: one visitor, whose requests come one at a time; any headroom, since the
  book is `WriterBook`'s. Calls time out within `MaxLatency`.
* `LivePrior`: matching of titles, slugs and tokens is "found" or "not found".
* `Waitlist`: identity tokens are the accounts they prove; entries with the legacy
  `code` field are left out.
* `Ticket`: React renders before the next answer of the network is handled; the 400 ms
  of debounce are a timer. `MintedOnce` excuses a slip whose approval failed while it
  was minted (`upset`), since that error re-enables the button.
* `Positions`: the subgraph path, without reorganisations. Receipts of resolve calls are
  left out: such a receipt takes one of the list's places until it is read, and so
  pushes others out as a newer mint or claim does. What was pushed out is excused. `PaidIsNotOffered` is about the newest first page, read cleanly:
  a page of an older cursor, or a node that fails, may show a paid ticket for a while,
  and the claim then reverts.
* `Registry`: a file that a write cut short is repaired by the operator, outside the
  model; until then no run gets past it. One kickoff moves, once; a run of the service ends within its hour. A
  settlement that Core refuses after the plan freed its slot may leave a venue above
  its maximum, so `VenuesWithinBudget` counts the games that are not over.
* Signatures, encodings, logging, metrics, RPC fallbacks and wording are left out.

## 7. Not modelled, and what is left

* Configuration and registry parsing (writer and keeper shells): no behaviour over
  time. The quote journal's file format and startup check; `WriterBook` has its
  consequence, an append that fails the quote.
* Of the web app: the bridge dialog, wallet connection and chain switching, pages,
  images, the fallback index without a subgraph.
* Of the tools: `mirror-legs.mjs`, a one-off cutover; venues of other deployers; the
  backfill of deployers; deployment scripts; alert forwarding.
* The keeper reads its verifier's address once and has a gap between `seedPendingOps`
  and its watcher (`Watch` in `KeeperBalance`); both wait for a restart, and the code
  promises nothing that a property could state.

Left to state and prove: an `Exposure` with one set of live quotes, refined by
`WriterBook`.

## 8. Running

    tlc -config MCParlayVault.cfg MCParlayVault.tla
    tlapm ParlayVaultProofs.tla

`PROJECT.json` names module, configuration and properties of each run.
