------------------------------- MODULE Ticket -------------------------------
(***************************************************************************)
(* The page that builds a ticket (use-ticket.ts, use-quote-ttl.ts,         *)
(* ticket.ts, ticket-cta.ts, use-slip-legs.ts): the slip, its quote, the   *)
(* approval and the mint, with what they await from the writer, the wallet *)
(* and the chain.                                                          *)
(*                                                                         *)
(* The session numbers revisions and requests only to compare them: here a *)
(* call or a mint carries whether its number is still the session's.  Only *)
(* the latest quote call matters, since a call supersedes those before it. *)
(* A quote is an id with the time that it has left: 2 for enough, 1 for    *)
(* less than the ten seconds that a mint wants, 0 when it is over.  A leg  *)
(* more or less stands for any change of the slip: side, stake, wallet.    *)
(***************************************************************************)
EXTENDS Integers, FiniteSets

CONSTANTS
  Markets,
  Group,         \* Group[m]: the question that m belongs to
  Link,          \* the markets that the page's URL hands over
  Earlier,       \* slips that an earlier visit may have saved
  Quotes,        \* bound: ids of quotes
  MaxEdits,      \* bound: changes of the slip
  MaxFaults      \* bound: calls that fail, receipts that do not come, reloads

ASSUME TicketAssumption ==
  /\ Quotes \subseteq Nat \ {0} /\ {MaxEdits, MaxFaults} \subseteq Nat
  /\ Link \subseteq Markets /\ Earlier \subseteq SUBSET Markets

VARIABLES
  legs,          \* the slip, as the next render shows it
  saved,         \* localStorage's copy
  page,          \* the state of the page: see TicketTypeOK
  call,          \* the latest runQuote that has not returned
  approval, mint,   \* the flows that a click starts
  left,          \* of each quote
  pool,          \* how many transactions wait to mine a quote
  tickets,       \* the quotes that were minted
  allowance,     \* on chain: enough for a ticket
  remembered,    \* the mints that were put in the list of confirmed positions
  unseen,        \* those whose receipt the page failed to get
  done,          \* mints confirmed for the slip that is shown
  upset,         \* an approval failed while it was minted, or after
  edits, faults

flows == <<call, approval, mint>>
chain == <<left, pool, tickets, allowance>>
history == <<remembered, unseen, done, upset>>
ticketVars == <<legs, saved, page, flows, chain, history, edits, faults>>

None == 0
Error == -1

NoFlow == [at |-> "no", current |-> FALSE, quote |-> None]
Begun(stage, q) == [at |-> stage, current |-> TRUE, quote |-> q]

MIN_LEGS == 2
Complete(slip) == Cardinality(slip) >= MIN_LEGS

TicketTypeOK ==
  /\ legs \subseteq Markets /\ saved \subseteq Markets
  /\ page \in [shown : SUBSET Markets,          \* the session's key: the slip of the last render
               restored : BOOLEAN,              \* a board has loaded
               button : Quotes \union {None},   \* the quote that its mint button mints
               stored : Quotes \union {None, Error},
               quoting : BOOLEAN, minting : BOOLEAN,
               state : {"idle", "pending", "done", "requoted", "error"},
               timer : BOOLEAN,                 \* the debounced runQuote is to come
               ticked : BOOLEAN, skewRetried : BOOLEAN,
               allowance : BOOLEAN]             \* as it was read
  /\ call \in [at : {"no", "out"}, current : BOOLEAN, quote : {None}]
  /\ approval \in [at : {"no", "wallet", "receipt"}, current : BOOLEAN, quote : {None}]
  /\ mint \in [at : {"no", "funds", "approve", "requote", "simulate", "wallet", "sent", "landed",
                     "reverted"},
               current : BOOLEAN, quote : Quotes \union {None}]
  /\ left \in [Quotes -> 0 .. 2] /\ pool \in [Quotes -> 0 .. 2] /\ tickets \subseteq Quotes
  /\ allowance \in BOOLEAN /\ remembered \subseteq tickets /\ unseen \subseteq Quotes
  /\ done \in Nat /\ upset \in BOOLEAN /\ edits \in 0 .. MaxEdits /\ faults \in 0 .. MaxFaults
  \* Only one mint at a time, and the session knows of it
  /\ page.minting = (mint.at # "no")

FreshPage ==
  [shown |-> {}, restored |-> FALSE, button |-> None, stored |-> None, quoting |-> FALSE, minting |-> FALSE,
   state |-> "idle", timer |-> FALSE, ticked |-> FALSE, skewRetried |-> FALSE, allowance |-> FALSE]

TicketInit ==
  /\ legs = {} /\ saved \in Earlier /\ page = FreshPage
  /\ call = NoFlow /\ approval = NoFlow /\ mint = NoFlow
  /\ left = [q \in Quotes |-> 0] /\ pool = [q \in Quotes |-> 0] /\ tickets = {} /\ allowance = FALSE
  /\ remembered = {} /\ unseen = {} /\ done = 0 /\ upset = FALSE /\ edits = 0 /\ faults = 0

Fault == faults < MaxFaults /\ faults' = faults + 1

\* Quote ids that nobody holds
Free == {q \in Quotes : /\ left[q] = 0 /\ pool[q] = 0
                        /\ q \notin tickets \union {page.stored, page.button, mint.quote}}

Fresh(q) == q \in Free /\ \A f \in Free : q <= f

-----------------------------------------------------------------------------
(* The slip *)

Edit(slip) ==
  /\ edits < MaxEdits /\ edits' = edits + 1
  /\ legs' = slip
  /\ UNCHANGED <<saved, flows, chain, history, faults>>

\* A pick replaces the leg of its question, a second one takes it away
Picked(m) == IF m \in legs THEN legs \ {m} ELSE {l \in legs : Group[l] # Group[m]} \union {m}

AddLeg(m) == page.restored /\ Edit(Picked(m)) /\ UNCHANGED page

ClearLegs == legs # {} /\ Edit({}) /\ UNCHANGED page

\* Of a slip, the markets that are on the board
Restored(slip, board) == slip \intersect board

\* A board loads: the first one restores the saved slip, each hands the link over
OnBoard(board) ==
  LET prev == IF ~page.restored /\ legs = {} THEN Restored(saved, board) ELSE legs
  IN /\ Edit(prev \union Restored(Link, board))
     /\ page' = [page EXCEPT !.restored = TRUE]

\* The page is left and opened again: what was awaited goes on without it, and
\* a wallet that asks may still sign
Reload ==
  /\ Fault
  /\ \/ UNCHANGED pool
     \/ mint.at = "wallet" /\ pool[mint.quote] < 2 /\ pool' = [pool EXCEPT ![mint.quote] = @ + 1]
  /\ legs' = {} /\ page' = FreshPage
  /\ call' = NoFlow /\ approval' = NoFlow /\ mint' = NoFlow
  /\ unseen' = unseen \union (IF mint.at \in {"wallet", "sent", "landed", "reverted"}
                              THEN {mint.quote} ELSE {})
  /\ done' = 0 /\ upset' = FALSE
  /\ UNCHANGED <<saved, left, tickets, allowance, remembered, edits>>

-----------------------------------------------------------------------------
(* Rendering *)

Superseded(flow) == [flow EXCEPT !.current = FALSE]

\* Mutant: a mint that is done freezes nothing.
OnlyPending == page.state = "pending"
\* No requote under a mint, or after
Frozen == page.state \in {"pending", "done"}

\* computeCta: the quote that a click on the button mints
Mintable ==
  LET q == page.stored
  IN IF /\ Complete(page.shown) /\ page.allowance /\ ~page.minting /\ ~page.quoting
        /\ ~Frozen /\ q > None
     THEN IF left[q] > 0 THEN q ELSE None
     ELSE None

\* The slip is saved once a board was seen, so that a page that has yet to load one
\* does not empty it
SaveSlip == saved' = IF page.restored THEN legs ELSE saved

Rendered == legs = page.shown /\ page.button = Mintable

\* The session selects the slip; a new one supersedes what was asked for the
\* old one, and the effects clear its quote and set the timer
Render ==
  /\ IF legs # page.shown
     THEN /\ page' = [page EXCEPT !.shown = legs, !.button = None, !.stored = None, !.quoting = FALSE,
                        !.state = IF page.minting THEN @ ELSE "idle",
                        !.timer = TRUE, !.ticked = FALSE, !.skewRetried = FALSE]
          /\ SaveSlip
          /\ call' = Superseded(call) /\ approval' = Superseded(approval) /\ mint' = Superseded(mint)
          /\ done' = 0 /\ upset' = FALSE
     ELSE /\ ~Rendered /\ page' = [page EXCEPT !.button = Mintable]
          /\ UNCHANGED <<saved, flows, done, upset>>
  /\ UNCHANGED <<legs, chain, remembered, unseen, edits, faults>>

-----------------------------------------------------------------------------
(* Quotes *)

\* Mutant: a mint under way does not stop it.
AlwaysAsks(p) == Complete(p.shown)
Asks(p) == ~p.minting /\ Complete(p.shown)

\* runQuote, as of the page p
RunQuote(p) ==
  IF Asks(p) THEN page' = [p EXCEPT !.quoting = TRUE] /\ call' = Begun("out", None)
  ELSE page' = p /\ UNCHANGED call

TimerFires ==
  /\ page.timer /\ RunQuote([page EXCEPT !.timer = FALSE])
  /\ UNCHANGED <<legs, saved, approval, mint, chain, history, edits, faults>>

\* The writer signs a new quote, that a clock ahead of its own calls over
Sign(q) == Fresh(q) /\ left' \in {[left EXCEPT ![q] = n] : n \in {0, 2}}

Refuses(q) == q = Error /\ UNCHANGED left

\* Of the answers, the session takes that of its latest request, for the slip it has
Latest == call.current

Answer ==
  /\ call.at = "out" /\ call' = NoFlow
  /\ IF Latest
     THEN \E q \in Quotes \union {Error} :
            /\ Sign(q) \/ Refuses(q)
            /\ page' = [page EXCEPT !.quoting = FALSE, !.stored = q, !.ticked = FALSE,
                          !.state = IF @ = "requoted" /\ q # Error THEN @ ELSE "idle"]
     ELSE page' = [page EXCEPT !.quoting = FALSE] /\ UNCHANGED left
  /\ UNCHANGED <<legs, saved, approval, mint, pool, tickets, allowance, history, edits, faults>>

\* The countdown: a quote that is over is asked for again; one that was over
\* when it came, only once
TtlTick ==
  /\ page.stored > None /\ ~Frozen
  /\ IF left[page.stored] > 0
     THEN ~page.ticked /\ page' = [page EXCEPT !.ticked = TRUE] /\ UNCHANGED call
     ELSE IF ~page.ticked /\ page.skewRetried
          THEN page' = [page EXCEPT !.stored = Error] /\ UNCHANGED call
          ELSE RunQuote([page EXCEPT !.stored = None, !.skewRetried = @ \/ ~page.ticked])
  /\ UNCHANGED <<legs, saved, approval, mint, chain, history, edits, faults>>

Retry ==
  /\ page.stored = Error
  /\ RunQuote([page EXCEPT !.state = "idle", !.skewRetried = FALSE, !.ticked = FALSE])
  /\ UNCHANGED <<legs, saved, approval, mint, chain, history, edits, faults>>

-----------------------------------------------------------------------------
(* The approval *)

\* Its button: the allowance that was read is too small
Approve ==
  /\ approval.at = "no" /\ ~page.minting /\ Complete(page.shown) /\ ~page.allowance
  /\ approval' = Begun("wallet", None)
  /\ UNCHANGED <<legs, saved, page, call, mint, chain, history, edits, faults>>

\* In the end the allowance is read again
ApprovalEnds(failed, approved) ==
  /\ approval' = NoFlow
  /\ page' = [page EXCEPT !.allowance = approved,
                !.state = IF failed /\ approval.current THEN "error" ELSE @,
                !.ticked = @ /\ ~(failed /\ approval.current)]
  /\ upset' = (upset \/ (failed /\ approval.current /\ Frozen))

ApproveInWallet ==
  /\ approval.at = "wallet"
  /\ \/ approval' = [approval EXCEPT !.at = "receipt"] /\ allowance' = TRUE
        /\ UNCHANGED <<page, upset, faults>>
     \/ Fault /\ ApprovalEnds(TRUE, allowance) /\ UNCHANGED allowance
  /\ UNCHANGED <<legs, saved, call, mint, left, pool, tickets, remembered, unseen, done, edits>>

ApprovalReceipt ==
  /\ approval.at = "receipt"
  /\ \/ ApprovalEnds(FALSE, allowance) /\ UNCHANGED faults
     \/ Fault /\ ApprovalEnds(TRUE, allowance)
  /\ UNCHANGED <<legs, saved, call, mint, chain, remembered, unseen, done, edits>>

\* Back in the window, the allowance is read again
Refetch ==
  /\ page.allowance # allowance /\ page' = [page EXCEPT !.allowance = allowance]
  /\ UNCHANGED <<legs, saved, flows, chain, history, edits, faults>>

Revoke ==
  /\ Fault /\ allowance /\ allowance' = FALSE
  /\ UNCHANGED <<legs, saved, page, flows, left, pool, tickets, history, edits>>

-----------------------------------------------------------------------------
(* The mint: mintQuoted and mintTicket, from await to await *)

\* Mutant: the call that is out may still answer.
StillAsked == call
\* beginMint supersedes it
Unasked == Superseded(call)

Mint ==
  /\ page.button # None /\ ~page.minting
  /\ page' = [page EXCEPT !.minting = TRUE, !.state = "pending"]
  /\ call' = Unasked /\ mint' = Begun("funds", page.button)
  /\ UNCHANGED <<legs, saved, approval, chain, history, edits, faults>>

\* Mutant: a mint that the slip outlived does not ask for the new one's quote.
OnlyExpired(result) == result = "requoted"
AsksAgain(result) == result = "requoted" \/ ~mint.current

\* Mutant: what was superseded leaves everything to the new slip.
EndedIfCurrent(result) ==
  IF mint.current THEN [page EXCEPT !.minting = FALSE, !.state = result, !.ticked = FALSE] ELSE page
Ended(result) ==
  [page EXCEPT !.minting = FALSE, !.state = IF mint.current THEN result ELSE "idle", !.ticked = FALSE]

\* The catch and finally of mintQuoted
MintEnds(result) ==
  /\ mint' = NoFlow
  /\ IF AsksAgain(result) THEN RunQuote(Ended(result)) ELSE page' = Ended(result) /\ UNCHANGED call

Goes(stage) == mint' = [mint EXCEPT !.at = stage] /\ UNCHANGED <<page, call>>

Late(q) == left[q] < 2

ReadFunds ==
  /\ mint.at = "funds"
  /\ IF ~mint.current THEN MintEnds("error") /\ UNCHANGED faults
     ELSE \/ MintEnds("error") /\ Fault
          \/ /\ Goes(IF ~allowance THEN "approve" ELSE IF Late(mint.quote) THEN "requote" ELSE "simulate")
             /\ UNCHANGED faults
  /\ UNCHANGED <<legs, saved, approval, chain, history, edits>>

\* The fallback, with its receipt; the quote is then asked for again
ApproveExactly ==
  /\ mint.at = "approve"
  /\ \/ allowance' = TRUE /\ UNCHANGED faults
        /\ (IF mint.current THEN Goes("requote") ELSE MintEnds("error"))
     \/ Fault /\ MintEnds("error") /\ UNCHANGED allowance
  /\ UNCHANGED <<legs, saved, approval, left, pool, tickets, history, edits>>

\* onQuote shows the new terms before they are minted.
\* Mutant: they are only minted.
Unshown(q) == page
Shown(q) == [page EXCEPT !.stored = q]

Requote ==
  /\ mint.at = "requote"
  /\ IF ~mint.current THEN MintEnds("error") /\ UNCHANGED left
     ELSE \/ \E q \in Quotes :
               /\ Sign(q) /\ page' = Shown(q)
               /\ mint' = [mint EXCEPT !.at = "simulate", !.quote = q] /\ UNCHANGED call
          \/ /\ mint' = NoFlow /\ UNCHANGED <<left, call>>
             /\ page' = [page EXCEPT !.stored = Error, !.minting = FALSE, !.state = "idle",
                           !.ticked = FALSE]
  /\ UNCHANGED <<legs, saved, approval, pool, tickets, allowance, history, edits, faults>>

\* ParlayVault.mint
Executable(q) == left[q] > 0 /\ q \notin tickets /\ allowance

Simulate ==
  /\ mint.at = "simulate"
  /\ \/ /\ UNCHANGED faults
        /\ IF ~mint.current THEN MintEnds("error")
           ELSE IF Executable(mint.quote) THEN Goes("wallet")
           ELSE MintEnds(IF left[mint.quote] = 0 THEN "requoted" ELSE "error")
     \/ Fault /\ (MintEnds("requoted") \/ MintEnds("error"))   \* a leg has settled; the call fails
  /\ UNCHANGED <<legs, saved, approval, chain, history, edits>>

\* The user signs, or does not; the ticket may change while the wallet asks.
\* It takes longer than the debounce's 400 ms
MintInWallet ==
  /\ mint.at = "wallet" /\ ~page.timer
  /\ \/ /\ pool[mint.quote] < 2 /\ pool' = [pool EXCEPT ![mint.quote] = @ + 1]
        /\ Goes("sent") /\ UNCHANGED faults
     \/ Fault /\ MintEnds("error") /\ UNCHANGED pool
  /\ UNCHANGED <<legs, saved, approval, left, tickets, allowance, history, edits>>

\* A transaction is mined; a mint may use the allowance up
Mine(q) ==
  /\ pool[q] > 0 /\ pool' = [pool EXCEPT ![q] = @ - 1]
  /\ IF Executable(q) THEN tickets' = tickets \union {q} /\ allowance' \in BOOLEAN
     ELSE UNCHANGED <<tickets, allowance>>
  /\ mint' = IF mint.at = "sent" /\ mint.quote = q /\ pool[q] = 1
             THEN [mint EXCEPT !.at = IF Executable(q) THEN "landed" ELSE "reverted"] ELSE mint
  /\ UNCHANGED <<legs, saved, page, call, approval, left, history, edits, faults>>

\* Mutant: a slip that changed is no longer interested.
Interested == mint.current
Confirmed == TRUE

Landed ==
  /\ mint.at = "landed"
  /\ IF Confirmed
     THEN /\ MintEnds("done") /\ remembered' = remembered \union {mint.quote}
          /\ done' = IF mint.current THEN done + 1 ELSE done
     ELSE MintEnds("error") /\ UNCHANGED <<remembered, done>>
  /\ UNCHANGED <<legs, saved, approval, chain, unseen, upset, edits, faults>>

Reverted ==
  /\ mint.at = "reverted" /\ MintEnds("requoted")
  /\ UNCHANGED <<legs, saved, approval, chain, history, edits, faults>>

ReceiptLost ==
  /\ mint.at \in {"sent", "landed"} /\ Fault /\ MintEnds("error")
  /\ unseen' = unseen \union {mint.quote}
  /\ UNCHANGED <<legs, saved, approval, chain, remembered, done, upset, edits>>

-----------------------------------------------------------------------------

Pass ==
  /\ \E q \in Quotes : left[q] > 0
  /\ left' = [q \in Quotes |-> IF left[q] = 0 THEN 0 ELSE left[q] - 1]
  /\ UNCHANGED <<legs, saved, page, flows, pool, tickets, allowance, history, edits, faults>>

MintStep ==
  ReadFunds \/ ApproveExactly \/ Requote \/ Simulate \/ MintInWallet \/ Landed \/ Reverted \/ ReceiptLost

Clicks ==
  \/ \E m \in Markets : AddLeg(m)
  \/ ClearLegs \/ Retry \/ Approve \/ Mint \/ Reload

\* React renders before the page takes the next answer or timer; a click may
\* still hit what the render is about to replace
Events ==
  /\ Rendered
  /\ \/ \E board \in SUBSET Markets : OnBoard(board)
     \/ TimerFires \/ Answer \/ TtlTick
     \/ ApproveInWallet \/ ApprovalReceipt \/ Refetch
     \/ MintStep

World == Revoke \/ Pass \/ \E q \in Quotes : Mine(q)

TicketNext == Clicks \/ Render \/ Events \/ World

TicketSpec == TicketInit /\ [][TicketNext]_ticketVars

\* React renders, timers fire, the quote call times out, the awaited calls and
\* the wallet answer; nobody has to click
Fairness ==
  /\ WF_ticketVars(Render)
  /\ WF_ticketVars(Rendered /\ TimerFires) /\ WF_ticketVars(Rendered /\ Answer)
  /\ WF_ticketVars(Rendered /\ TtlTick)
  /\ WF_ticketVars(Rendered /\ MintStep) /\ \A q \in Quotes : WF_ticketVars(Mine(q))

FairSpec == TicketSpec /\ Fairness

-----------------------------------------------------------------------------
(* Properties *)

\* While the wallet asks for a mint, the slip shows no terms but those it
\* would mint, as long as it is the same slip.
ShownIsMinted ==
  mint.at \in {"wallet", "sent"} /\ mint.current => page.stored \in {mint.quote, None, Error}

\* A slip that did not change is not minted again once its mint was confirmed,
\* but for an approval that fails late and puts the error in the place of "done".
MintedOnce == done <= 1 \/ upset

\* A ticket that was minted is put in the browser's list, unless its receipt never
\* came: whatever became of the slip meanwhile.  (What the list keeps is in
\* Positions.)
MintsRemembered ==
  /\ TicketTypeOK
  /\ tickets \subseteq remembered \union unseen
                     \union (IF mint.at = "landed" THEN {mint.quote} ELSE {})

\* A complete slip gets an answer, a quote or a reason, even when it replaced
\* one that was being minted, and when its quote ran out, it gets the next one.
Answered == (page.stored # None /\ ~page.quoting) \/ page.state = "done" \/ upset

SlipsAreAnswered == []<>(legs = page.shown /\ (Complete(legs) => Answered))

\* ticket.ts: "one leg per group on a slip".
OneLegPerQuestion == \A l, m \in legs : Group[l] = Group[m] => l = m
=============================================================================
