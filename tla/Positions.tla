----------------------------- MODULE Positions -----------------------------
(***************************************************************************)
(* A wallet's page of positions (use-positions.ts, use-position-action.ts, *)
(* position-receipts.ts, positions-index.ts, subgraph/mapping.ts): pages   *)
(* of an index that lags behind the chain, with the confirmed receipts     *)
(* that the browser keeps laid over them.                                  *)
(*                                                                         *)
(* A block is an event: a mint, or the end of a ticket for this wallet,    *)
(* burned by a claim or moved to another wallet.  The chain does not       *)
(* reorganise; the browser's nodes lag by up to Lag blocks.  Of a load,    *)
(* the page and the two readings of the receipts are awaited; a load that  *)
(* was superseded goes on, and still discards receipts.  The list has room *)
(* for MaxReceipts; the receipt of a resolve call, which takes a place in  *)
(* it until it is read, is left out.                                       *)
(***************************************************************************)
EXTENDS Naturals, Sequences, FiniteSets, FiniteSetsExt

CONSTANTS
  Tickets,       \* numbered in the order of their mints
  PageSize,
  Lag,
  MaxReceipts,   \* how many receipts the browser keeps
  Loads          \* bound: how many loads are begun

ASSUME PositionsAssumption ==
  /\ Tickets \subseteq Nat \ {0} /\ Tickets # {} /\ IsFiniteSet(Tickets)
  /\ PageSize \in Nat \ {0} /\ Lag \in Nat /\ MaxReceipts \in Nat \ {0}

VARIABLES
  height,
  minted, ended, \* the block of each ticket's event, 0 before it; how it ended
  indexed,       \* the index's block
  receipts,      \* every receipt that was remembered, in that order
  kept,          \* which of them localStorage has
  rows,          \* what the page shows of each ticket
  cursor,        \* for the next page: before which ticket, of which snapshot
  loads,         \* in the order they were begun
  act,           \* the action under way
  latest,        \* the newest snapshot that a page came from
  confirmed,     \* the ends that the page was told of by a receipt
  clean          \* the page is the newest first page, read without trouble

view == <<rows, cursor>>
world == <<height, minted, ended>>
browser == <<receipts, kept>>
vars == <<world, indexed, browser, view, loads, act, latest, confirmed, clean>>

Blocks == 0 .. 2 * Cardinality(Tickets)
NotYet == [block |-> 0, how |-> "none"]
NoCursor == [before |-> 0, snapshot |-> 0]
First == Max(Tickets) + 1       \* "before" of a first page
NoLoad == [at |-> "begin", live |-> FALSE, preview |-> "no", before |-> 0, snapshot |-> 0,
           read |-> {}, early |-> {}]
Done == [NoLoad EXCEPT !.at = "no"]
NoAct == [at |-> "no", ticket |-> 0]

Hint(t, kind, block) == [ticket |-> t, kind |-> kind, block |-> block]
\* savedPositions
hints == {receipts[i] : i \in kept}
Looks == {"none", "open", "burned", "moved"}

TypeOK ==
  /\ height \in Blocks /\ minted \in [Tickets -> Blocks]
  /\ ended \in [Tickets -> [block : Blocks, how : {"none", "burned", "moved"}]]
  /\ indexed \in 0 .. height /\ latest \in 0 .. indexed
  /\ receipts \in Seq([ticket : Tickets, kind : {"mint", "claim"}, block : 1 .. height])
  /\ kept \subseteq DOMAIN receipts
  /\ rows \in [Tickets -> Looks]
  /\ cursor \in [before : Tickets \union {0}, snapshot : Blocks]
  /\ \A l \in DOMAIN loads :
       /\ loads[l].at \in {"begin", "page", "overlay", "failed", "no"} /\ loads[l].live \in BOOLEAN
       /\ loads[l].preview \in {"no", "out", "in"}
       /\ loads[l].before \in 0 .. First /\ loads[l].snapshot \in Blocks
  /\ act \in [at : {"no", "check", "sent", "landed", "reverted"}, ticket : Tickets \union {0}]
  /\ confirmed \subseteq Tickets /\ clean \in BOOLEAN
  /\ \A l, k \in DOMAIN loads : loads[l].live /\ loads[k].live => l = k

Init ==
  /\ height = 0 /\ minted = [t \in Tickets |-> 0] /\ ended = [t \in Tickets |-> NotYet]
  /\ indexed = 0 /\ receipts = <<>> /\ kept = {} /\ rows = [t \in Tickets |-> "none"] /\ cursor = NoCursor
  /\ loads = [l \in 1 .. Loads |-> NoLoad] /\ act = NoAct
  /\ latest = 0 /\ confirmed = {} /\ clean = FALSE

-----------------------------------------------------------------------------
(* The vault and the index *)

\* What a ticket is to the wallet at a block
State(t, block) ==
  CASE minted[t] = 0 \/ minted[t] > block -> "none"
    [] ended[t].block # 0 /\ ended[t].block <= block -> ended[t].how
    [] OTHER -> "open"

\* The index applies the events up to its block, so that it says the same of it
Indexed(t, snapshot) == State(t, snapshot)

\* A node that lags
Node == {b \in Blocks : b <= height /\ height <= b + Lag}

End(t, how) ==
  /\ State(t, height) = "open" /\ height' = height + 1
  /\ ended' = [ended EXCEPT ![t] = [block |-> height + 1, how |-> how]]
  /\ UNCHANGED minted

\* Of the receipts in the list, those that it has room for
Newest(set) == {i \in set : Cardinality({j \in set : j > i}) < MaxReceipts}

\* rememberPosition: the receipt is put at the end of the list
Remember(hint) ==
  /\ receipts' = Append(receipts, hint)
  /\ kept' = Newest(kept \union {Len(receipts) + 1})

\* A ticket is minted on the page of the slip
MintTicket(t) ==
  /\ minted[t] = 0 /\ \A s \in Tickets : s < t => minted[s] # 0
  /\ height' = height + 1 /\ minted' = [minted EXCEPT ![t] = height + 1]
  /\ Remember(Hint(t, "mint", height + 1))
  /\ UNCHANGED <<ended, indexed, view, loads, act, latest, confirmed, clean>>

Transfer(t) ==
  /\ End(t, "moved")
  /\ UNCHANGED <<indexed, browser, view, loads, act, latest, confirmed, clean>>

Index ==
  /\ indexed < height /\ indexed' = indexed + 1
  /\ UNCHANGED <<world, browser, view, loads, act, latest, confirmed, clean>>

-----------------------------------------------------------------------------
(* The receipts: receiptPositions *)

\* What a reading makes of each hint, at the node that answers it (none does: 0):
\* it fails, the index covers it, or it gives a row
Reading(nodes, snapshot) ==
  [h \in DOMAIN nodes |->
     CASE nodes[h] < h.block -> "failed"
       [] snapshot >= h.block -> "covered"
       [] OTHER -> IF h.kind = "claim" THEN "burned" ELSE State(h.ticket, nodes[h])]

\* Mutant: a receipt that was seen is done with.
SettledNow(out, h) == out[h] # "failed"
Discarded(out, h) == out[h] = "covered"

\* Mutant: as they were when the reading began.
KeptOfRead(read, out) == {h \in read : ~Discarded(out, h)}
\* The receipts that came meanwhile stay
Kept(read, out) == {h \in hints : ~(h \in read /\ Discarded(out, h))}

Later(h, g) == h.ticket = g.ticket /\ h.block > g.block

\* The rows of a reading; a later receipt of a ticket wins
Overlay(read, out) ==
  LET says(t) == {h \in read : h.ticket = t /\ out[h] \in Looks}
  IN [t \in Tickets |-> IF says(t) = {} THEN "none"
                        ELSE out[CHOOSE h \in says(t) : \A g \in says(t) : ~Later(g, h)]]

Merge(old, new) == [t \in Tickets |-> IF new[t] = "none" THEN old[t] ELSE new[t]]

-----------------------------------------------------------------------------
(* Loading *)

Loading == \E l \in DOMAIN loads : loads[l].live /\ loads[l].at # "no"

\* Mutant: a load takes no number of its own.
OneNumber == loads
Supersede == [l \in DOMAIN loads |-> [loads[l] EXCEPT !.live = FALSE]]

StartLoad(l, before, snapshot) ==
  /\ ~Loading /\ loads[l] = NoLoad /\ \A k \in 1 .. l - 1 : loads[k] # NoLoad
  /\ loads' = [Supersede EXCEPT ![l] =
                 [NoLoad EXCEPT !.at = "page", !.live = TRUE, !.before = before, !.snapshot = snapshot,
                                !.preview = IF hints = {} THEN "in" ELSE "out", !.early = hints]]
  /\ clean' = FALSE
  /\ UNCHANGED <<world, indexed, browser, view, act, latest, confirmed>>

Load(l) == StartLoad(l, First, 0)
LoadMore(l) == cursor # NoCursor /\ StartLoad(l, cursor.before, cursor.snapshot)

\* The second reading begins when the page and the first are there
ReadAgain(load, saved) ==
  IF load.at = "overlay" /\ load.preview = "in"
  THEN [load EXCEPT !.preview = "no", !.read = saved] ELSE load

\* The first reading shows its rows when it is done
Preview(l) ==
  /\ loads[l].preview = "out"
  /\ \E nodes \in [loads[l].early -> Node \union {0}] :
       LET out == Reading(nodes, 0)
       IN rows' = IF loads[l].live THEN Merge(rows, Overlay(loads[l].early, out)) ELSE rows
  /\ loads' = [loads EXCEPT ![l] = IF loads[l].at \in {"no", "failed"} THEN Done
                                   ELSE ReadAgain([@ EXCEPT !.preview = "in", !.early = {}], hints)]
  /\ UNCHANGED <<world, indexed, browser, cursor, act, latest, confirmed, clean>>

\* The tickets of a page, newest first, and the one that the next is before
OnPage(before, snapshot) ==
  LET earlier == {t \in Tickets : t < before /\ Indexed(t, snapshot) # "none"}
  IN {t \in earlier : Cardinality({s \in earlier : s >= t}) <= PageSize}

Next(before, snapshot) ==
  LET on == OnPage(before, snapshot)
  IN IF \E t \in Tickets : Indexed(t, snapshot) # "none" /\ \A s \in on : t < s
     THEN [before |-> Min(on), snapshot |-> snapshot] ELSE NoCursor

\* The page comes, a first one of the index's block or of a cached one before it
PageComes(l) ==
  /\ loads[l].at = "page"
  /\ \E s \in IF loads[l].before = First THEN latest .. indexed ELSE {loads[l].snapshot} :
       /\ loads' = [loads EXCEPT ![l] = ReadAgain([@ EXCEPT !.at = "overlay", !.snapshot = s], hints)]
       /\ latest' = Max({latest, s})
  /\ clean' = (clean /\ latest' = latest)
  /\ UNCHANGED <<world, indexed, browser, view, act, confirmed>>

\* It fails; a load in the background does not wait for the preview
PageFails(l) ==
  /\ loads[l].at = "page"
  /\ \E at \in {"no", "failed"} :
       loads' = [loads EXCEPT ![l] = IF loads[l].preview = "out" THEN [@ EXCEPT !.at = at] ELSE Done]
  /\ UNCHANGED <<world, indexed, browser, view, act, latest, confirmed, clean>>

\* A load ends: the page with the receipts over it, and with the rows that were
\* shown where a receipt could not be read
Loaded(l) ==
  LET load == loads[l]
      on == OnPage(load.before, load.snapshot)
      found == [t \in Tickets |->
                  IF t \in on THEN Indexed(t, load.snapshot) ELSE "none"]
  IN /\ load.at = "overlay" /\ load.preview = "no"
     /\ \E nodes \in [load.read -> Node \union {0}] :
        LET out == Reading(nodes, load.snapshot)
        IN
          /\ kept' = {i \in kept : receipts[i] \in Kept(load.read, out)}
          /\ IF load.live
             THEN LET next == Merge(found, Overlay(load.read, out))
                      base == IF load.before # First THEN Merge(rows, next) ELSE next
                      pending == {h.ticket : h \in Kept(load.read, out)}
                      shown == [t \in Tickets |-> IF t \in pending THEN rows[t] ELSE "none"]
                  IN /\ rows' = IF \E h \in load.read : out[h] = "failed" THEN Merge(base, shown) ELSE base
                     /\ cursor' = Next(load.before, load.snapshot)
                     /\ clean' = (/\ load.before = First /\ load.snapshot = latest
                                  /\ \A h \in load.read : out[h] # "failed")
             ELSE UNCHANGED <<view, clean>>
     /\ loads' = [loads EXCEPT ![l] = Done]
     /\ UNCHANGED <<world, indexed, receipts, act, latest, confirmed>>

-----------------------------------------------------------------------------
(* Actions *)

Act(t) ==
  /\ act = NoAct /\ rows[t] = "open"
  /\ act' = [at |-> "check", ticket |-> t]
  /\ UNCHANGED <<world, indexed, browser, view, loads, latest, confirmed, clean>>

\* The row is read again and the call simulated; the wallet signs, or not
Send ==
  /\ act.at = "check"
  /\ \/ act' = NoAct
     \/ /\ \E b \in Node : State(act.ticket, b) = "open"
        /\ act' = [act EXCEPT !.at = "sent"]
  /\ UNCHANGED <<world, indexed, browser, view, loads, latest, confirmed, clean>>

MineAct ==
  /\ act.at = "sent"
  /\ IF State(act.ticket, height) = "open"
     THEN End(act.ticket, "burned") /\ act' = [act EXCEPT !.at = "landed"]
     ELSE UNCHANGED world /\ act' = [act EXCEPT !.at = "reverted"]
  /\ UNCHANGED <<indexed, browser, view, loads, latest, confirmed, clean>>

\* Mutant: a load that is under way may still show its page.
LetGoOn == loads
Retired == Supersede

\* The receipt: remembered, shown, and the loads under way retired.  The row is
\* then read once more, and a node that lags behind the burn is not believed
Confirm ==
  /\ act.at = "landed"
  /\ Remember(Hint(act.ticket, "claim", ended[act.ticket].block))
  /\ confirmed' = confirmed \union {act.ticket}
  /\ loads' = Retired
  /\ rows' = [rows EXCEPT ![act.ticket] = "burned"]
  /\ act' = NoAct
  /\ UNCHANGED <<world, indexed, cursor, latest, clean>>

\* The receipt's wait fails, or it is one of a revert
NotConfirmed ==
  /\ act.at \in {"sent", "landed", "reverted"} /\ act' = NoAct
  /\ UNCHANGED <<world, indexed, browser, view, loads, latest, confirmed, clean>>

-----------------------------------------------------------------------------

Step ==
  \/ \E t \in Tickets : MintTicket(t) \/ Transfer(t) \/ Act(t)
  \/ \E l \in DOMAIN loads :
       Load(l) \/ LoadMore(l) \/ Preview(l) \/ PageComes(l) \/ PageFails(l) \/ Loaded(l)
  \/ Index \/ Send \/ MineAct \/ Confirm \/ NotConfirmed

Spec == Init /\ [][Step]_vars

-----------------------------------------------------------------------------
(* Properties *)

\* The receipts that MaxReceipts newer ones followed
pushedOut == {receipts[i] : i \in 1 .. Len(receipts) - MaxReceipts}
held == hints \union pushedOut

\* A ticket that a receipt said is paid is not offered for a claim again by the
\* newest first page, read without trouble, whatever loads were superseded,
\* receipts discarded and nodes lagging before it; but for one whose receipt was
\* pushed out of the list by newer ones before the index had its end.
PaidIsNotOffered ==
  /\ TypeOK
  /\ clean => \A t \in confirmed :
       \/ rows[t] # "open"
       \/ ended[t].block > latest /\ Hint(t, "claim", ended[t].block) \in pushedOut

\* A confirmed mint or claim is in the browser's list until pages come from an
\* index that has it, or MaxReceipts newer ones have come; none is lost to one that
\* came while a reading was under way.
GapIsCovered ==
  \A t \in Tickets :
    /\ minted[t] > latest => Hint(t, "mint", minted[t]) \in held
    /\ t \in confirmed /\ ended[t].block > latest => Hint(t, "claim", ended[t].block) \in held

\* The same without the exception: it fails where the list is full
\* (MCPositionsFull.cfg).
PaidIsNeverOffered == clean => \A t \in confirmed : rows[t] # "open"
=============================================================================
