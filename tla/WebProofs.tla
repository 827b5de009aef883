------------------------------ MODULE WebProofs ------------------------------
(***************************************************************************)
(* Proofs about the two pages of the web app that keep state of their own. *)
(*                                                                         *)
(* Positions: the receipts in the browser cover what the index has not     *)
(* reached yet, but for those that newer ones pushed out, and a clean page *)
(* offers nothing else that is paid, for any number of tickets and loads,  *)
(* any page size and lag, and any length of the browser's list.            *)
(*                                                                         *)
(* Ticket: a slip mints what it shows, once, and remembers it, for any     *)
(* markets and questions and any number of quotes, edits and faults.       *)
(***************************************************************************)
EXTENDS Positions, Ticket, WellFoundedInduction, FiniteSetTheorems, TLAPS

IsLoad(r) ==
  \E at, live, preview, before, snapshot, read, early :
    r = [at |-> at, live |-> live, preview |-> preview, before |-> before,
         snapshot |-> snapshot, read |-> read, early |-> early]

\* The chain: events are in the past, an end is of one kind or the other.
ChainOK ==
  /\ height \in Nat
  /\ minted \in [Tickets -> Nat]
  /\ ended \in [Tickets -> [block : Nat, how : {"none", "burned", "moved"}]]
  /\ \A t \in Tickets :
       /\ minted[t] <= height /\ ended[t].block <= height
       /\ ended[t].block # 0 => minted[t] # 0 /\ ended[t].how # "none"

\* A load that has its page has it from a snapshot that is counted in latest.
LoadsOK ==
  /\ latest \in Nat /\ indexed \in Nat /\ cursor.snapshot \in Nat
  /\ \A l \in DOMAIN loads :
       /\ IsLoad(loads[l]) /\ loads[l].snapshot \in Nat
       /\ loads[l].at = "overlay" => loads[l].snapshot <= latest

\* What is confirmed, or about to be, has ended on the chain.
EndsOK ==
  /\ confirmed \subseteq Tickets /\ \A t \in confirmed : ended[t].block # 0
  /\ act = [at |-> act.at, ticket |-> act.ticket]
  /\ act.at # "no" => act.ticket \in Tickets
  /\ act.at = "landed" => ended[act.ticket].block # 0

\* The browser has some of the receipts that were remembered.
Receipts == [ticket : Tickets, kind : {"mint", "claim"}, block : Nat]
ListOK == receipts \in Seq(Receipts) /\ kept \subseteq DOMAIN receipts
everSaved == {receipts[i] : i \in DOMAIN receipts}

GapInv == ChainOK /\ LoadsOK /\ EndsOK /\ ListOK /\ GapIsCovered

-----------------------------------------------------------------------------
(* The list *)

\* A receipt that was pushed out stays so.
OutStays == pushedOut \subseteq pushedOut'

\* A step that leaves the list alone.
LEMMA ListStays ==
  ASSUME UNCHANGED browser
  PROVE  /\ hints' = hints /\ everSaved' = everSaved /\ (ListOK => ListOK')
         /\ OutStays /\ held \subseteq held'
<1>1. receipts' = receipts /\ kept' = kept
  BY DEF browser
<1>2. hints' = hints
  BY <1>1 DEF hints
<1>3. everSaved' = everSaved
  BY <1>1 DEF everSaved
<1>4. ListOK => ListOK'
  BY <1>1 DEF ListOK
<1>5. pushedOut' = pushedOut
  BY <1>1 DEF pushedOut
<1> QED
  BY <1>2, <1>3, <1>4, <1>5 DEF OutStays, held

\* A receipt that has no place in the list has MaxReceipts newer ones.
LEMMA NoPlace ==
  ASSUME NEW n \in Nat, NEW K \in SUBSET (1 .. n), NEW i \in K, i \notin Newest(K)
  PROVE  i \in 1 .. n - MaxReceipts
<1>1. PICK c : c = Cardinality({j \in K : j > i})
  OBVIOUS
<1>2. ~(c < MaxReceipts)
  BY <1>1 DEF Newest
<1>3. IsFiniteSet(i + 1 .. n) /\ Cardinality(i + 1 .. n) = n - i
  BY FS_Interval
<1>4. {j \in K : j > i} \subseteq i + 1 .. n
  <2>1. ASSUME NEW j \in K, j > i PROVE j \in i + 1 .. n
    <3>1. j \in 1 .. n /\ i \in 1 .. n
      OBVIOUS
    <3> QED
      BY <2>1, <3>1
  <2> QED
    BY <2>1
<1>5. c \in Nat /\ c <= n - i
  BY <1>1, <1>3, <1>4, FS_Subset, FS_CardinalityType
<1> QED
  BY <1>2, <1>5, PositionsAssumption

\* A receipt that is put in the list is there; one that it had is there still, or
\* was pushed out.
LEMMA RememberOK ==
  ASSUME ListOK, NEW hint \in Receipts, Remember(hint)
  PROVE  /\ ListOK' /\ hint \in hints' /\ everSaved' = everSaved \union {hint}
         /\ OutStays /\ held \subseteq held'
<1>1. PICK n \in Nat : n = Len(receipts) /\ DOMAIN receipts = 1 .. n
  BY DEF ListOK
<1>2. /\ receipts' \in Seq(Receipts) /\ Len(receipts') = n + 1 /\ DOMAIN receipts' = 1 .. n + 1
      /\ receipts'[n + 1] = hint /\ \A i \in 1 .. n : receipts'[i] = receipts[i]
  BY <1>1 DEF ListOK, Remember
<1>3. PICK K : K = kept \union {n + 1}
  OBVIOUS
<1>4. kept' = Newest(K) /\ K \subseteq 1 .. n + 1
  BY <1>1, <1>3 DEF ListOK, Remember
<1>5. ListOK'
  BY <1>2, <1>4 DEF ListOK, Newest
<1>6. hint \in hints'
  <2>1. {j \in K : j > n + 1} = {}
    <3>1. ASSUME NEW j \in K PROVE ~(j > n + 1)
      <4>1. j \in 1 .. n + 1
        BY <1>4
      <4> QED
        BY <4>1
    <3> QED
      BY <3>1
  <2>2. Cardinality({j \in K : j > n + 1}) = 0
    BY <2>1, FS_EmptySet
  <2>3. n + 1 \in kept'
    BY <1>3, <1>4, <2>2, PositionsAssumption DEF Newest
  <2> QED
    BY <1>2, <2>3 DEF hints
<1>7. everSaved' = everSaved \union {hint}
  BY <1>1, <1>2 DEF everSaved
<1>8. ASSUME NEW h \in pushedOut PROVE h \in pushedOut'
  <2>1. PICK i \in 1 .. n - MaxReceipts : receipts[i] = h
    BY <1>1, <1>8 DEF pushedOut
  <2>2. i \in 1 .. n /\ i \in 1 .. (n + 1) - MaxReceipts
    BY <2>1, PositionsAssumption
  <2>3. receipts'[i] = h
    BY <1>2, <2>1, <2>2
  <2> QED
    BY <1>2, <2>2, <2>3 DEF pushedOut
<1>9. ASSUME NEW h \in hints PROVE h \in hints' \union pushedOut'
  <2>1. PICK i \in kept : receipts[i] = h
    BY <1>9 DEF hints
  <2>2. i \in 1 .. n /\ receipts'[i] = h
    BY <1>1, <1>2, <2>1 DEF ListOK
  <2>3. CASE i \in kept'
    BY <2>2, <2>3 DEF hints
  <2>4. CASE i \notin kept'
    <3>1. i \in K /\ n + 1 \in Nat
      BY <1>3, <2>1
    <3>2. i \in 1 .. (n + 1) - MaxReceipts
      BY <1>4, <2>4, <3>1, NoPlace
    <3> QED
      BY <1>2, <2>2, <3>2 DEF pushedOut
  <2> QED
    BY <2>3, <2>4
<1> QED
  BY <1>5, <1>6, <1>7, <1>8, <1>9 DEF OutStays, held

-----------------------------------------------------------------------------
(* The beginning, and the chain *)

\* The page starts with nothing minted, shown or remembered.
LEMMA InitOK == ASSUME Init PROVE GapInv
<1>1. ChainOK
  BY DEF Init, ChainOK, NotYet
<1>2. LoadsOK
  BY DEF Init, LoadsOK, NoCursor, NoLoad, IsLoad
<1>3. EndsOK
  BY DEF Init, EndsOK, NoAct
<1>4. ListOK
  BY DEF Init, ListOK
<1>5. GapIsCovered
  BY DEF Init, GapIsCovered, NotYet
<1> QED
  BY <1>1, <1>2, <1>3, <1>4, <1>5 DEF GapInv

\* What has ended is open no more.
LEMMA EndedIsNotOpen ==
  ASSUME ChainOK, NEW t \in Tickets, ended[t].block # 0 PROVE State(t, height) # "open"
BY DEF ChainOK, State

\* An end on the chain leaves earlier ends alone.
LEMMA EndOK ==
  ASSUME ChainOK, NEW t \in Tickets, NEW how \in {"burned", "moved"}, End(t, how)
  PROVE  /\ ChainOK' /\ minted' = minted /\ ended'[t].block # 0
         /\ \A s \in Tickets : ended[s].block # 0 => ended'[s] = ended[s]
<1>1. /\ height' = height + 1 /\ minted' = minted
      /\ ended' = [ended EXCEPT ![t] = [block |-> height + 1, how |-> how]]
  BY DEF End
<1>2. State(t, height) = "open"
  BY DEF End
<1>3. minted[t] # 0
  <2>1. SUFFICES ASSUME minted[t] = 0 PROVE State(t, height) # "open"
    BY <1>2
  <2>2. ended[t].how # "open"
    BY DEF ChainOK
  <2> QED
    BY <2>1, <2>2 DEF State
<1>4. ChainOK'
  BY <1>1, <1>3 DEF ChainOK
<1>5. ended[t].block = 0
  BY <1>2, EndedIsNotOpen
<1> QED
  BY <1>1, <1>4, <1>5 DEF ChainOK

\* A load that was superseded is what it was, but not live.
LEMMA SupersededFields ==
  ASSUME NEW r, IsLoad(r), NEW s, s = [r EXCEPT !.live = FALSE]
  PROVE  /\ IsLoad(s) /\ s.at = r.at /\ s.live = FALSE /\ s.preview = r.preview
         /\ s.before = r.before /\ s.snapshot = r.snapshot /\ s.read = r.read /\ s.early = r.early
<1>1. PICK at, live, preview, before, snapshot, read, early :
        r = [at |-> at, live |-> live, preview |-> preview, before |-> before,
             snapshot |-> snapshot, read |-> read, early |-> early]
  BY DEF IsLoad
<1>2. s = [at |-> at, live |-> FALSE, preview |-> preview, before |-> before,
           snapshot |-> snapshot, read |-> read, early |-> early]
  BY <1>1
<1>3. IsLoad(s)
  BY <1>2 DEF IsLoad
<1> QED
  BY <1>1, <1>2, <1>3

\* A load whose preview is in is what it was otherwise.
LEMMA PreviewedFields ==
  ASSUME NEW r, IsLoad(r), NEW s, s = [r EXCEPT !.preview = "in", !.early = {}]
  PROVE  /\ IsLoad(s) /\ s.at = r.at /\ s.live = r.live /\ s.preview = "in"
         /\ s.before = r.before /\ s.snapshot = r.snapshot /\ s.read = r.read /\ s.early = {}
<1>1. PICK at, live, preview, before, snapshot, read, early :
        r = [at |-> at, live |-> live, preview |-> preview, before |-> before,
             snapshot |-> snapshot, read |-> read, early |-> early]
  BY DEF IsLoad
<1>2. s = [at |-> at, live |-> live, preview |-> "in", before |-> before,
           snapshot |-> snapshot, read |-> read, early |-> {}]
  BY <1>1
<1>3. IsLoad(s)
  BY <1>2 DEF IsLoad
<1> QED
  BY <1>1, <1>2, <1>3

\* A second reading changes neither the page nor its snapshot.
LEMMA ReadAgainOK ==
  ASSUME NEW r, IsLoad(r), NEW facts
  PROVE  LET s == ReadAgain(r, facts) IN IsLoad(s) /\ s.at = r.at /\ s.snapshot = r.snapshot
<1>0. PICK again : again = [r EXCEPT !.preview = "no", !.read = facts]
  OBVIOUS
<1>1. PICK at, live, preview, before, snapshot, read, early :
        r = [at |-> at, live |-> live, preview |-> preview, before |-> before,
             snapshot |-> snapshot, read |-> read, early |-> early]
  BY DEF IsLoad
<1>2. again = [at |-> at, live |-> live, preview |-> "no", before |-> before,
               snapshot |-> snapshot, read |-> facts, early |-> early]
  BY <1>0, <1>1
<1>3. ReadAgain(r, facts) = r \/ ReadAgain(r, facts) = again
  BY <1>0 DEF ReadAgain
<1>4. IsLoad(again) /\ again.at = r.at /\ again.snapshot = r.snapshot
  <2>1. IsLoad(again)
    BY <1>2 DEF IsLoad
  <2> QED
    BY <1>1, <1>2, <2>1
<1> QED
  BY <1>3, <1>4

\* A load that is over has no page.
LEMMA DoneFields ==
  /\ IsLoad(Done) /\ Done.at = "no" /\ Done.live = FALSE /\ Done.preview = "no"
  /\ Done.before = 0 /\ Done.snapshot = 0 /\ Done.read = {} /\ Done.early = {}
<1>1. PICK r : r = Done
  OBVIOUS
<1>2. r = [at |-> "no", live |-> FALSE, preview |-> "no", before |-> 0, snapshot |-> 0,
           read |-> {}, early |-> {}]
  BY <1>1 DEF Done, NoLoad
<1>3. IsLoad(r)
  BY <1>2 DEF IsLoad
<1> QED
  BY <1>1, <1>2, <1>3

-----------------------------------------------------------------------------
(* The events *)

\* A mint is remembered under its block.
LEMMA MintOK == ASSUME GapInv, NEW t \in Tickets, MintTicket(t) PROVE GapInv'
<1> USE DEF GapInv
<1>1. /\ minted[t] = 0 /\ height' = height + 1 /\ minted' = [minted EXCEPT ![t] = height + 1]
      /\ Remember(Hint(t, "mint", height + 1))
      /\ UNCHANGED <<ended, indexed, cursor, loads, act, latest, confirmed>>
  BY DEF MintTicket, view
<1>a. /\ ListOK' /\ Hint(t, "mint", height + 1) \in hints'
      /\ held \subseteq held'
  <2>1. Hint(t, "mint", height + 1) \in Receipts
    BY DEF ChainOK, Hint, Receipts
  <2> QED
    BY <1>1, <2>1, RememberOK
<1>2. ChainOK'
  BY <1>1 DEF ChainOK
<1>3. LoadsOK' /\ EndsOK'
  BY <1>1 DEF LoadsOK, EndsOK
<1>4. minted'[t] = height + 1 /\ \A s \in Tickets \ {t} : minted'[s] = minted[s]
  BY <1>1 DEF ChainOK
<1>5. GapIsCovered'
  <2>1. ASSUME NEW s \in Tickets, minted'[s] > latest' PROVE Hint(s, "mint", minted'[s]) \in held'
    <3>1. CASE s = t
      BY <1>a, <1>4, <3>1 DEF held
    <3>2. CASE s # t
      BY <1>1, <1>a, <1>4, <2>1, <3>2 DEF GapIsCovered
    <3> QED
      BY <3>1, <3>2
  <2>2. ASSUME NEW s \in Tickets, s \in confirmed', ended'[s].block > latest'
        PROVE  Hint(s, "claim", ended'[s].block) \in held'
    BY <1>1, <1>a, <2>2 DEF GapIsCovered
  <2> QED
    BY <2>1, <2>2 DEF GapIsCovered
<1> QED
  BY <1>2, <1>3, <1>a, <1>5

\* Nothing that was confirmed moves.
LEMMA TransferOK == ASSUME GapInv, NEW t \in Tickets, Transfer(t) PROVE GapInv'
<1> USE DEF GapInv
<1>1. UNCHANGED <<indexed, browser, cursor, loads, act, latest, confirmed>>
  BY DEF Transfer, view
<1>a. ListOK' /\ held \subseteq held'
  BY <1>1, ListStays
<1>2. /\ ChainOK' /\ minted' = minted
      /\ \A s \in Tickets : ended[s].block # 0 => ended'[s] = ended[s]
  BY EndOK DEF Transfer
<1>3. LoadsOK'
  BY <1>1 DEF LoadsOK
<1>4. EndsOK'
  BY <1>1, <1>2 DEF EndsOK
<1>5. GapIsCovered'
  BY <1>1, <1>2, <1>a DEF GapIsCovered, EndsOK
<1> QED
  BY <1>2, <1>3, <1>4, <1>a, <1>5

\* A call that lands ends its ticket.
LEMMA MineOK == ASSUME GapInv, MineAct PROVE GapInv'
<1> USE DEF GapInv
<1>1. UNCHANGED <<indexed, browser, cursor, loads, latest, confirmed>>
  BY DEF MineAct, view
<1>a. ListOK' /\ held \subseteq held'
  BY <1>1, ListStays
<1>2. act.at = "sent" /\ act.ticket \in Tickets
  BY DEF MineAct, EndsOK
<1>3. /\ ChainOK' /\ minted' = minted
      /\ \A s \in Tickets : ended[s].block # 0 => ended'[s] = ended[s]
      /\ \/ act' = [act EXCEPT !.at = "landed"] /\ ended'[act.ticket].block # 0
         \/ act' = [act EXCEPT !.at = "reverted"]
  <2>1. CASE State(act.ticket, height) = "open"
    BY <1>2, <2>1, EndOK DEF MineAct
  <2>2. CASE State(act.ticket, height) # "open"
    BY <2>2 DEF MineAct, world, ChainOK
  <2> QED
    BY <2>1, <2>2
<1>4. LoadsOK'
  BY <1>1 DEF LoadsOK
<1>5. EndsOK'
  <2>1. act' = [at |-> act'.at, ticket |-> act.ticket] /\ act'.at \in {"landed", "reverted"}
    BY <1>3 DEF EndsOK
  <2> QED
    BY <1>1, <1>2, <1>3, <2>1 DEF EndsOK
<1>6. GapIsCovered'
  BY <1>1, <1>3, <1>a DEF GapIsCovered, EndsOK
<1> QED
  BY <1>3, <1>4, <1>5, <1>a, <1>6

\* A receipt is remembered with the block of the end.
LEMMA ConfirmOK == ASSUME GapInv, Confirm PROVE GapInv'
<1> USE DEF GapInv
<1>1. /\ act.at = "landed" /\ act' = NoAct
      /\ Remember(Hint(act.ticket, "claim", ended[act.ticket].block))
      /\ confirmed' = confirmed \union {act.ticket}
      /\ loads' = [l \in DOMAIN loads |-> [loads[l] EXCEPT !.live = FALSE]]
      /\ UNCHANGED <<height, minted, ended, indexed, cursor, latest>>
  BY DEF Confirm, world, Retired, Supersede
<1>a. /\ ListOK' /\ Hint(act.ticket, "claim", ended[act.ticket].block) \in hints'
      /\ held \subseteq held'
  <2>1. Hint(act.ticket, "claim", ended[act.ticket].block) \in Receipts
    BY <1>1 DEF ChainOK, EndsOK, Hint, Receipts
  <2> QED
    BY <1>1, <2>1, RememberOK
<1>2. ChainOK'
  BY <1>1 DEF ChainOK
<1>3. LoadsOK'
  <2>1. ASSUME NEW l \in DOMAIN loads
        PROVE  /\ IsLoad(loads'[l]) /\ loads'[l].at = loads[l].at
               /\ loads'[l].snapshot = loads[l].snapshot
    BY <1>1, SupersededFields DEF LoadsOK
  <2> QED
    BY <1>1, <2>1 DEF LoadsOK
<1>4. EndsOK'
  BY <1>1 DEF EndsOK, NoAct
<1>5. GapIsCovered'
  <2>1. ASSUME NEW s \in Tickets, minted'[s] > latest' PROVE Hint(s, "mint", minted'[s]) \in held'
    BY <1>1, <1>a, <2>1 DEF GapIsCovered
  <2>2. ASSUME NEW s \in Tickets, s \in confirmed', ended'[s].block > latest'
        PROVE  Hint(s, "claim", ended'[s].block) \in held'
    <3>1. CASE s = act.ticket
      BY <1>1, <1>a, <3>1 DEF held
    <3>2. CASE s # act.ticket
      BY <1>1, <1>a, <2>2, <3>2 DEF GapIsCovered
    <3> QED
      BY <3>1, <3>2
  <2> QED
    BY <2>1, <2>2 DEF GapIsCovered
<1> QED
  BY <1>2, <1>3, <1>4, <1>a, <1>5

-----------------------------------------------------------------------------
(* The loads *)

\* A step of the loads that keeps every hint of an event beyond the newest
\* snapshot keeps the invariant.
LEMMA LoadStepOK ==
  ASSUME GapInv, UNCHANGED <<world, indexed, act, confirmed>>,
         LoadsOK', latest <= latest', receipts' = receipts, ListOK',
         \A h \in hints : h.ticket \in Tickets /\ h.block \in Nat /\ h.block > latest' => h \in hints'
  PROVE  GapInv'
<1> USE DEF GapInv
<1>1. ChainOK'
  BY DEF ChainOK, world
<1>2. EndsOK'
  BY DEF EndsOK, world
<1>3. GapIsCovered'
  <2>1. latest \in Nat /\ latest' \in Nat
    BY DEF LoadsOK
  <2>2. minted' = minted /\ ended' = ended /\ confirmed' = confirmed
    BY DEF world
  <2>a. pushedOut' = pushedOut
    BY DEF pushedOut
  <2>3. ASSUME NEW t \in Tickets, minted[t] > latest' PROVE Hint(t, "mint", minted[t]) \in held'
    <3>1. minted[t] \in Nat
      BY DEF ChainOK
    <3>2. Hint(t, "mint", minted[t]) \in held
      BY <2>1, <2>3, <3>1 DEF GapIsCovered
    <3> QED
      BY <2>a, <2>3, <3>1, <3>2 DEF Hint, held
  <2>4. ASSUME NEW t \in Tickets, t \in confirmed, ended[t].block > latest'
        PROVE  Hint(t, "claim", ended[t].block) \in held'
    <3>1. ended[t].block \in Nat
      BY DEF ChainOK
    <3>2. Hint(t, "claim", ended[t].block) \in held
      BY <2>1, <2>4, <3>1 DEF GapIsCovered
    <3> QED
      BY <2>a, <2>4, <3>1, <3>2 DEF Hint, held
  <2> QED
    BY <2>2, <2>3, <2>4 DEF GapIsCovered
<1> QED
  BY <1>1, <1>2, <1>3

\* A load begins without a page.
LEMMA StartOK ==
  ASSUME GapInv, NEW l \in DOMAIN loads, Load(l) \/ LoadMore(l) PROVE GapInv'
<1> USE DEF GapInv
<1>0. PICK snapshot \in Nat : \E before : StartLoad(l, before, snapshot)
  BY DEF Load, LoadMore, LoadsOK
<1>1. PICK before : StartLoad(l, before, snapshot)
  BY <1>0
<1>2. /\ UNCHANGED <<world, indexed, act, confirmed>> /\ UNCHANGED <<browser, latest, cursor>>
      /\ loads' = [Supersede EXCEPT ![l] =
                 [NoLoad EXCEPT !.at = "page", !.live = TRUE, !.before = before, !.snapshot = snapshot,
                                !.preview = IF hints = {} THEN "in" ELSE "out", !.early = hints]]
  BY <1>1 DEF StartLoad, view
<1>a. PICK new :
        new = [NoLoad EXCEPT !.at = "page", !.live = TRUE, !.before = before, !.snapshot = snapshot,
                             !.preview = IF hints = {} THEN "in" ELSE "out", !.early = hints]
  OBVIOUS
<1>3. IsLoad(new) /\ new.at = "page" /\ new.snapshot = snapshot
  <2>1. PICK preview : preview = IF hints = {} THEN "in" ELSE "out"
    OBVIOUS
  <2>2. new = [at |-> "page", live |-> TRUE, preview |-> preview, before |-> before,
               snapshot |-> snapshot, read |-> {}, early |-> hints]
    BY <1>a, <2>1 DEF NoLoad
  <2>3. IsLoad(new)
    BY <2>2 DEF IsLoad
  <2> QED
    BY <2>2, <2>3
<1>4. DOMAIN Supersede = DOMAIN loads /\
      \A k \in DOMAIN loads : Supersede[k] = [loads[k] EXCEPT !.live = FALSE]
  BY DEF Supersede
<1>5. DOMAIN loads' = DOMAIN loads /\ loads'[l] = new /\
      \A k \in DOMAIN loads \ {l} : loads'[k] = [loads[k] EXCEPT !.live = FALSE]
  BY <1>2, <1>4, <1>a
<1>6. ASSUME NEW k \in DOMAIN loads
      PROVE  /\ IsLoad(loads'[k]) /\ loads'[k].snapshot \in Nat
             /\ loads'[k].at = "overlay" => loads'[k].snapshot <= latest
  <2>1. CASE k = l
    BY <1>3, <1>5, <2>1
  <2>2. CASE k # l
    <3>1. IsLoad(loads[k]) /\ loads'[k] = [loads[k] EXCEPT !.live = FALSE]
      BY <1>5, <2>2 DEF LoadsOK
    <3>2. IsLoad(loads'[k]) /\ loads'[k].at = loads[k].at /\ loads'[k].snapshot = loads[k].snapshot
      BY <3>1, SupersededFields
    <3> QED
      BY <3>2 DEF LoadsOK
  <2> QED
    BY <2>1, <2>2
<1>7. LoadsOK'
  BY <1>2, <1>5, <1>6 DEF LoadsOK
<1>8. latest <= latest' /\ hints' = hints /\ receipts' = receipts /\ ListOK'
  BY <1>2, ListStays DEF LoadsOK, browser
<1> HIDE DEF GapInv
<1> QED
  BY <1>2, <1>7, <1>8, LoadStepOK

\* One load changes: what must hold of it.
LEMMA OneLoadOK ==
  ASSUME LoadsOK, NEW l \in DOMAIN loads, NEW r, loads' = [loads EXCEPT ![l] = r],
         IsLoad(r), r.snapshot \in Nat, r.at = "overlay" => r.snapshot <= latest',
         latest' \in Nat, latest <= latest', indexed' = indexed, cursor'.snapshot \in Nat
  PROVE  LoadsOK'
<1>1. DOMAIN loads' = DOMAIN loads /\ loads'[l] = r /\ \A k \in DOMAIN loads \ {l} : loads'[k] = loads[k]
  OBVIOUS
<1>2. ASSUME NEW k \in DOMAIN loads
      PROVE  /\ IsLoad(loads'[k]) /\ loads'[k].snapshot \in Nat
             /\ loads'[k].at = "overlay" => loads'[k].snapshot <= latest'
  <2>1. CASE k = l
    BY <1>1, <2>1
  <2>2. CASE k # l
    BY <1>1, <2>2 DEF LoadsOK
  <2> QED
    BY <2>1, <2>2
<1> QED
  BY <1>1, <1>2 DEF LoadsOK

\* The first reading changes the rows, and lets the second begin.
LEMMA PreviewOK == ASSUME GapInv, NEW l \in DOMAIN loads, Preview(l) PROVE GapInv'
<1>1. /\ UNCHANGED <<world, indexed, act, confirmed>> /\ UNCHANGED <<browser, latest, cursor>>
      /\ loads' = [loads EXCEPT ![l] = IF loads[l].at \in {"no", "failed"} THEN Done
                      ELSE ReadAgain([loads[l] EXCEPT !.preview = "in", !.early = {}], hints)]
  BY DEF Preview
<1>2. LoadsOK
  BY DEF GapInv
<1>a. PICK told : told = [loads[l] EXCEPT !.preview = "in", !.early = {}]
  OBVIOUS
<1> DEFINE next == IF loads[l].at \in {"no", "failed"} THEN Done ELSE ReadAgain(told, hints)
<1>3. IsLoad(told) /\ told.at = loads[l].at /\ told.snapshot = loads[l].snapshot
  BY <1>2, <1>a, PreviewedFields DEF LoadsOK
<1>4. IsLoad(next) /\ next.snapshot \in Nat /\ (next.at = "overlay" => next.snapshot <= latest)
  <2>1. CASE next = Done
    BY <2>1, DoneFields
  <2>2. CASE next = ReadAgain(told, hints)
    BY <1>2, <1>3, <2>2, ReadAgainOK DEF LoadsOK
  <2> QED
    BY <2>1, <2>2
<1>5. loads' = [loads EXCEPT ![l] = next]
  BY <1>1, <1>a
<1> HIDE DEF next
<1>6. latest' = latest /\ hints' = hints /\ latest <= latest' /\ latest' \in Nat
      /\ cursor'.snapshot \in Nat /\ indexed' = indexed /\ receipts' = receipts /\ ListOK'
  BY <1>1, <1>2, ListStays DEF LoadsOK, browser, GapInv
<1>7. LoadsOK'
  BY <1>2, <1>4, <1>5, <1>6, OneLoadOK
<1> QED
  BY <1>1, <1>6, <1>7, LoadStepOK

\* A page's snapshot is counted in latest from then on.
LEMMA PageComesOK == ASSUME GapInv, NEW l \in DOMAIN loads, PageComes(l) PROVE GapInv'
<1>1. LoadsOK
  BY DEF GapInv
<1>2. PICK s \in IF loads[l].before = First THEN latest .. indexed ELSE {loads[l].snapshot} :
        /\ loads' = [loads EXCEPT ![l] =
              ReadAgain([loads[l] EXCEPT !.at = "overlay", !.snapshot = s], hints)]
        /\ latest' = Max({latest, s})
  BY DEF PageComes
<1>3. UNCHANGED <<world, indexed, act, confirmed>> /\ UNCHANGED <<browser, cursor>>
  BY DEF PageComes, view
<1>4. s \in Nat
  BY <1>1 DEF LoadsOK
<1>5. latest' \in Nat /\ latest <= latest' /\ s <= latest'
  <2>1. latest \in Nat
    BY <1>1 DEF LoadsOK
  <2>2. \E x \in {latest, s} : \A y \in {latest, s} : x >= y
    BY <1>4, <2>1
  <2>3. latest' \in {latest, s} /\ \A y \in {latest, s} : latest' >= y
    BY <1>2, <2>2, Zenon DEF Max
  <2> QED
    BY <1>4, <2>1, <2>3
<1>6. PICK next : next = ReadAgain([loads[l] EXCEPT !.at = "overlay", !.snapshot = s], hints)
  OBVIOUS
<1>7. loads' = [loads EXCEPT ![l] = next]
  BY <1>2, <1>6
<1>8. IsLoad(next) /\ next.snapshot = s
  <2>1. IsLoad(loads[l])
    BY <1>1 DEF LoadsOK
  <2>2. PICK load : load = loads[l]
    OBVIOUS
  <2>3. PICK at, live, preview, before, snapshot, read, early :
          load = [at |-> at, live |-> live, preview |-> preview, before |-> before,
                  snapshot |-> snapshot, read |-> read, early |-> early]
    BY <2>1, <2>2 DEF IsLoad
  <2>4. PICK told : told = [load EXCEPT !.at = "overlay", !.snapshot = s]
    OBVIOUS
  <2>5. told = [at |-> "overlay", live |-> live, preview |-> preview, before |-> before,
                snapshot |-> s, read |-> read, early |-> early]
    BY <2>3, <2>4
  <2>6. IsLoad(told) /\ told.snapshot = s
    BY <2>5 DEF IsLoad
  <2>7. next = ReadAgain(told, hints)
    BY <1>6, <2>2, <2>4
  <2> HIDE DEF IsLoad
  <2> QED
    BY <2>6, <2>7, ReadAgainOK
<1>9. LoadsOK'
  <2>1. indexed' = indexed /\ cursor'.snapshot \in Nat
    BY <1>1, <1>3 DEF LoadsOK
  <2> QED
    BY <1>1, <1>4, <1>5, <1>7, <1>8, <2>1, OneLoadOK
<1>10. hints' = hints /\ receipts' = receipts /\ ListOK'
  BY <1>3, ListStays DEF browser, GapInv
<1> QED
  BY <1>3, <1>5, <1>9, <1>10, LoadStepOK

\* A page that fails is none.
LEMMA PageFailsOK == ASSUME GapInv, NEW l \in DOMAIN loads, PageFails(l) PROVE GapInv'
<1>1. LoadsOK
  BY DEF GapInv
<1>2. UNCHANGED <<world, indexed, act, confirmed>> /\ UNCHANGED <<browser, cursor, latest>>
  BY DEF PageFails, view
<1>3. PICK at \in {"no", "failed"} :
        loads' = [loads EXCEPT ![l] = IF loads[l].preview = "out"
                     THEN [loads[l] EXCEPT !.at = at] ELSE Done]
  BY DEF PageFails
<1>a. PICK told : told = [loads[l] EXCEPT !.at = at]
  OBVIOUS
<1> DEFINE next == IF loads[l].preview = "out" THEN told ELSE Done
<1>4. IsLoad(told) /\ told.at = at /\ told.snapshot \in Nat
  <2>1. PICK at0, live, preview, before, snapshot, read, early :
          loads[l] = [at |-> at0, live |-> live, preview |-> preview, before |-> before,
                      snapshot |-> snapshot, read |-> read, early |-> early]
    BY <1>1 DEF LoadsOK, IsLoad
  <2>2. told = [at |-> at, live |-> live, preview |-> preview, before |-> before,
                snapshot |-> snapshot, read |-> read, early |-> early]
    BY <1>a, <2>1
  <2>3. snapshot \in Nat
    BY <1>1, <2>1 DEF LoadsOK
  <2>4. IsLoad(told)
    BY <2>2 DEF IsLoad
  <2> QED
    BY <2>2, <2>3, <2>4
<1>5. IsLoad(next) /\ next.snapshot \in Nat /\ next.at # "overlay"
  BY <1>4, DoneFields
<1>6. loads' = [loads EXCEPT ![l] = next]
  BY <1>3, <1>a
<1> HIDE DEF next
<1>7. latest' = latest /\ hints' = hints /\ latest <= latest' /\ latest' \in Nat
      /\ cursor'.snapshot \in Nat /\ indexed' = indexed /\ receipts' = receipts /\ ListOK'
  BY <1>1, <1>2, ListStays DEF LoadsOK, browser, GapInv
<1>8. LoadsOK'
  BY <1>1, <1>5, <1>6, <1>7, OneLoadOK
<1> QED
  BY <1>2, <1>7, <1>8, LoadStepOK

\* The list after a reading.
LEMMA KeptStay ==
  ASSUME NEW read, NEW out, receipts' = receipts,
         kept' = {i \in kept : receipts[i] \in Kept(read, out)}
  PROVE  hints' = Kept(read, out)
<1>1. hints' = {receipts[i] : i \in kept'}
  BY DEF hints
<1>2. Kept(read, out) \subseteq hints
  BY DEF Kept
<1>3. ASSUME NEW h \in hints' PROVE h \in Kept(read, out)
  BY <1>1, <1>3
<1>4. ASSUME NEW h \in Kept(read, out) PROVE h \in hints'
  <2>1. PICK i \in kept : receipts[i] = h
    BY <1>2, <1>4 DEF hints
  <2> QED
    BY <1>1, <1>4, <2>1
<1> QED
  BY <1>3, <1>4

\* Only receipts that the page's snapshot has are discarded.
LEMMA LoadedOK == ASSUME GapInv, NEW l \in DOMAIN loads, Loaded(l) PROVE GapInv'
<1>1. LoadsOK
  BY DEF GapInv
<1>2. UNCHANGED <<world, indexed, act, confirmed>> /\ latest' = latest
      /\ loads[l].at = "overlay" /\ loads' = [loads EXCEPT ![l] = Done]
  BY DEF Loaded
<1>3. PICK nodes \in [loads[l].read -> Node \union {0}] :
        kept' = {i \in kept : receipts[i] \in Kept(loads[l].read, Reading(nodes, loads[l].snapshot))}
  BY Zenon DEF Loaded
<1>a. receipts' = receipts /\ ListOK'
  BY <1>3 DEF Loaded, GapInv, ListOK
<1>b. hints' = Kept(loads[l].read, Reading(nodes, loads[l].snapshot))
  BY <1>3, <1>a, KeptStay
<1>4. ASSUME NEW h \in hints, h.ticket \in Tickets, h.block \in Nat, h.block > latest PROVE h \in hints'
  <2>1. loads[l].snapshot \in Nat /\ loads[l].snapshot <= latest /\ latest \in Nat
    BY <1>1, <1>2 DEF LoadsOK
  <2>2. SUFFICES ASSUME h \in loads[l].read, Reading(nodes, loads[l].snapshot)[h] = "covered"
                 PROVE  FALSE
    BY <1>b, Zenon DEF Kept, Discarded
  <2>3. ~(loads[l].snapshot >= h.block)
    BY <1>4, <2>1
  <2>4. ended[h.ticket].how # "covered"
    BY <1>4 DEF GapInv, ChainOK
  <2>5. State(h.ticket, nodes[h]) # "covered"
    BY <2>4 DEF State
  <2>6. Reading(nodes, loads[l].snapshot)[h] # "covered"
    BY <2>2, <2>3, <2>5 DEF Reading
  <2> QED
    BY <2>2, <2>6
<1>5. cursor'.snapshot \in Nat
  <2>1. cursor' = cursor \/ cursor' = Next(loads[l].before, loads[l].snapshot)
    BY DEF Loaded, view
  <2>2. loads[l].snapshot \in Nat
    BY <1>1 DEF LoadsOK
  <2>3. Next(loads[l].before, loads[l].snapshot).snapshot \in Nat
    BY <2>2 DEF Next, NoCursor
  <2> QED
    BY <1>1, <2>1, <2>3 DEF LoadsOK
<1>6. latest <= latest' /\ latest' \in Nat /\ indexed' = indexed
  BY <1>1, <1>2 DEF LoadsOK
<1>7. LoadsOK'
  <2>1. IsLoad(Done) /\ Done.snapshot \in Nat /\ Done.at # "overlay"
    BY DoneFields
  <2> QED
    BY <1>1, <1>2, <1>5, <1>6, <2>1, OneLoadOK
<1> QED
  BY <1>2, <1>4, <1>a, <1>6, <1>7, LoadStepOK

-----------------------------------------------------------------------------
(* Every step, and the theorem *)

\* What touches neither the chain's events, the loads nor the receipts.
LEMMA QuietOK ==
  ASSUME GapInv, Index \/ Send \/ NotConfirmed \/ (\E t \in Tickets : Act(t)) \/ UNCHANGED vars
  PROVE  GapInv'
<1> USE DEF GapInv
<1>1. UNCHANGED <<height, minted, ended, browser, cursor, loads, latest, confirmed>>
  BY DEF Index, Send, NotConfirmed, Act, vars, world, view
<1>a. ListOK' /\ held \subseteq held'
  BY <1>1, ListStays
<1>2. indexed' \in Nat
  BY DEF Index, Send, NotConfirmed, Act, vars, LoadsOK
<1>3. /\ act' = [at |-> act'.at, ticket |-> act'.ticket]
      /\ act'.at # "no" => act'.ticket \in Tickets
      /\ act'.at = "landed" => act' = act
  <2>1. CASE \E t \in Tickets : Act(t)
    BY <2>1 DEF Act
  <2>2. CASE Send
    BY <2>2 DEF Send, EndsOK, NoAct
  <2>3. CASE act' = NoAct
    BY <2>3 DEF NoAct
  <2>4. CASE act' = act
    BY <2>4 DEF EndsOK
  <2> QED
    BY <2>1, <2>2, <2>3, <2>4 DEF Index, NotConfirmed, vars
<1>4. ChainOK' /\ GapIsCovered'
  BY <1>1, <1>a DEF ChainOK, GapIsCovered
<1>5. LoadsOK'
  BY <1>1, <1>2 DEF LoadsOK
<1>6. EndsOK'
  BY <1>1, <1>3 DEF EndsOK
<1> QED
  BY <1>4, <1>5, <1>6, <1>a

\* Every step keeps the invariant.
LEMMA GapStep == ASSUME GapInv, [Step]_vars PROVE GapInv'
<1>1. ASSUME NEW t \in Tickets, MintTicket(t) \/ Transfer(t) PROVE GapInv'
  BY <1>1, MintOK, TransferOK
<1>2. ASSUME NEW l \in DOMAIN loads,
             Load(l) \/ LoadMore(l) \/ Preview(l) \/ PageComes(l) \/ PageFails(l) \/ Loaded(l)
      PROVE  GapInv'
  BY <1>2, StartOK, PreviewOK, PageComesOK, PageFailsOK, LoadedOK
<1>3. CASE MineAct \/ Confirm
  BY <1>3, MineOK, ConfirmOK
<1>4. CASE Index \/ Send \/ NotConfirmed \/ (\E t \in Tickets : Act(t)) \/ UNCHANGED vars
  BY <1>4, QuietOK
<1> QED
  BY <1>1, <1>2, <1>3, <1>4 DEF Step

\* A confirmed mint or claim stays in the browser's list until a page has come
\* from an index that has it, or MaxReceipts newer ones have come.
THEOREM ReceiptsCoverTheGap == Spec => []GapIsCovered
<1>1. GapInv => GapIsCovered
  BY DEF GapInv
<1> QED
  BY <1>1, GapStep, InitOK, PTL DEF Spec

-----------------------------------------------------------------------------
(* What is paid is not offered *)

\* A ticket ends after its mint, and every block is one event.
EventsOK ==
  /\ height = Cardinality({t \in Tickets : minted[t] # 0})
              + Cardinality({t \in Tickets : ended[t].block # 0})
  /\ \A t \in Tickets : IF ended[t].block = 0 THEN ended[t].how = "none"
                         ELSE minted[t] < ended[t].block

\* The receipts are of what happened.
IsMint(h) == minted[h.ticket] # 0 /\ h = Hint(h.ticket, "mint", minted[h.ticket])
IsClaim(h) == /\ ended[h.ticket].block # 0 /\ ended[h.ticket].how = "burned"
              /\ h = Hint(h.ticket, "claim", ended[h.ticket].block)
AreTrue(set) == \A h \in set : h.ticket \in Tickets /\ (IsMint(h) \/ IsClaim(h))

\* A set of receipts says what the index does not know yet of the confirmed, but
\* for what was pushed out of the list.
TellsOf(set) ==
  \A t \in confirmed : ended[t].block > latest => Hint(t, "claim", ended[t].block) \in set \union pushedOut

\* A ticket is not offered though it is paid, or its receipt was pushed out.
Settled(t) == \/ rows[t] # "open"
              \/ ended[t].block > latest /\ Hint(t, "claim", ended[t].block) \in pushedOut

\* There is a ticket for the next page.
HasEarlier(before, snapshot) ==
  before \in Tickets /\ \E t \in Tickets : t < before /\ minted[t] # 0 /\ minted[t] <= snapshot

\* A load's receipts are true, and one that will be shown has all that matter.
LoadOK(load) ==
  /\ IsLoad(load)
  /\ load.at \in {"begin", "page", "overlay", "failed", "no"} /\ load.live \in BOOLEAN
  /\ load.preview \in {"no", "out", "in"} /\ load.before \in 0 .. First
  /\ load.snapshot \in Nat /\ load.snapshot <= latest
  /\ AreTrue(load.read) /\ AreTrue(load.early)
  /\ load.at = "page" => load.preview # "no"
  /\ load.at \in {"page", "overlay"} => load.before = First \/ HasEarlier(load.before, load.snapshot)
  /\ load.live /\ load.at = "overlay" /\ load.preview = "no" => TellsOf(load.read)

PageOK ==
  /\ rows \in [Tickets -> Looks] /\ clean \in BOOLEAN
  /\ cursor \in [before : Tickets \union {0}, snapshot : Nat] /\ cursor.snapshot <= latest
  /\ cursor # NoCursor => HasEarlier(cursor.before, cursor.snapshot)
  \* What is shown cleanly is not about to be replaced
  /\ clean => \A l \in DOMAIN loads : ~loads[l].live
  /\ clean => \A t \in confirmed : Settled(t)

ActOK ==
  /\ act \in [at : {"no", "check", "sent", "landed", "reverted"}, ticket : Tickets \union {0}]
  /\ act.at = "landed" => ended[act.ticket].how = "burned"
  /\ \A t \in confirmed : ended[t].how = "burned"

PaidInv ==
  /\ GapInv
  /\ EventsOK
  /\ latest <= indexed /\ indexed <= height
  /\ AreTrue(everSaved)
  /\ \A l \in DOMAIN loads : LoadOK(loads[l])
  /\ \A l, k \in DOMAIN loads : loads[l].live /\ loads[k].live => l = k
  /\ PageOK
  /\ ActOK

-----------------------------------------------------------------------------
(* Tickets in their order *)

\* A set of naturals that holds 0, and the next of each, holds them all.
LEMMA SetInduction ==
  ASSUME NEW S, 0 \in S, \A n \in Nat : n \in S => n + 1 \in S
  PROVE  Nat \subseteq S
<1>1. SUFFICES ASSUME Nat \ S # {} PROVE FALSE
  OBVIOUS
<1>2. PICK R : R = OpToRel(<, Nat) /\ IsWellFoundedOn(R, Nat)
  BY NatLessThanWellFounded
<1>3. PICK x \in Nat \ S : \A y \in Nat \ S : ~(<<y, x>> \in R)
  BY <1>1, <1>2, WFMin
<1>4. x # 0 /\ x - 1 \in Nat
  BY <1>3
<1>5. x - 1 \notin S
  BY <1>3, <1>4
<1>6. <<x - 1, x>> \in R
  BY <1>2, <1>3, <1>4 DEF OpToRel
<1> QED
  BY <1>3, <1>4, <1>5, <1>6

\* A set of tickets has a first one, and a last.
LEMMA MinIsFirst ==
  ASSUME NEW T \in SUBSET Tickets, T # {}
  PROVE  Min(T) \in T /\ \A y \in T : Min(T) <= y
<1>1. T \subseteq Nat
  BY PositionsAssumption
<1>2. PICK R : R = OpToRel(<, Nat) /\ IsWellFoundedOn(R, Nat)
  BY NatLessThanWellFounded
<1>3. PICK x \in T : \A y \in T : ~(<<y, x>> \in R)
  BY <1>1, <1>2, WFMin
<1>4. \A y \in T : ~(y < x)
  BY <1>1, <1>2, <1>3 DEF OpToRel
<1>5. \E z \in T : \A y \in T : z <= y
  BY <1>1, <1>3, <1>4
<1> QED
  BY <1>5, Zenon DEF Min

LEMMA MaxIsLast ==
  ASSUME NEW T \in SUBSET Tickets, T # {}
  PROVE  Max(T) \in T /\ \A y \in T : Max(T) >= y
<1> DEFINE HasLast(A) == \E x \in A : \A y \in A : x >= y
           S == {n \in Nat : \A A \in SUBSET Tickets : Cardinality(A) = n + 1 => HasLast(A)}
<1>0. Tickets \subseteq Nat /\ \A A \in SUBSET Tickets : IsFiniteSet(A) /\ Cardinality(A) \in Nat
  <2>1. Tickets \subseteq Nat /\ IsFiniteSet(Tickets)
    BY PositionsAssumption
  <2> QED
    BY <2>1, FS_Subset, FS_CardinalityType
<1>1. 0 \in S
  <2>1. ASSUME NEW A \in SUBSET Tickets, Cardinality(A) = 1 PROVE HasLast(A)
    <3>1. PICK x : A = {x}
      BY <1>0, <2>1, FS_Singleton
    <3> QED
      BY <1>0, <3>1
  <2> QED
    BY <2>1
<1>2. ASSUME NEW n \in Nat, n \in S PROVE n + 1 \in S
  <2>1. ASSUME NEW A \in SUBSET Tickets, Cardinality(A) = n + 2 PROVE HasLast(A)
    <3>1. A # {} /\ IsFiniteSet(A)
      BY <1>0, <2>1, FS_EmptySet
    <3>2. PICK a \in A : TRUE
      BY <3>1
    <3>3. Cardinality(A \ {a}) = n + 1 /\ A \ {a} \in SUBSET Tickets
      <4>1. Cardinality(A \ {a}) = Cardinality(A) - 1
        BY <3>1, FS_RemoveElement
      <4> QED
        BY <2>1, <4>1
    <3>4. PICK b \in A \ {a} : \A y \in A \ {a} : b >= y
      BY <1>2, <3>3
    <3>5. CASE a >= b
      BY <1>0, <3>4, <3>5
    <3>6. CASE ~(a >= b)
      BY <1>0, <3>4, <3>6
    <3> QED
      BY <3>5, <3>6
  <2>2. n + 1 \in Nat /\ (n + 1) + 1 = n + 2
    OBVIOUS
  <2> HIDE DEF HasLast
  <2> QED
    BY <2>1, <2>2
<1>3. Nat \subseteq S
  <2> HIDE DEF S
  <2> QED
    BY <1>1, <1>2, SetInduction
<1>4. HasLast(T)
  <2>1. Cardinality(T) \in Nat /\ Cardinality(T) # 0
    BY <1>0, FS_EmptySet
  <2>2. PICK n \in Nat : Cardinality(T) = n + 1
    <3>1. Cardinality(T) - 1 \in Nat /\ Cardinality(T) = (Cardinality(T) - 1) + 1
      BY <2>1
    <3> QED
      BY <3>1
  <2>3. n \in S
    BY <1>3
  <2> HIDE DEF HasLast
  <2> QED
    BY <2>2, <2>3
<1> QED
  BY <1>4, Zenon DEF Max

\* A first page is before no ticket.
LEMMA FirstIsLast ==
  /\ First \in Nat /\ First # 0
  /\ \A t \in Tickets : t \in Nat /\ t # 0 /\ t < First
<1>1. Tickets \in SUBSET Tickets /\ Tickets # {} /\ Tickets \subseteq Nat \ {0}
  BY PositionsAssumption
<1>2. PICK last : last = Max(Tickets)
  OBVIOUS
<1>3. last \in Tickets /\ \A y \in Tickets : last >= y
  BY <1>1, <1>2, MaxIsLast
<1>4. First = last + 1
  BY <1>2 DEF First
<1> QED
  BY <1>1, <1>3, <1>4

-----------------------------------------------------------------------------
(* The invariant and the chain *)

\* What has happened stays so.
Grows ==
  /\ \A t \in Tickets : minted[t] # 0 => minted'[t] = minted[t]
  /\ \A t \in Tickets : ended[t].block # 0 => ended'[t] = ended[t]

LEMMA TrueStays ==
  ASSUME Grows, NEW set, AreTrue(set) PROVE AreTrue(set)'
<1>1. ASSUME NEW h \in set PROVE h.ticket \in Tickets /\ (IsMint(h)' \/ IsClaim(h)')
  <2>1. h.ticket \in Tickets
    BY DEF AreTrue
  <2>2. CASE IsMint(h)
    BY <2>1, <2>2 DEF Grows, IsMint
  <2>3. CASE IsClaim(h)
    BY <2>1, <2>3 DEF Grows, IsClaim
  <2> QED
    BY <2>1, <2>2, <2>3 DEF AreTrue
<1> QED
  BY <1>1 DEF AreTrue

LEMMA EarlierStays ==
  ASSUME Grows, NEW before, NEW snapshot, HasEarlier(before, snapshot)
  PROVE  HasEarlier(before, snapshot)'
BY DEF Grows, HasEarlier

\* A load that is left alone stays in order while the chain, the index and the
\* snapshots go on.
LEMMA LoadStays ==
  ASSUME Grows, OutStays, GapInv, latest' \in Nat, latest <= latest', confirmed' = confirmed,
         NEW load, LoadOK(load)
  PROVE  LoadOK(load)'
<1>1. latest \in Nat /\ confirmed \subseteq Tickets
  BY DEF GapInv, LoadsOK, EndsOK
<1>2. AreTrue(load.read)' /\ AreTrue(load.early)'
  <2>1. AreTrue(load.read) /\ AreTrue(load.early)
    BY DEF LoadOK
  <2> QED
    BY <2>1, TrueStays
<1>3. load.at \in {"page", "overlay"} =>
        load.before = First \/ HasEarlier(load.before, load.snapshot)'
  BY EarlierStays DEF LoadOK
<1>4. TellsOf(load.read) => TellsOf(load.read)'
  <2>1. SUFFICES ASSUME TellsOf(load.read), NEW t \in confirmed, ended'[t].block > latest'
                 PROVE  Hint(t, "claim", ended'[t].block) \in load.read \union pushedOut'
    BY DEF TellsOf
  <2>2. t \in Tickets /\ ended[t].block # 0 /\ ended[t].block \in Nat
    BY <1>1 DEF GapInv, EndsOK, ChainOK
  <2>3. ended'[t] = ended[t]
    BY <2>2 DEF Grows
  <2>4. ended[t].block > latest
    BY <1>1, <2>1, <2>2, <2>3
  <2> QED
    BY <2>1, <2>3, <2>4 DEF TellsOf, OutStays
<1>5. load.snapshot \in Nat /\ load.snapshot <= latest'
  <2>1. load.snapshot \in Nat /\ load.snapshot <= latest
    BY DEF LoadOK
  <2> QED
    BY <1>1, <2>1
<1>6. First' = First
  BY DEF First
<1> QED
  BY <1>2, <1>3, <1>4, <1>5, <1>6 DEF LoadOK

\* How many tickets an event adds to those minted, or ended.
LEMMA OneMore ==
  ASSUME NEW A \in SUBSET Tickets, NEW t \in Tickets, t \notin A
  PROVE  Cardinality(A \union {t}) = Cardinality(A) + 1
<1>1. IsFiniteSet(A)
  BY PositionsAssumption, FS_Subset
<1> QED
  BY <1>1, FS_AddElement

LEMMA MintEvent ==
  ASSUME PaidInv, NEW t \in Tickets, MintTicket(t)
  PROVE  Grows /\ EventsOK' /\ height' = height + 1
<1>1. /\ minted[t] = 0 /\ height' = height + 1 /\ minted' = [minted EXCEPT ![t] = height + 1]
      /\ ended' = ended
  BY DEF MintTicket
<1>2. ChainOK /\ EventsOK
  BY DEF PaidInv, GapInv
<1>3. height \in Nat /\ ended[t].block = 0
  BY <1>1, <1>2 DEF ChainOK
<1>4. minted'[t] = height + 1 /\ \A s \in Tickets \ {t} : minted'[s] = minted[s]
  BY <1>1, <1>2 DEF ChainOK
<1>5. Grows
  BY <1>1, <1>4 DEF Grows
<1> DEFINE A == {s \in Tickets : minted[s] # 0}
           B == {s \in Tickets : ended[s].block # 0}
<1>6. {s \in Tickets : minted'[s] # 0} = A \union {t}
  BY <1>3, <1>4
<1>7. Cardinality(A \union {t}) = Cardinality(A) + 1
  BY <1>1, OneMore
<1>8. height' = Cardinality({s \in Tickets : minted'[s] # 0}) + Cardinality({s \in Tickets : ended'[s].block # 0})
  <2>1. height = Cardinality(A) + Cardinality(B)
    BY <1>2 DEF EventsOK
  <2>2. Cardinality(A) \in Nat /\ Cardinality(B) \in Nat
    BY PositionsAssumption, FS_Subset, FS_CardinalityType
  <2>3. {s \in Tickets : ended'[s].block # 0} = B
    BY <1>1
  <2> HIDE DEF A, B
  <2>4. PICK a \in Nat, b \in Nat : a = Cardinality(A) /\ b = Cardinality(B)
    BY <2>2
  <2>5. Cardinality({s \in Tickets : minted'[s] # 0}) = a + 1
    BY <1>6, <1>7, <2>4
  <2>6. Cardinality({s \in Tickets : ended'[s].block # 0}) = b
    BY <2>3, <2>4
  <2>7. height = a + b
    BY <2>1, <2>4
  <2> QED
    BY <1>1, <2>5, <2>6, <2>7
<1>9. \A s \in Tickets : IF ended'[s].block = 0 THEN ended'[s].how = "none"
                         ELSE minted'[s] < ended'[s].block
  BY <1>1, <1>2, <1>3, <1>4 DEF EventsOK
<1> QED
  BY <1>1, <1>5, <1>8, <1>9 DEF EventsOK

LEMMA EndEvent ==
  ASSUME PaidInv, NEW t \in Tickets, NEW how \in {"burned", "moved"}, End(t, how)
  PROVE  Grows /\ EventsOK' /\ height' = height + 1 /\ ended'[t].how = how
<1>1. /\ height' = height + 1 /\ minted' = minted
      /\ ended' = [ended EXCEPT ![t] = [block |-> height + 1, how |-> how]]
  BY DEF End
<1>2. ChainOK /\ EventsOK
  BY DEF PaidInv, GapInv
<1>3. ended[t].block = 0
  <2>1. State(t, height) = "open"
    BY DEF End
  <2> QED
    BY <1>2, <2>1, EndedIsNotOpen
<1>4. /\ ended'[t] = [block |-> height + 1, how |-> how]
      /\ \A s \in Tickets \ {t} : ended'[s] = ended[s]
  BY <1>1, <1>2 DEF ChainOK
<1>5. height \in Nat /\ minted[t] <= height /\ minted[t] \in Nat
  BY <1>2 DEF ChainOK
<1>6. Grows
  BY <1>1, <1>3, <1>4 DEF Grows
<1> DEFINE A == {s \in Tickets : minted[s] # 0}
           B == {s \in Tickets : ended[s].block # 0}
<1>7. {s \in Tickets : ended'[s].block # 0} = B \union {t}
  <2>1. ended'[t].block # 0
    BY <1>4, <1>5
  <2> QED
    BY <1>4, <2>1
<1>8. Cardinality(B \union {t}) = Cardinality(B) + 1
  BY <1>3, OneMore
<1>9. height' = Cardinality({s \in Tickets : minted'[s] # 0}) + Cardinality({s \in Tickets : ended'[s].block # 0})
  <2>1. height = Cardinality(A) + Cardinality(B)
    BY <1>2 DEF EventsOK
  <2>2. Cardinality(A) \in Nat /\ Cardinality(B) \in Nat
    BY PositionsAssumption, FS_Subset, FS_CardinalityType
  <2>3. {s \in Tickets : minted'[s] # 0} = A
    BY <1>1
  <2> HIDE DEF A, B
  <2>4. PICK a \in Nat, b \in Nat : a = Cardinality(A) /\ b = Cardinality(B)
    BY <2>2
  <2>5. Cardinality({s \in Tickets : ended'[s].block # 0}) = b + 1
    BY <1>7, <1>8, <2>4
  <2>6. Cardinality({s \in Tickets : minted'[s] # 0}) = a
    BY <2>3, <2>4
  <2>7. height = a + b
    BY <2>1, <2>4
  <2> QED
    BY <1>1, <2>5, <2>6, <2>7
<1>10. ASSUME NEW s \in Tickets
       PROVE  IF ended'[s].block = 0 THEN ended'[s].how = "none"
              ELSE minted'[s] < ended'[s].block
  <2>1. CASE s = t
    <3>1. ended'[s].block = height + 1 /\ minted'[s] = minted[t]
      BY <1>1, <1>4, <2>1
    <3> QED
      BY <1>5, <3>1
  <2>2. CASE s # t
    BY <1>1, <1>2, <1>4, <2>2 DEF EventsOK
  <2> QED
    BY <2>1, <2>2
<1> QED
  BY <1>1, <1>4, <1>6, <1>9, <1>10 DEF EventsOK

\* Every step lets what happened stay, and the snapshots grow.
LEMMA ChainStep ==
  ASSUME PaidInv, [Step]_vars
  PROVE  /\ Grows /\ EventsOK' /\ latest \in Nat /\ latest' \in Nat /\ latest <= latest'
         /\ latest' <= indexed' /\ indexed' <= height'
<1>0. /\ latest \in Nat /\ indexed \in Nat /\ height \in Nat /\ latest <= indexed /\ indexed <= height
  BY DEF PaidInv, GapInv, LoadsOK, ChainOK
<1>1. ASSUME UNCHANGED world PROVE Grows /\ EventsOK' /\ height' = height
  BY <1>1 DEF world, Grows, EventsOK, PaidInv
<1>2. CASE \E t \in Tickets : MintTicket(t)
  <2>1. PICK t \in Tickets : MintTicket(t)
    BY <1>2
  <2>2. Grows /\ EventsOK' /\ height' = height + 1
    BY <2>1, MintEvent
  <2>3. indexed' = indexed /\ latest' = latest
    BY <2>1 DEF MintTicket
  <2> QED
    BY <1>0, <2>2, <2>3
<1>3. CASE \E t \in Tickets : Transfer(t)
  BY <1>0, <1>3, EndEvent DEF Transfer
<1>4. CASE MineAct
  <2>1. act.ticket \in Tickets
    BY <1>4 DEF MineAct, PaidInv, GapInv, EndsOK
  <2>2. CASE State(act.ticket, height) = "open"
    BY <1>0, <1>4, <2>1, <2>2, EndEvent DEF MineAct
  <2>3. CASE State(act.ticket, height) # "open"
    BY <1>0, <1>1, <1>4, <2>3 DEF MineAct
  <2> QED
    BY <2>2, <2>3
<1>5. CASE Index
  BY <1>0, <1>1, <1>5 DEF Index
<1>6. ASSUME NEW l \in DOMAIN loads, PageComes(l)
      PROVE  UNCHANGED <<world, indexed>> /\ latest' \in Nat /\ latest <= latest' /\ latest' <= indexed
  <2>1. PICK s \in IF loads[l].before = First THEN latest .. indexed ELSE {loads[l].snapshot} :
          latest' = Max({latest, s})
    BY <1>6 DEF PageComes
  <2>2. s \in Nat /\ s <= indexed
    <3>1. loads[l].snapshot \in Nat /\ loads[l].snapshot <= latest
      BY DEF PaidInv, LoadOK
    <3> QED
      BY <1>0, <2>1, <3>1
  <2>3. \E x \in {latest, s} : \A y \in {latest, s} : x >= y
    BY <1>0, <2>2
  <2>4. latest' \in {latest, s} /\ \A y \in {latest, s} : latest' >= y
    BY <2>1, <2>3, Zenon DEF Max
  <2> QED
    BY <1>0, <1>6, <2>2, <2>4 DEF PageComes
<1>7. CASE UNCHANGED <<world, indexed>> /\ latest' = latest
  BY <1>0, <1>1, <1>7
<1>8. \/ \E t \in Tickets : MintTicket(t) \/ Transfer(t)
      \/ MineAct \/ Index \/ (\E l \in DOMAIN loads : PageComes(l))
      \/ UNCHANGED <<world, indexed>> /\ latest' = latest
  BY DEF Step, Act, Load, LoadMore, StartLoad, Preview, PageFails, Loaded, Send, Confirm,
         NotConfirmed, vars
<1> QED
  BY <1>0, <1>1, <1>2, <1>3, <1>4, <1>5, <1>6, <1>7, <1>8

-----------------------------------------------------------------------------
(* Receipts and actions *)

\* What the browser has was remembered once.
LEMMA HintsAreTrue == ASSUME ListOK, AreTrue(everSaved) PROVE AreTrue(hints)
<1>1. hints \subseteq everSaved
  BY DEF ListOK, hints, everSaved
<1> QED
  BY <1>1 DEF AreTrue

\* What a step does to the list.
LEMMA ListStep ==
  ASSUME PaidInv, [Step]_vars
  PROVE  /\ OutStays
         /\ \/ everSaved' = everSaved
            \/ \E hint \in Receipts :
                 /\ everSaved' = everSaved \union {hint}
                 /\ IsMint(hint)' \/ IsClaim(hint)'
<1>0. ListOK /\ ChainOK
  BY DEF PaidInv, GapInv
<1>1. CASE UNCHANGED browser
  BY <1>1, ListStays
<1>2. ASSUME NEW l \in DOMAIN loads, Loaded(l)
      PROVE  OutStays /\ everSaved' = everSaved
  <2>1. receipts' = receipts
    BY <1>2 DEF Loaded
  <2> QED
    BY <2>1 DEF OutStays, pushedOut, everSaved
<1>3. ASSUME NEW t \in Tickets, MintTicket(t)
      PROVE  OutStays /\ \E hint \in Receipts :
                /\ everSaved' = everSaved \union {hint} /\ IsMint(hint)'
  <2>1. PICK hint : hint = Hint(t, "mint", height + 1)
    OBVIOUS
  <2>2. Remember(hint) /\ minted' = [minted EXCEPT ![t] = height + 1]
    BY <1>3, <2>1 DEF MintTicket
  <2>3. hint \in Receipts /\ hint.ticket = t
    BY <1>0, <2>1 DEF ChainOK, Hint, Receipts
  <2>4. minted'[t] = height + 1 /\ height + 1 # 0
    BY <1>0, <2>2 DEF ChainOK
  <2>5. IsMint(hint)'
    BY <2>1, <2>3, <2>4 DEF IsMint
  <2> QED
    BY <1>0, <2>2, <2>3, <2>5, RememberOK
<1>4. ASSUME Confirm
      PROVE  OutStays /\ \E hint \in Receipts :
                /\ everSaved' = everSaved \union {hint} /\ IsClaim(hint)'
  <2>1. PICK hint : hint = Hint(act.ticket, "claim", ended[act.ticket].block)
    OBVIOUS
  <2>2. act.at = "landed" /\ ended' = ended /\ Remember(hint)
    BY <1>4, <2>1 DEF Confirm, world
  <2>3. act.ticket \in Tickets /\ ended[act.ticket].block # 0 /\ ended[act.ticket].how = "burned"
    BY <2>2 DEF PaidInv, GapInv, EndsOK, ActOK
  <2>4. hint \in Receipts /\ hint.ticket = act.ticket
    BY <1>0, <2>1, <2>3 DEF ChainOK, Hint, Receipts
  <2>5. IsClaim(hint)'
    BY <2>1, <2>2, <2>3, <2>4 DEF IsClaim
  <2> QED
    BY <1>0, <2>2, <2>4, <2>5, RememberOK
<1>5. \/ \E t \in Tickets : MintTicket(t)
      \/ Confirm \/ (\E l \in DOMAIN loads : Loaded(l))
      \/ UNCHANGED browser
  BY DEF Step, Transfer, Act, Load, LoadMore, StartLoad, Preview, PageComes, PageFails, Index, Send,
         MineAct, NotConfirmed, vars
<1> QED
  BY <1>1, <1>2, <1>3, <1>4, <1>5

\* No step makes a receipt of what did not happen.
LEMMA HintsStep == ASSUME PaidInv, [Step]_vars PROVE AreTrue(everSaved)' /\ AreTrue(hints)'
<1>1. Grows /\ AreTrue(everSaved) /\ ListOK'
  BY ChainStep, GapStep DEF PaidInv, GapInv
<1>2. PICK old : old = everSaved
  OBVIOUS
<1>3. AreTrue(old)'
  BY <1>1, <1>2, TrueStays
<1>4. AreTrue(everSaved)'
  <2>1. CASE everSaved' = everSaved
    BY <1>2, <1>3, <2>1 DEF AreTrue
  <2>2. ASSUME NEW hint \in Receipts, everSaved' = old \union {hint}, IsMint(hint)' \/ IsClaim(hint)'
        PROVE  AreTrue(everSaved)'
    <3>1. hint.ticket \in Tickets
      BY DEF Receipts
    <3> QED
      BY <1>3, <2>2, <3>1 DEF AreTrue
  <2> QED
    BY <1>2, <2>1, <2>2, ListStep
<1>5. ListOK /\ AreTrue(everSaved) => AreTrue(hints)
  BY HintsAreTrue
<1>6. ListOK' /\ AreTrue(everSaved)' => AreTrue(hints)'
  BY HintsAreTrue, PTL
<1> QED
  BY <1>1, <1>4, <1>6

\* What is confirmed, or about to be, is a claim that landed.
LEMMA ActStep == ASSUME PaidInv, [Step]_vars PROVE ActOK'
<1>1. /\ act \in [at : {"no", "check", "sent", "landed", "reverted"}, ticket : Tickets \union {0}]
      /\ act.at = "landed" => ended[act.ticket].how = "burned"
      /\ \A t \in confirmed : ended[t].how = "burned"
  BY DEF PaidInv, ActOK
<1>2. /\ confirmed \subseteq Tickets /\ \A t \in confirmed : ended[t].block # 0
      /\ act.at # "no" => act.ticket \in Tickets
      /\ act.at = "landed" => ended[act.ticket].block # 0
  BY DEF PaidInv, GapInv, EndsOK
<1>3. \A t \in Tickets : ended[t].block # 0 => ended'[t] = ended[t]
  BY ChainStep DEF Grows
<1>4. \A t \in confirmed : ended'[t].how = "burned"
  BY <1>1, <1>2, <1>3
<1>5. ASSUME act' = act, confirmed' = confirmed PROVE ActOK'
  <2>1. act.at = "landed" => ended'[act.ticket].how = "burned"
    BY <1>1, <1>2, <1>3
  <2> QED
    BY <1>1, <1>4, <1>5, <2>1 DEF ActOK
<1>6. ASSUME act' \in [at : {"no", "check", "sent", "reverted"}, ticket : Tickets \union {0}],
             confirmed' = confirmed
      PROVE  ActOK'
  BY <1>4, <1>6 DEF ActOK
<1>7. ASSUME NEW t \in Tickets, Act(t) PROVE ActOK'
  BY <1>6, <1>7 DEF Act
<1>8. CASE act' = NoAct /\ confirmed' = confirmed
  BY <1>6, <1>8 DEF NoAct
<1>9. CASE Send
  BY <1>1, <1>6, <1>8, <1>9 DEF Send
<1>10. CASE MineAct
  <2>1. act.ticket \in Tickets /\ confirmed' = confirmed
    BY <1>2, <1>10 DEF MineAct
  <2>2. CASE State(act.ticket, height) = "open"
    <3>1. End(act.ticket, "burned") /\ act' = [act EXCEPT !.at = "landed"]
      BY <1>10, <2>2 DEF MineAct
    <3>2. ended'[act.ticket].how = "burned"
      BY <2>1, <3>1, EndEvent
    <3>3. act'.ticket = act.ticket /\ act' \in [at : {"landed"}, ticket : Tickets]
      BY <1>1, <2>1, <3>1
    <3> QED
      BY <1>4, <2>1, <3>2, <3>3 DEF ActOK
  <2>3. CASE State(act.ticket, height) # "open"
    <3>1. act' = [act EXCEPT !.at = "reverted"]
      BY <1>10, <2>3 DEF MineAct
    <3> QED
      BY <1>1, <1>6, <2>1, <3>1
  <2> QED
    BY <2>2, <2>3
<1>11. CASE Confirm
  <2>1. act.at = "landed" /\ act' = NoAct /\ confirmed' = confirmed \union {act.ticket} /\ ended' = ended
    BY <1>11 DEF Confirm, world
  <2> QED
    BY <1>1, <2>1 DEF ActOK, NoAct
<1>12. CASE NotConfirmed
  BY <1>8, <1>12 DEF NotConfirmed
<1>13. \/ (\E t \in Tickets : Act(t)) \/ Send \/ MineAct \/ Confirm \/ NotConfirmed
       \/ act' = act /\ confirmed' = confirmed
  BY DEF Step, MintTicket, Transfer, Load, LoadMore, StartLoad, Preview, PageComes, PageFails,
         Loaded, Index, vars
<1> QED
  BY <1>5, <1>7, <1>9, <1>10, <1>11, <1>12, <1>13

-----------------------------------------------------------------------------
(* The loads, once more *)

\* The second reading begins; the page comes.
Again(r, facts) == [r EXCEPT !.preview = "no", !.read = facts]
Paged(r, block) == [r EXCEPT !.at = "overlay", !.snapshot = block]

LEMMA AgainFields ==
  ASSUME NEW r, IsLoad(r), NEW facts, NEW s, s = Again(r, facts)
  PROVE  /\ IsLoad(s) /\ s.at = r.at /\ s.live = r.live /\ s.preview = "no"
         /\ s.before = r.before /\ s.snapshot = r.snapshot /\ s.read = facts /\ s.early = r.early
<1>1. PICK at, live, preview, before, snapshot, read, early :
        r = [at |-> at, live |-> live, preview |-> preview, before |-> before,
             snapshot |-> snapshot, read |-> read, early |-> early]
  BY DEF IsLoad
<1>2. s = [at |-> at, live |-> live, preview |-> "no", before |-> before,
           snapshot |-> snapshot, read |-> facts, early |-> early]
  BY <1>1 DEF Again
<1>3. IsLoad(s)
  BY <1>2 DEF IsLoad
<1> QED
  BY <1>1, <1>2, <1>3

LEMMA PagedFields ==
  ASSUME NEW r, IsLoad(r), NEW block, NEW s, s = Paged(r, block)
  PROVE  /\ IsLoad(s) /\ s.at = "overlay" /\ s.live = r.live /\ s.preview = r.preview
         /\ s.before = r.before /\ s.snapshot = block /\ s.read = r.read /\ s.early = r.early
<1>1. PICK at, live, preview, before, snapshot, read, early :
        r = [at |-> at, live |-> live, preview |-> preview, before |-> before,
             snapshot |-> snapshot, read |-> read, early |-> early]
  BY DEF IsLoad
<1>2. s = [at |-> "overlay", live |-> live, preview |-> preview, before |-> before,
           snapshot |-> block, read |-> read, early |-> early]
  BY <1>1 DEF Paged
<1>3. IsLoad(s)
  BY <1>2 DEF IsLoad
<1> QED
  BY <1>1, <1>2, <1>3

LEMMA FailedFields ==
  ASSUME NEW r, IsLoad(r), NEW end, NEW s, s = [r EXCEPT !.at = end]
  PROVE  /\ IsLoad(s) /\ s.at = end /\ s.live = r.live /\ s.preview = r.preview
         /\ s.before = r.before /\ s.snapshot = r.snapshot /\ s.read = r.read /\ s.early = r.early
<1>1. PICK at, live, preview, before, snapshot, read, early :
        r = [at |-> at, live |-> live, preview |-> preview, before |-> before,
             snapshot |-> snapshot, read |-> read, early |-> early]
  BY DEF IsLoad
<1>2. s = [at |-> end, live |-> live, preview |-> preview, before |-> before,
           snapshot |-> snapshot, read |-> read, early |-> early]
  BY <1>1
<1>3. IsLoad(s)
  BY <1>2 DEF IsLoad
<1> QED
  BY <1>1, <1>2, <1>3

\* A load that has ended is in order.
LEMMA DoneIsOK == ASSUME latest' \in Nat PROVE LoadOK(Done)'
<1>1. PICK r : r = Done
  OBVIOUS
<1>2. /\ IsLoad(r) /\ r.at = "no" /\ r.live = FALSE /\ r.preview = "no"
      /\ r.before = 0 /\ r.snapshot = 0 /\ r.read = {} /\ r.early = {}
  BY <1>1, DoneFields
<1>3. AreTrue({})'
  BY DEF AreTrue
<1>4. LoadOK(r)'
  <2>1. First' = First /\ 0 \in 0 .. First
    BY FirstIsLast DEF First
  <2>2. r.snapshot \in Nat /\ r.snapshot <= latest'
    BY <1>2
  <2> QED
    BY <1>2, <1>3, <2>1, <2>2 DEF LoadOK
<1> QED
  BY <1>1, <1>4

\* The second reading has the receipts of its moment.
LEMMA AgainIsOK ==
  ASSUME NEW load, NEW facts, LoadOK(load)', AreTrue(facts)', TellsOf(facts)'
  PROVE  LoadOK(ReadAgain(load, facts))'
<1>1. PICK again : again = Again(load, facts)
  OBVIOUS
<1>2. IsLoad(load)
  BY DEF LoadOK
<1>3. /\ IsLoad(again) /\ again.at = load.at /\ again.live = load.live /\ again.preview = "no"
      /\ again.before = load.before /\ again.snapshot = load.snapshot
      /\ again.read = facts /\ again.early = load.early
  BY <1>1, <1>2, AgainFields
<1>4. ASSUME load.at = "overlay" PROVE LoadOK(again)'
  BY <1>3, <1>4 DEF LoadOK
<1>5. ReadAgain(load, facts) = load \/ (load.at = "overlay" /\ ReadAgain(load, facts) = again)
  BY <1>1 DEF ReadAgain, Again
<1> QED
  BY <1>4, <1>5

\* What all loads promise.
LoadsInOrder ==
  /\ \A l \in DOMAIN loads : LoadOK(loads[l])
  /\ \A l, k \in DOMAIN loads : loads[l].live /\ loads[k].live => l = k

\* No load becomes the live one by this step.
NoneRevives == /\ DOMAIN loads' = DOMAIN loads
               /\ \A l \in DOMAIN loads : loads'[l].live => loads[l].live

\* One load changes.
LEMMA OneLoadStep ==
  ASSUME LoadsInOrder, \A r : LoadOK(r) => LoadOK(r)',
         NEW l \in DOMAIN loads, NEW s, loads' = [loads EXCEPT ![l] = s], LoadOK(s)',
         s.live => loads[l].live
  PROVE  LoadsInOrder' /\ NoneRevives
<1>1. /\ DOMAIN loads' = DOMAIN loads /\ loads'[l] = s
      /\ \A k \in DOMAIN loads \ {l} : loads'[k] = loads[k]
  OBVIOUS
<1>2. ASSUME NEW k \in DOMAIN loads'
      PROVE  LoadOK(loads[k])' /\ (loads'[k].live => loads[k].live)
  <2>1. PICK r : r = loads'[k]
    OBVIOUS
  <2>2. CASE k = l
    BY <1>1, <2>2
  <2>3. CASE k # l
    <3>1. r = loads[k] /\ LoadOK(r)
      BY <1>1, <2>1, <2>3 DEF LoadsInOrder
    <3>2. LoadOK(r)'
      BY <3>1
    <3> QED
      BY <2>1, <3>1, <3>2
  <2> QED
    BY <2>2, <2>3
<1> QED
  BY <1>1, <1>2 DEF LoadsInOrder, NoneRevives

\* A load begins: it is the only live one.
LEMMA StartStep ==
  ASSUME PaidInv, \A r : LoadOK(r) => LoadOK(r)',
         NEW l \in DOMAIN loads, Load(l) \/ LoadMore(l)
  PROVE  LoadsInOrder'
<1>1. LoadsInOrder /\ AreTrue(hints) /\ PageOK /\ latest \in Nat
  BY HintsAreTrue DEF PaidInv, LoadsInOrder, GapInv, LoadsOK
<1>2. PICK before, snapshot :
        /\ StartLoad(l, before, snapshot)
        /\ \/ before = First /\ snapshot = 0
           \/ HasEarlier(before, snapshot) /\ snapshot \in Nat /\ snapshot <= latest
  <2>1. CASE Load(l)
    BY <2>1 DEF Load
  <2>2. CASE LoadMore(l)
    <3>1. /\ StartLoad(l, cursor.before, cursor.snapshot)
          /\ HasEarlier(cursor.before, cursor.snapshot)
          /\ cursor.snapshot \in Nat /\ cursor.snapshot <= latest
      BY <1>1, <2>2 DEF LoadMore, PageOK
    <3> QED
      BY <3>1
  <2> QED
    BY <2>1, <2>2
<1>3. PICK preview \in {"in", "out"} : preview = IF hints = {} THEN "in" ELSE "out"
  OBVIOUS
<1>a. PICK new :
        new = [NoLoad EXCEPT !.at = "page", !.live = TRUE, !.before = before, !.snapshot = snapshot,
                             !.preview = IF hints = {} THEN "in" ELSE "out", !.early = hints]
  OBVIOUS
<1>4. new = [at |-> "page", live |-> TRUE, preview |-> preview, before |-> before,
             snapshot |-> snapshot, read |-> {}, early |-> hints]
  BY <1>a, <1>3 DEF NoLoad
<1>5. loads' = [Supersede EXCEPT ![l] = new]
  BY <1>2, <1>a, Zenon DEF StartLoad
<1>6. DOMAIN loads' = DOMAIN loads /\ loads'[l] = new
      /\ \A k \in DOMAIN loads \ {l} : loads'[k] = [loads[k] EXCEPT !.live = FALSE]
  BY <1>5 DEF Supersede
<1>7. LoadOK(new)
  <2>1. before \in 0 .. First /\ snapshot \in Nat /\ snapshot <= latest
    <3>1. CASE before = First /\ snapshot = 0
      BY <1>1, <3>1, FirstIsLast
    <3>2. CASE HasEarlier(before, snapshot) /\ snapshot \in Nat /\ snapshot <= latest
      BY <3>2, FirstIsLast DEF HasEarlier
    <3> QED
      BY <1>2, <3>1, <3>2
  <2>2. IsLoad(new) /\ AreTrue({})
    BY <1>4 DEF IsLoad, AreTrue
  <2> QED
    BY <1>1, <1>2, <1>4, <2>1, <2>2 DEF LoadOK
<1>8. ASSUME NEW k \in DOMAIN loads, k # l
      PROVE  LoadOK(loads'[k]) /\ loads'[k].live = FALSE
  <2>1. PICK r : r = loads[k] /\ LoadOK(r)
    BY <1>1, <1>8 DEF LoadsInOrder
  <2>2. PICK s : s = [r EXCEPT !.live = FALSE]
    OBVIOUS
  <2>3. /\ IsLoad(s) /\ s.at = r.at /\ s.live = FALSE /\ s.preview = r.preview
        /\ s.before = r.before /\ s.snapshot = r.snapshot /\ s.read = r.read /\ s.early = r.early
    <3>1. IsLoad(r)
      BY <2>1 DEF LoadOK
    <3> QED
      BY <2>2, <3>1, SupersededFields
  <2>4. LoadOK(s)
    BY <2>1, <2>3 DEF LoadOK
  <2>5. s = loads'[k]
    BY <1>6, <1>8, <2>1, <2>2
  <2> QED
    BY <2>3, <2>4, <2>5
<1>9. ASSUME NEW k \in DOMAIN loads'
      PROVE  LoadOK(loads[k])' /\ (loads'[k].live => k = l)
  <2>1. PICK r : r = loads'[k]
    OBVIOUS
  <2>2. LoadOK(r) /\ (r.live => k = l)
    BY <1>6, <1>7, <1>8, <1>9, <2>1
  <2> QED
    BY <2>1, <2>2
<1> QED
  BY <1>9 DEF LoadsInOrder

\* The first reading is done.
LEMMA PreviewStep ==
  ASSUME PaidInv, \A r : LoadOK(r) => LoadOK(r)', AreTrue(hints)', TellsOf(hints)',
         latest' \in Nat, NEW l \in DOMAIN loads, Preview(l)
  PROVE  LoadsInOrder' /\ NoneRevives
<1>1. LoadsInOrder
  BY DEF PaidInv, LoadsInOrder
<1>2. PICK r : r = loads[l] /\ LoadOK(r) /\ IsLoad(r)
  BY <1>1 DEF LoadsInOrder, LoadOK
<1>3. PICK told : told = [r EXCEPT !.preview = "in", !.early = {}]
  OBVIOUS
<1>4. /\ IsLoad(told) /\ told.at = r.at /\ told.live = r.live /\ told.preview = "in"
      /\ told.before = r.before /\ told.snapshot = r.snapshot /\ told.read = r.read
      /\ told.early = {}
  <2>1. IsLoad(r)
    BY <1>2
  <2> QED
    BY <1>3, <2>1, PreviewedFields
<1>5. LoadOK(told)
  <2>1. AreTrue({})
    BY DEF AreTrue
  <2> QED
    BY <1>2, <1>4, <2>1 DEF LoadOK
<1>6. PICK facts : facts = hints /\ AreTrue(facts)' /\ TellsOf(facts)'
  <2>1. hints' = hints
    BY ListStays DEF Preview
  <2> QED
    BY <2>1
<1>7. PICK again : again = ReadAgain(told, facts)
  OBVIOUS
<1>8. LoadOK(again)' /\ again.live = r.live
  <2>1. LoadOK(told)'
    BY <1>5
  <2>2. LoadOK(again)'
    BY <1>6, <1>7, <2>1, AgainIsOK
  <2>3. again.live = r.live
    <3>1. PICK s : s = Again(told, facts)
      OBVIOUS
    <3>2. s.live = told.live
      <4>1. IsLoad(told)
        BY <1>4
      <4> QED
        BY <3>1, <4>1, AgainFields
    <3> QED
      BY <1>4, <1>7, <3>1, <3>2 DEF ReadAgain, Again
  <2> QED
    BY <2>2, <2>3
<1>9. PICK new : new = IF r.at \in {"no", "failed"} THEN Done ELSE again
  OBVIOUS
<1>10. loads' = [loads EXCEPT ![l] = new]
  BY <1>2, <1>3, <1>6, <1>7, <1>9 DEF Preview
<1>11. LoadOK(new)' /\ (new.live => loads[l].live)
  <2>1. CASE new = again
    BY <1>2, <1>8, <2>1
  <2>2. CASE new = Done
    <3>1. LoadOK(Done)'
      BY DoneIsOK
    <3> QED
      BY <2>2, <3>1, DoneFields
  <2> QED
    BY <1>9, <2>1, <2>2
<1> QED
  BY <1>1, <1>10, <1>11, OneLoadStep

\* A page comes.
LEMMA PageStepOfLoad ==
  ASSUME PaidInv, \A r : LoadOK(r) => LoadOK(r)', AreTrue(hints)', TellsOf(hints)',
         latest \in Nat, latest' \in Nat, latest <= latest', NEW l \in DOMAIN loads, PageComes(l)
  PROVE  LoadsInOrder' /\ NoneRevives
<1>1. LoadsInOrder
  BY DEF PaidInv, LoadsInOrder
<1>2. PICK r : r = loads[l] /\ LoadOK(r) /\ IsLoad(r) /\ r.at = "page"
  BY <1>1 DEF LoadsInOrder, LoadOK, PageComes
<1>3. PICK block \in IF r.before = First THEN latest .. indexed ELSE {r.snapshot} :
        /\ loads' = [loads EXCEPT ![l] =
             ReadAgain([r EXCEPT !.at = "overlay", !.snapshot = block], hints)]
        /\ latest' = Max({latest, block})
  BY <1>2 DEF PageComes
<1>4. block \in Nat /\ block <= latest'
  <2>1. indexed \in Nat /\ r.snapshot \in Nat
    BY <1>2 DEF LoadOK, PaidInv, GapInv, LoadsOK
  <2>2. block \in Nat
    BY <1>3, <2>1
  <2>3. \E x \in {latest, block} : \A y \in {latest, block} : x >= y
    BY <2>2
  <2>4. \A y \in {latest, block} : latest' >= y
    BY <1>3, <2>3, Zenon DEF Max
  <2> QED
    BY <2>2, <2>4
<1>5. PICK told : told = Paged(r, block)
  OBVIOUS
<1>6. /\ IsLoad(told) /\ told.at = "overlay" /\ told.live = r.live /\ told.preview = r.preview
      /\ told.before = r.before /\ told.snapshot = block /\ told.read = r.read
      /\ told.early = r.early
  <2>1. IsLoad(r)
    BY <1>2
  <2> QED
    BY <1>5, <2>1, PagedFields
<1>7. LoadOK(r)' /\ r.preview # "no"
  BY <1>2 DEF LoadOK
<1>8. r.before = First \/ (block = r.snapshot /\ HasEarlier(r.before, r.snapshot)')
  <2>1. r.before = First \/ HasEarlier(r.before, r.snapshot)'
    BY <1>2, <1>7 DEF LoadOK, First
  <2> QED
    BY <1>3, <2>1
<1>9. LoadOK(told)'
  BY <1>4, <1>6, <1>7, <1>8 DEF LoadOK, First
<1>10. PICK facts : facts = hints /\ AreTrue(facts)' /\ TellsOf(facts)'
  <2>1. hints' = hints
    BY ListStays DEF PageComes
  <2> QED
    BY <2>1
<1>11. PICK again : again = ReadAgain(told, facts)
  OBVIOUS
<1>12. LoadOK(again)'
  BY <1>9, <1>10, <1>11, AgainIsOK
<1>13. again.live = r.live
  <2>1. PICK s : s = Again(told, facts)
    OBVIOUS
  <2>2. s.live = told.live
    <3>1. IsLoad(told)
      BY <1>6
    <3> QED
      BY <2>1, <3>1, AgainFields
  <2> QED
    BY <1>6, <1>11, <2>1, <2>2 DEF ReadAgain, Again
<1>14. loads' = [loads EXCEPT ![l] = again]
  BY <1>3, <1>5, <1>10, <1>11 DEF Paged
<1> QED
  BY <1>1, <1>2, <1>12, <1>13, <1>14, OneLoadStep

\* A page fails.
LEMMA FailStep ==
  ASSUME PaidInv, \A r : LoadOK(r) => LoadOK(r)', latest' \in Nat,
         NEW l \in DOMAIN loads, PageFails(l)
  PROVE  LoadsInOrder' /\ NoneRevives
<1>1. LoadsInOrder
  BY DEF PaidInv, LoadsInOrder
<1>2. PICK r : r = loads[l] /\ LoadOK(r) /\ IsLoad(r)
  BY <1>1 DEF LoadsInOrder, LoadOK
<1>3. PICK end \in {"no", "failed"} :
        loads' = [loads EXCEPT ![l] = IF r.preview = "out" THEN [r EXCEPT !.at = end] ELSE Done]
  BY <1>2 DEF PageFails
<1>4. PICK told : told = [r EXCEPT !.at = end]
  OBVIOUS
<1>5. /\ IsLoad(told) /\ told.at = end /\ told.live = r.live /\ told.preview = r.preview
      /\ told.before = r.before /\ told.snapshot = r.snapshot /\ told.read = r.read
      /\ told.early = r.early
  BY <1>2, <1>4, FailedFields
<1>6. LoadOK(told)
  BY <1>2, <1>5 DEF LoadOK
<1>7. PICK new : new = IF r.preview = "out" THEN told ELSE Done
  OBVIOUS
<1>8. loads' = [loads EXCEPT ![l] = new]
  BY <1>3, <1>4, <1>7
<1>9. LoadOK(new)' /\ (new.live => loads[l].live)
  <2>1. CASE new = told
    <3>1. LoadOK(told)'
      BY <1>6
    <3> QED
      BY <1>2, <1>5, <2>1, <3>1
  <2>2. CASE new = Done
    <3>1. LoadOK(Done)'
      BY DoneIsOK
    <3> QED
      BY <2>2, <3>1, DoneFields
  <2> QED
    BY <1>7, <2>1, <2>2
<1> QED
  BY <1>1, <1>8, <1>9, OneLoadStep

\* Every step keeps the loads in order; a load that begins ends the clean page.
LEMMA LoadsStep ==
  ASSUME PaidInv, [Step]_vars
  PROVE  LoadsInOrder' /\ (NoneRevives \/ clean' = FALSE)
<1>1. /\ Grows /\ latest \in Nat /\ latest' \in Nat /\ latest <= latest' /\ GapInv /\ GapInv'
      /\ LoadsInOrder /\ OutStays
  BY ChainStep, GapStep, ListStep DEF PaidInv, LoadsInOrder
<1>2. ASSUME confirmed' = confirmed PROVE \A r : LoadOK(r) => LoadOK(r)'
  BY <1>1, <1>2, LoadStays
<1>3. AreTrue(hints)' /\ TellsOf(hints)'
  <2>1. confirmed' \subseteq Tickets
    BY <1>1 DEF GapInv, EndsOK
  <2> QED
    BY <1>1, <2>1, HintsStep DEF GapInv, GapIsCovered, TellsOf, held
<1>4. ASSUME NEW l \in DOMAIN loads, Load(l) \/ LoadMore(l)
      PROVE  LoadsInOrder' /\ clean' = FALSE
  <2>1. confirmed' = confirmed /\ clean' = FALSE
    BY <1>4 DEF Load, LoadMore, StartLoad
  <2> QED
    BY <1>2, <1>4, <2>1, StartStep
<1>5. ASSUME NEW l \in DOMAIN loads, Preview(l) PROVE LoadsInOrder' /\ NoneRevives
  <2>1. confirmed' = confirmed
    BY <1>5 DEF Preview
  <2> QED
    BY <1>1, <1>2, <1>3, <1>5, <2>1, PreviewStep
<1>6. ASSUME NEW l \in DOMAIN loads, PageComes(l) PROVE LoadsInOrder' /\ NoneRevives
  <2>1. confirmed' = confirmed
    BY <1>6 DEF PageComes
  <2> QED
    BY <1>1, <1>2, <1>3, <1>6, <2>1, PageStepOfLoad
<1>7. ASSUME NEW l \in DOMAIN loads, PageFails(l) PROVE LoadsInOrder' /\ NoneRevives
  <2>1. confirmed' = confirmed
    BY <1>7 DEF PageFails
  <2> QED
    BY <1>1, <1>2, <1>7, <2>1, FailStep
<1>8. ASSUME NEW l \in DOMAIN loads, Loaded(l) PROVE LoadsInOrder' /\ NoneRevives
  <2>1. confirmed' = confirmed /\ loads' = [loads EXCEPT ![l] = Done]
    BY <1>8 DEF Loaded
  <2>2. PICK shut : shut = Done
    OBVIOUS
  <2>3. LoadOK(Done)'
    BY <1>1, DoneIsOK
  <2>4. LoadOK(shut)' /\ (shut.live => loads[l].live)
    BY <2>2, <2>3, DoneFields
  <2> QED
    BY <1>1, <1>2, <2>1, <2>2, <2>4, OneLoadStep
<1>9. ASSUME Confirm PROVE LoadsInOrder' /\ NoneRevives
  <2>1. loads' = Supersede /\ UNCHANGED <<world, latest>>
    BY <1>9 DEF Confirm, Retired
  <2>2. DOMAIN loads' = DOMAIN loads
        /\ \A k \in DOMAIN loads : loads'[k] = [loads[k] EXCEPT !.live = FALSE]
    BY <2>1 DEF Supersede
  <2>3. ASSUME NEW k \in DOMAIN loads' PROVE LoadOK(loads[k])' /\ loads'[k].live = FALSE
    <3>1. PICK r : r = loads[k] /\ LoadOK(r) /\ IsLoad(r)
      BY <1>1, <2>2, <2>3 DEF LoadsInOrder, LoadOK
    <3>2. PICK s : s = [r EXCEPT !.live = FALSE]
      OBVIOUS
    <3>3. /\ IsLoad(s) /\ s.at = r.at /\ s.live = FALSE /\ s.preview = r.preview
          /\ s.before = r.before /\ s.snapshot = r.snapshot /\ s.read = r.read /\ s.early = r.early
      <4>1. IsLoad(r)
        BY <3>1
      <4> QED
        BY <3>2, <4>1, SupersededFields
    <3>4. AreTrue(s.read)' /\ AreTrue(s.early)'
      <4>1. AreTrue(s.read) /\ AreTrue(s.early)
        BY <3>1, <3>3 DEF LoadOK
      <4> QED
        BY <1>1, <4>1, TrueStays
    <3>5. s.at \in {"page", "overlay"} => s.before = First \/ HasEarlier(s.before, s.snapshot)'
      <4>1. s.at \in {"page", "overlay"} => s.before = First \/ HasEarlier(s.before, s.snapshot)
        BY <3>1, <3>3 DEF LoadOK
      <4> QED
        BY <1>1, <4>1, EarlierStays
    <3>6. LoadOK(s)'
      BY <2>1, <3>1, <3>3, <3>4, <3>5 DEF LoadOK, First
    <3>7. s = loads'[k]
      BY <2>2, <2>3, <3>1, <3>2
    <3> QED
      BY <3>3, <3>6, <3>7
  <2> QED
    BY <2>2, <2>3 DEF LoadsInOrder, NoneRevives
<1>10. ASSUME loads' = loads, confirmed' = confirmed PROVE LoadsInOrder' /\ NoneRevives
  <2>1. ASSUME NEW k \in DOMAIN loads' PROVE LoadOK(loads[k])'
    <3>1. PICK r : r = loads[k] /\ LoadOK(r)
      BY <1>1, <1>10, <2>1 DEF LoadsInOrder
    <3>2. LoadOK(r)'
      BY <1>2, <1>10, <3>1
    <3> QED
      BY <1>10, <3>1, <3>2
  <2> QED
    BY <1>1, <1>10, <2>1 DEF LoadsInOrder, NoneRevives
<1>11. \/ \E l \in DOMAIN loads :
            Load(l) \/ LoadMore(l) \/ Preview(l) \/ PageComes(l) \/ PageFails(l) \/ Loaded(l)
       \/ Confirm
       \/ (loads' = loads /\ confirmed' = confirmed)
  BY DEF Step, MintTicket, Transfer, Act, Index, Send, MineAct, NotConfirmed, vars
<1> QED
  BY <1>4, <1>5, <1>6, <1>7, <1>8, <1>9, <1>10, <1>11

-----------------------------------------------------------------------------
(* The page *)

\* The index shows the tickets that it knows the mint of.
LEMMA IndexedIsMinted ==
  ASSUME ChainOK, EventsOK, NEW t \in Tickets, NEW block \in Nat
  PROVE  /\ Indexed(t, block) \in Looks
         /\ Indexed(t, block) # "none" <=> minted[t] # 0 /\ minted[t] <= block
<1>1. /\ minted[t] \in Nat /\ ended[t].block \in Nat
      /\ ended[t].how \in {"none", "burned", "moved"}
      /\ ended[t].block # 0 => minted[t] # 0 /\ ended[t].how # "none"
  BY DEF ChainOK
<1>2. CASE minted[t] = 0 \/ minted[t] > block
  <2>1. Indexed(t, block) = "none"
    <3>1. ~(ended[t].block # 0 /\ ended[t].block <= block)
      BY <1>1, <1>2 DEF EventsOK
    <3> QED
      BY <1>2, <3>1 DEF Indexed, State
  <2> QED
    BY <1>1, <1>2, <2>1 DEF Looks
<1>3. CASE ~(minted[t] = 0 \/ minted[t] > block) /\ ended[t].block # 0 /\ ended[t].block <= block
  <2>1. Indexed(t, block) = ended[t].how
    BY <1>3 DEF Indexed, State
  <2> QED
    BY <1>1, <1>3, <2>1 DEF Looks
<1>4. CASE ~(minted[t] = 0 \/ minted[t] > block) /\ ~(ended[t].block # 0 /\ ended[t].block <= block)
  <2>1. Indexed(t, block) = "open"
    BY <1>4 DEF Indexed, State
  <2> QED
    BY <1>1, <1>4, <2>1 DEF Looks
<1> QED
  BY <1>2, <1>3, <1>4

\* The page before a ticket has one more to go before when there are more.
LEMMA NextOK ==
  ASSUME ChainOK, EventsOK, NEW before, NEW block \in Nat, before = First \/ HasEarlier(before, block),
         NEW next, next = Next(before, block)
  PROVE  \/ next = NoCursor
         \/ /\ next = [before |-> next.before, snapshot |-> block]
            /\ HasEarlier(next.before, block)
<1>1. PICK earlier : earlier = {t \in Tickets : t < before /\ Indexed(t, block) # "none"}
  OBVIOUS
<1>2. PICK on : on = OnPage(before, block)
  OBVIOUS
<1>3. on = {t \in earlier : Cardinality({s \in earlier : s >= t}) <= PageSize}
  BY <1>1, <1>2 DEF OnPage
<1>4. SUFFICES ASSUME NEW t \in Tickets, Indexed(t, block) # "none", \A s \in on : t < s,
                      next = [before |-> Min(on), snapshot |-> block]
               PROVE  HasEarlier(Min(on), block)
  BY <1>2 DEF Next
<1>5. earlier # {}
  <2>1. CASE before = First
    <3>1. t < before
      BY <2>1, FirstIsLast
    <3> QED
      BY <1>1, <1>4, <3>1
  <2>2. CASE HasEarlier(before, block)
    <3>1. PICK u \in Tickets : u < before /\ minted[u] # 0 /\ minted[u] <= block
      BY <2>2 DEF HasEarlier
    <3>2. Indexed(u, block) # "none"
      BY <3>1, IndexedIsMinted
    <3> QED
      BY <1>1, <3>1, <3>2
  <2> QED
    BY <2>1, <2>2
<1>6. PICK m \in earlier : \A s \in earlier : m >= s
  <2>1. earlier \in SUBSET Tickets
    BY <1>1
  <2> QED
    BY <1>5, <2>1, MaxIsLast
<1>7. m \in on
  <2>1. {s \in earlier : s >= m} = {m}
    <3>1. \A s \in earlier : s \in Nat
      BY <1>1, FirstIsLast
    <3> QED
      BY <1>6, <3>1
  <2>2. Cardinality({m}) = 1
    BY FS_Singleton
  <2>3. 1 <= PageSize
    BY PositionsAssumption
  <2> QED
    BY <1>3, <2>1, <2>2, <2>3
<1>8. on \in SUBSET Tickets /\ on # {}
  BY <1>1, <1>3, <1>7
<1>9. Min(on) \in on
  BY <1>8, MinIsFirst
<1>10. minted[t] # 0 /\ minted[t] <= block
  BY <1>4, IndexedIsMinted
<1> QED
  BY <1>4, <1>8, <1>9, <1>10 DEF HasEarlier

LEMMA MergeTyped ==
  ASSUME NEW old \in [Tickets -> Looks], NEW new \in [Tickets -> Looks]
  PROVE  Merge(old, new) \in [Tickets -> Looks]
BY DEF Merge

\* Of the receipts that say something of a ticket, the last one is believed.
Says(read, out, t) == {h \in read : h.ticket = t /\ out[h] \in Looks}

LEMMA LastIsBelieved ==
  ASSUME ChainOK, EventsOK, NEW read, AreTrue(read), NEW out, NEW t \in Tickets
  PROVE  \/ Says(read, out, t) = {} /\ Overlay(read, out)[t] = "none"
         \/ \E h \in Says(read, out, t) :
              Overlay(read, out)[t] = out[h] /\ \A g \in Says(read, out, t) : ~Later(g, h)
<1>1. Overlay(read, out)[t] =
        IF Says(read, out, t) = {} THEN "none"
        ELSE out[CHOOSE h \in Says(read, out, t) : \A g \in Says(read, out, t) : ~Later(g, h)]
  BY DEF Overlay, Says
<1>2. SUFFICES ASSUME Says(read, out, t) # {}
               PROVE  \E h \in Says(read, out, t) : \A g \in Says(read, out, t) : ~Later(g, h)
  BY <1>1
<1>3. ASSUME NEW h \in Says(read, out, t)
      PROVE  /\ h.ticket = t /\ (IsMint(h) \/ IsClaim(h))
             /\ IsMint(h) => h.block = minted[t]
             /\ IsClaim(h) => h.block = ended[t].block /\ ended[t].block # 0
  BY DEF Says, AreTrue, IsMint, IsClaim, Hint
<1>4. minted[t] \in Nat /\ ended[t].block \in Nat /\ (ended[t].block # 0 => minted[t] < ended[t].block)
  BY DEF ChainOK, EventsOK
<1>5. CASE \E h \in Says(read, out, t) : IsClaim(h)
  <2>1. PICK h \in Says(read, out, t) : IsClaim(h)
    BY <1>5
  <2>2. ASSUME NEW g \in Says(read, out, t) PROVE ~Later(g, h)
    BY <1>3, <1>4, <2>1 DEF Later
  <2> QED
    BY <2>2
<1>6. CASE \A h \in Says(read, out, t) : ~IsClaim(h)
  <2>1. PICK h \in Says(read, out, t) : TRUE
    BY <1>2
  <2>2. ASSUME NEW g \in Says(read, out, t) PROVE ~Later(g, h)
    BY <1>3, <1>4, <1>6 DEF Later
  <2> QED
    BY <2>2
<1> QED
  BY <1>5, <1>6

LEMMA OverlayTyped ==
  ASSUME ChainOK, EventsOK, NEW read, AreTrue(read), NEW out
  PROVE  Overlay(read, out) \in [Tickets -> Looks]
<1>1. ASSUME NEW t \in Tickets PROVE Overlay(read, out)[t] \in Looks
  BY LastIsBelieved DEF Says, Looks
<1>2. Overlay(read, out) = [t \in Tickets |-> Overlay(read, out)[t]]
  BY DEF Overlay
<1> QED
  BY <1>1, <1>2

\* A page that is read cleanly with the receipts of all that the index lacks
\* offers nothing that is paid.
LEMMA CleanPageIsRight ==
  ASSUME PaidInv, NEW read, AreTrue(read), TellsOf(read), NEW nodes,
         NEW out, out = Reading(nodes, latest), DOMAIN nodes = read,
         \A h \in read : out[h] # "failed", NEW t \in confirmed,
         ended[t].block > latest => Hint(t, "claim", ended[t].block) \notin pushedOut,
         NEW found, found[t] = "none" \/ found[t] = Indexed(t, latest)
  PROVE  Merge(found, Overlay(read, out))[t] # "open"
<1>1. /\ ChainOK /\ EventsOK /\ t \in Tickets /\ ended[t].block # 0 /\ ended[t].how = "burned"
      /\ latest \in Nat
  BY DEF PaidInv, GapInv, EndsOK, ActOK, LoadsOK
<1>2. /\ minted[t] \in Nat /\ ended[t].block \in Nat /\ minted[t] # 0 /\ minted[t] < ended[t].block
  BY <1>1 DEF ChainOK, EventsOK
<1>3. ASSUME NEW h \in read
      PROVE  /\ latest >= h.block => out[h] = "covered"
             /\ (~(latest >= h.block) /\ h.kind = "claim") => out[h] = "burned"
  BY <1>3 DEF Reading
<1>4. Merge(found, Overlay(read, out))[t] =
        IF Overlay(read, out)[t] = "none" THEN found[t] ELSE Overlay(read, out)[t]
  BY <1>1 DEF Merge
<1>5. ASSUME NEW h \in Says(read, out, t)
      PROVE  /\ h \in read /\ out[h] \in Looks
             /\ (h.block = minted[t] \/ h = Hint(t, "claim", ended[t].block))
  BY DEF Says, AreTrue, IsMint, IsClaim, Hint
<1>6. CASE ended[t].block <= latest
  <2>1. Says(read, out, t) = {}
    <3>1. SUFFICES ASSUME NEW h \in Says(read, out, t) PROVE FALSE
      OBVIOUS
    <3>2. latest >= h.block
      BY <1>1, <1>2, <1>5, <1>6 DEF Hint
    <3> QED
      BY <1>3, <1>5, <3>2 DEF Looks
  <2>2. Overlay(read, out)[t] = "none"
    BY <1>1, <2>1, LastIsBelieved
  <2>3. Indexed(t, latest) = "burned"
    BY <1>1, <1>2, <1>6 DEF Indexed, State
  <2> QED
    BY <1>4, <2>2, <2>3
<1>7. CASE ended[t].block > latest
  <2>1. PICK c \in read : c = Hint(t, "claim", ended[t].block)
    BY <1>7 DEF TellsOf
  <2>2. c.ticket = t /\ c.kind = "claim" /\ c.block = ended[t].block
    BY <2>1 DEF Hint
  <2>3. out[c] = "burned"
    BY <1>1, <1>2, <1>3, <1>7, <2>2
  <2>4. c \in Says(read, out, t)
    BY <2>2, <2>3 DEF Says, Looks
  <2>5. PICK h \in Says(read, out, t) : Overlay(read, out)[t] = out[h] /\ ~Later(c, h)
    BY <1>1, <2>4, LastIsBelieved
  <2>6. h = c
    <3>1. SUFFICES ASSUME h.block = minted[t] PROVE FALSE
      BY <1>5, <2>1
    <3>2. h.ticket = t
      BY DEF Says
    <3> QED
      BY <1>2, <2>2, <2>5, <3>1, <3>2 DEF Later
  <2> QED
    BY <1>4, <2>3, <2>5, <2>6
<1> QED
  BY <1>1, <1>2, <1>6, <1>7


\* A step that leaves the cursor alone: what must hold of the rows.
LEMMA CursorStays ==
  ASSUME PaidInv, [Step]_vars, cursor' = cursor, rows' \in [Tickets -> Looks], clean' \in BOOLEAN,
         clean' => clean, clean' => \A t \in confirmed' : Settled(t)'
  PROVE  PageOK'
<1>1. /\ Grows /\ latest \in Nat /\ latest' \in Nat /\ latest <= latest'
      /\ (NoneRevives \/ clean' = FALSE)
  BY ChainStep, LoadsStep
<1>2. /\ cursor \in [before : Tickets \union {0}, snapshot : Nat] /\ cursor.snapshot <= latest
      /\ cursor # NoCursor => HasEarlier(cursor.before, cursor.snapshot)
      /\ clean => \A l \in DOMAIN loads : ~loads[l].live
  BY DEF PaidInv, PageOK
<1>3. cursor'.snapshot <= latest' /\ cursor' \in [before : Tickets \union {0}, snapshot : Nat]
  BY <1>1, <1>2
<1>4. cursor' # NoCursor => HasEarlier(cursor.before, cursor.snapshot)'
  <2>1. PICK c : c = cursor
    OBVIOUS
  <2>2. c # NoCursor => HasEarlier(c.before, c.snapshot)'
    BY <1>1, <1>2, <2>1, EarlierStays
  <2> QED
    BY <2>1, <2>2
<1>5. clean' => \A l \in DOMAIN loads' : ~loads'[l].live
  BY <1>1, <1>2 DEF NoneRevives
<1> QED
  BY <1>3, <1>4, <1>5 DEF PageOK, NoCursor

\* What the page shows of a ticket whose end is on the chain stays right while the
\* row, the chain and the newest snapshot stay.
LEMMA SettledStays ==
  ASSUME PaidInv, [Step]_vars, rows' = rows, latest' = latest
  PROVE  \A t \in confirmed : Settled(t) => Settled(t)'
<1>1. OutStays /\ Grows
  BY ChainStep, ListStep
<1>2. ASSUME NEW t \in confirmed, Settled(t) PROVE Settled(t)'
  <2>0. t \in Tickets /\ ended[t].block # 0
    BY DEF PaidInv, GapInv, EndsOK
  <2>a. ended'[t] = ended[t]
    BY <1>1, <2>0 DEF Grows
  <2>1. CASE rows[t] # "open"
    BY <2>1 DEF Settled
  <2>2. CASE ended[t].block > latest /\ Hint(t, "claim", ended[t].block) \in pushedOut
    <3>1. PICK hint : hint = Hint(t, "claim", ended[t].block) /\ hint \in pushedOut'
      BY <1>1, <2>2 DEF OutStays
    <3> QED
      BY <2>a, <2>2, <3>1 DEF Settled, Hint
  <2> QED
    BY <1>2, <2>1, <2>2 DEF Settled
<1> QED
  BY <1>2

\* The rows of a reading that comes early replace no clean page.
LEMMA PreviewPage ==
  ASSUME PaidInv, [Step]_vars, NEW l \in DOMAIN loads, Preview(l)
  PROVE  PageOK'
<1>1. /\ ChainOK /\ EventsOK /\ rows \in [Tickets -> Looks] /\ clean \in BOOLEAN
      /\ clean => \A k \in DOMAIN loads : ~loads[k].live
      /\ clean => \A t \in confirmed : Settled(t)
  BY DEF PaidInv, GapInv, PageOK
<1>2. AreTrue(loads[l].early)
  BY DEF PaidInv, LoadOK
<1>3. PICK nodes \in [loads[l].early -> Node \union {0}] :
        rows' = IF loads[l].live THEN Merge(rows, Overlay(loads[l].early, Reading(nodes, 0))) ELSE rows
  BY Zenon DEF Preview
<1>4. cursor' = cursor /\ clean' = clean /\ confirmed' = confirmed
      /\ latest' = latest
  BY DEF Preview
<1>5. Merge(rows, Overlay(loads[l].early, Reading(nodes, 0))) \in [Tickets -> Looks]
  <2>1. Overlay(loads[l].early, Reading(nodes, 0)) \in [Tickets -> Looks]
    BY <1>1, <1>2, OverlayTyped
  <2> QED
    BY <1>1, <2>1, MergeTyped
<1>6. rows' \in [Tickets -> Looks]
  BY <1>1, <1>3, <1>5
<1>7. clean' => \A t \in confirmed' : Settled(t)'
  <2>1. clean => rows' = rows
    BY <1>1, <1>3
  <2> QED
    BY <1>1, <1>4, <2>1, SettledStays
<1> QED
  BY <1>1, <1>4, <1>6, <1>7, CursorStays

\* A ticket that is confirmed is shown as paid at once.
LEMMA ConfirmPage == ASSUME PaidInv, [Step]_vars, Confirm PROVE PageOK'
<1>1. /\ rows \in [Tickets -> Looks] /\ clean \in BOOLEAN
      /\ clean => \A t \in confirmed : Settled(t)
  BY DEF PaidInv, PageOK
<1>2. act.ticket \in Tickets /\ confirmed \subseteq Tickets
  BY DEF PaidInv, GapInv, EndsOK, Confirm
<1>3. /\ cursor' = cursor /\ clean' = clean /\ confirmed' = confirmed \union {act.ticket}
      /\ rows' = [rows EXCEPT ![act.ticket] = "burned"] /\ ended' = ended /\ latest' = latest
  BY DEF Confirm, world
<1>4. rows' \in [Tickets -> Looks]
  BY <1>1, <1>3 DEF Looks
<1>5. clean' => \A t \in confirmed' : Settled(t)'
  <2>1. SUFFICES ASSUME clean, NEW t \in confirmed' PROVE Settled(t)'
    BY <1>3
  <2>2. CASE t = act.ticket
    BY <1>1, <1>2, <1>3, <2>2 DEF Settled
  <2>3. CASE t # act.ticket
    <3>1. t \in confirmed /\ Settled(t) /\ rows'[t] = rows[t]
      BY <1>1, <1>2, <1>3, <2>1, <2>3
    <3>2. CASE rows[t] # "open"
      BY <3>1, <3>2 DEF Settled
    <3>3. CASE ended[t].block > latest /\ Hint(t, "claim", ended[t].block) \in pushedOut
      <4>1. PICK hint : hint = Hint(t, "claim", ended[t].block) /\ hint \in pushedOut'
        BY <3>3, ListStep DEF OutStays
      <4> QED
        BY <1>3, <3>3, <4>1 DEF Settled, Hint
    <3> QED
      BY <3>1, <3>2, <3>3 DEF Settled
  <2> QED
    BY <2>2, <2>3
<1> QED
  BY <1>1, <1>3, <1>4, <1>5, CursorStays

\* A page that is shown: of the rows and the cursor, and of a first page that is
\* read without trouble from the newest snapshot.
LEMMA LoadedPage ==
  ASSUME PaidInv, [Step]_vars, NEW l \in DOMAIN loads, Loaded(l)
  PROVE  PageOK'
<1>1. /\ ChainOK /\ EventsOK /\ rows \in [Tickets -> Looks] /\ clean \in BOOLEAN
      /\ latest \in Nat
  BY DEF PaidInv, GapInv, PageOK, LoadsOK
<1>2. PICK load : load = loads[l] /\ LoadOK(load)
  BY DEF PaidInv
<1>3. /\ load.at = "overlay" /\ load.preview = "no"
      /\ loads' = [loads EXCEPT ![l] = Done]
      /\ UNCHANGED <<world, indexed, act, latest, confirmed>>
  BY <1>2 DEF Loaded
<1>a. PICK on : on = OnPage(load.before, load.snapshot)
  OBVIOUS
<1>b. PICK found : found = [t \in Tickets |-> IF t \in on THEN Indexed(t, load.snapshot) ELSE "none"]
  OBVIOUS
<1>4. PICK nodes \in [load.read -> Node \union {0}] :
        LET out == Reading(nodes, load.snapshot)
            next == Merge(found, Overlay(load.read, out))
            base == IF load.before # First THEN Merge(rows, next) ELSE next
            pending == {h.ticket : h \in Kept(load.read, out)}
            shown == [t \in Tickets |-> IF t \in pending THEN rows[t] ELSE "none"]
        IN IF load.live
           THEN /\ rows' = IF \E h \in load.read : out[h] = "failed" THEN Merge(base, shown) ELSE base
                /\ cursor' = Next(load.before, load.snapshot)
                /\ clean' = (/\ load.before = First /\ load.snapshot = latest
                             /\ \A h \in load.read : out[h] # "failed")
           ELSE UNCHANGED <<view, clean>>
  BY ZenonT(40), <1>2, <1>a, <1>b DEF Loaded
<1>5. CASE ~load.live
  <2>1. rows' = rows /\ cursor' = cursor /\ clean' = clean
    BY <1>4, <1>5 DEF view
  <2>2. (clean => \A t \in confirmed : Settled(t)) /\ confirmed' = confirmed
    BY <1>3 DEF PaidInv, PageOK
  <2>3. \A t \in confirmed : Settled(t) => Settled(t)'
    BY <1>3, <2>1, SettledStays
  <2> QED
    BY <1>1, <2>1, <2>2, <2>3, CursorStays
<1>6. CASE load.live
  <2>a. PICK out : out = Reading(nodes, load.snapshot)
    OBVIOUS
  <2>b. PICK next : next = Merge(found, Overlay(load.read, out))
    OBVIOUS
  <2>c. PICK base : base = IF load.before # First THEN Merge(rows, next) ELSE next
    OBVIOUS
  <2>d. PICK shown :
          shown = [t \in Tickets |-> IF t \in {h.ticket : h \in Kept(load.read, out)}
                                     THEN rows[t] ELSE "none"]
    OBVIOUS
  <2>1. /\ rows' = IF \E h \in load.read : out[h] = "failed" THEN Merge(base, shown) ELSE base
        /\ cursor' = Next(load.before, load.snapshot)
        /\ clean' = (/\ load.before = First /\ load.snapshot = latest
                     /\ \A h \in load.read : out[h] # "failed")
    BY <1>4, <1>6, <2>a, <2>b, <2>c, <2>d, Zenon
  <2>2. /\ load.snapshot \in Nat /\ load.snapshot <= latest /\ AreTrue(load.read)
        /\ load.before = First \/ HasEarlier(load.before, load.snapshot)
        /\ TellsOf(load.read)
    BY <1>2, <1>3, <1>6 DEF LoadOK
  <2>3. rows' \in [Tickets -> Looks]
    <3>1. found \in [Tickets -> Looks]
      <4>1. ASSUME NEW t \in Tickets PROVE Indexed(t, load.snapshot) \in Looks
        BY <1>1, <2>2, IndexedIsMinted
      <4>2. "none" \in Looks
        BY DEF Looks
      <4> QED
        BY <1>b, <4>1, <4>2
    <3>2. Overlay(load.read, out) \in [Tickets -> Looks]
      BY <1>1, <2>2, OverlayTyped
    <3>3. next \in [Tickets -> Looks]
      BY <2>b, <3>1, <3>2, MergeTyped
    <3>4. base \in [Tickets -> Looks]
      BY <1>1, <2>c, <3>3, MergeTyped
    <3>5. shown \in [Tickets -> Looks]
      BY <1>1, <2>d DEF Looks
    <3> QED
      BY <2>1, <3>4, <3>5, MergeTyped
  <2>4. /\ cursor' \in [before : Tickets \union {0}, snapshot : Nat] /\ cursor'.snapshot <= latest'
        /\ cursor' # NoCursor => HasEarlier(cursor'.before, cursor'.snapshot)
    <3>1. PICK to : to = Next(load.before, load.snapshot)
      OBVIOUS
    <3>2. \/ to = NoCursor
          \/ /\ to = [before |-> to.before, snapshot |-> load.snapshot]
             /\ HasEarlier(to.before, load.snapshot)
      BY <1>1, <2>2, <3>1, NextOK
    <3>3. CASE to = NoCursor
      BY <1>1, <1>3, <2>1, <3>1, <3>3 DEF NoCursor
    <3>4. CASE to = [before |-> to.before, snapshot |-> load.snapshot] /\ HasEarlier(to.before, load.snapshot)
      BY <1>3, <2>1, <2>2, <3>1, <3>4 DEF HasEarlier
    <3> QED
      BY <3>2, <3>3, <3>4
  <2>5. cursor' # NoCursor => HasEarlier(cursor.before, cursor.snapshot)'
    BY <1>3, <2>4 DEF HasEarlier, world
  <2>6. \A k \in DOMAIN loads' : ~loads'[k].live
    <3>1. \A k \in DOMAIN loads : loads[k].live => k = l
      BY <1>2, <1>6 DEF PaidInv
    <3>2. PICK shut : shut = Done /\ shut.live = FALSE
      BY DoneFields
    <3>3. loads' = [loads EXCEPT ![l] = shut]
      BY <1>3, <3>2
    <3> QED
      BY <3>1, <3>2, <3>3
  <2>7. ASSUME clean', NEW t \in confirmed PROVE Settled(t)'
    <3>0. receipts' = receipts /\ ended' = ended /\ latest' = latest
      BY <1>3 DEF Loaded, world
    <3>a. SUFFICES ASSUME ended[t].block > latest => Hint(t, "claim", ended[t].block) \notin pushedOut
                   PROVE  rows'[t] # "open"
      BY <3>0 DEF Settled, pushedOut, Hint
    <3>1. load.before = First /\ load.snapshot = latest /\ \A h \in load.read : out[h] # "failed"
      BY <2>1, <2>7
    <3>2. rows' = next
      BY <2>1, <2>c, <3>1
    <3>3. DOMAIN nodes = load.read
      OBVIOUS
    <3>4. found[t] = "none" \/ found[t] = Indexed(t, latest)
      <4>1. t \in Tickets
        BY DEF PaidInv, GapInv, EndsOK
      <4> QED
        BY <1>b, <3>1, <4>1
    <3>5. AreTrue(load.read) /\ TellsOf(load.read)
      BY <2>2
    <3>6. out = Reading(nodes, latest)
      BY <2>a, <3>1
    <3>7. Merge(found, Overlay(load.read, out))[t] # "open"
      BY <3>a, <3>1, <3>3, <3>4, <3>5, <3>6, CleanPageIsRight
    <3> QED
      BY <2>b, <3>2, <3>7
  <2>8. clean' \in BOOLEAN /\ confirmed' = confirmed /\ NoCursor' = NoCursor
    BY <1>3, <2>1 DEF NoCursor
  <2> QED
    BY <2>3, <2>4, <2>5, <2>6, <2>7, <2>8 DEF PageOK
<1> QED
  BY <1>5, <1>6

\* Every step keeps the page in order.
LEMMA PageStep == ASSUME PaidInv, [Step]_vars PROVE PageOK'
<1>1. /\ rows \in [Tickets -> Looks] /\ clean \in BOOLEAN
      /\ clean => \A t \in confirmed : Settled(t)
  BY DEF PaidInv, PageOK
<1>2. ASSUME NEW l \in DOMAIN loads, Preview(l) \/ Loaded(l) PROVE PageOK'
  BY <1>2, PreviewPage, LoadedPage
<1>3. CASE Confirm
  BY <1>3, ConfirmPage
<1>4. CASE UNCHANGED view /\ clean' = FALSE
  <2>1. cursor' = cursor /\ rows' = rows
    BY <1>4 DEF view
  <2> QED
    BY <1>1, <1>4, <2>1, CursorStays
<1>5. CASE UNCHANGED view /\ clean' = (clean /\ latest' = latest) /\ confirmed' = confirmed
  <2>1. cursor' = cursor /\ rows' = rows
    BY <1>5 DEF view
  <2>2. clean' \in BOOLEAN /\ (clean' => clean /\ latest' = latest)
    BY <1>1, <1>5
  <2>3. clean' => \A t \in confirmed' : Settled(t)'
    <3>1. SUFFICES ASSUME clean' PROVE \A t \in confirmed : Settled(t)'
      BY <1>5
    <3> QED
      BY <1>1, <2>1, <2>2, <3>1, SettledStays
  <2> QED
    BY <1>1, <2>1, <2>2, <2>3, CursorStays
<1>6. \/ \E l \in DOMAIN loads : Preview(l) \/ Loaded(l)
      \/ Confirm
      \/ UNCHANGED view /\ clean' = FALSE
      \/ UNCHANGED view /\ clean' = (clean /\ latest' = latest) /\ confirmed' = confirmed
  BY <1>1 DEF Step, MintTicket, Transfer, Act, Index, Send, MineAct, NotConfirmed, Load, LoadMore,
         StartLoad, PageComes, PageFails, vars
<1> QED
  BY <1>2, <1>3, <1>4, <1>5, <1>6

-----------------------------------------------------------------------------
(* The theorems *)

LEMMA PaidInit == ASSUME Init PROVE PaidInv
<1>1. GapInv
  BY InitOK
<1>2. EventsOK
  <2>1. {t \in Tickets : minted[t] # 0} = {} /\ {t \in Tickets : ended[t].block # 0} = {}
    BY DEF Init, NotYet
  <2>2. Cardinality({}) = 0
    BY FS_EmptySet
  <2>3. height = 0 /\ \A t \in Tickets : ended[t].block = 0 /\ ended[t].how = "none"
    BY DEF Init, NotYet
  <2> QED
    BY <2>1, <2>2, <2>3 DEF EventsOK
<1>3. latest <= indexed /\ indexed <= height /\ AreTrue(everSaved)
  BY DEF Init, AreTrue, everSaved
<1>4. ASSUME NEW l \in DOMAIN loads PROVE LoadOK(loads[l]) /\ loads[l].live = FALSE
  <2>1. PICK r : r = loads[l]
    OBVIOUS
  <2>2. r = [at |-> "begin", live |-> FALSE, preview |-> "no", before |-> 0, snapshot |-> 0,
             read |-> {}, early |-> {}]
    BY <2>1 DEF Init, NoLoad
  <2>3. IsLoad(r) /\ AreTrue({}) /\ 0 \in 0 .. First
    <3>1. IsLoad(r)
      BY <2>2 DEF IsLoad
    <3>2. AreTrue({})
      BY DEF AreTrue
    <3>3. 0 \in 0 .. First
      BY FirstIsLast
    <3> QED
      BY <3>1, <3>2, <3>3
  <2>4. latest = 0
    BY DEF Init
  <2>5. LoadOK(r)
    BY <2>2, <2>3, <2>4 DEF LoadOK
  <2> QED
    BY <2>1, <2>2, <2>5
<1>5. PageOK
  <2>1. /\ rows = [t \in Tickets |-> "none"] /\ clean = FALSE /\ latest = 0
        /\ cursor = [before |-> 0, snapshot |-> 0]
    BY DEF Init, NoCursor
  <2>2. rows \in [Tickets -> Looks]
    BY <2>1 DEF Looks
  <2>3. cursor = NoCursor /\ cursor.snapshot = 0
    BY <2>1 DEF NoCursor
  <2>4. cursor \in [before : Tickets \union {0}, snapshot : Nat]
    BY <2>1
  <2>5. clean \in BOOLEAN /\ ~clean
    BY <2>1
  <2>6. cursor.snapshot <= latest
    BY <2>1, <2>3
  <2> QED
    BY <2>2, <2>3, <2>4, <2>5, <2>6, Zenon DEF PageOK
<1>6. ActOK
  BY DEF Init, ActOK, NoAct
<1> QED
  BY <1>1, <1>2, <1>3, <1>4, <1>5, <1>6 DEF PaidInv

LEMMA PaidStep == ASSUME PaidInv, [Step]_vars PROVE PaidInv'
<1>1. GapInv'
  BY GapStep DEF PaidInv
<1>2. EventsOK' /\ latest' <= indexed' /\ indexed' <= height'
  BY ChainStep
<1>3. AreTrue(everSaved)' /\ ActOK' /\ PageOK'
  BY HintsStep, ActStep, PageStep
<1>4. LoadsInOrder'
  BY LoadsStep
<1> QED
  BY <1>1, <1>2, <1>3, <1>4 DEF PaidInv, LoadsInOrder

\* The types follow: there are two events to a ticket, at most.
LEMMA TypesFollow == ASSUME PaidInv PROVE TypeOK
<1>1. ChainOK /\ EventsOK /\ LoadsOK /\ PageOK /\ ActOK /\ AreTrue(everSaved)
      /\ ListOK /\ confirmed \subseteq Tickets
  BY DEF PaidInv, GapInv, EndsOK
<1>2. PICK n \in Nat : n = Cardinality(Tickets)
  BY PositionsAssumption, FS_CardinalityType
<1>3. height <= 2 * n
  <2>1. ASSUME NEW A \in SUBSET Tickets PROVE Cardinality(A) \in Nat /\ Cardinality(A) <= n
    BY <1>2, PositionsAssumption, FS_Subset, FS_CardinalityType
  <2>2. PICK a, b : /\ a = Cardinality({t \in Tickets : minted[t] # 0})
                    /\ b = Cardinality({t \in Tickets : ended[t].block # 0})
    OBVIOUS
  <2>3. a \in Nat /\ a <= n /\ b \in Nat /\ b <= n
    BY <2>1, <2>2
  <2>4. height = a + b
    BY <1>1, <2>2 DEF EventsOK
  <2> QED
    BY <2>3, <2>4
<1>4. \A b \in Nat : b <= height => b \in Blocks
  BY <1>1, <1>2, <1>3 DEF Blocks, ChainOK
<1>5. /\ latest \in Nat /\ indexed \in Nat /\ height \in Nat
      /\ latest <= indexed /\ indexed <= height
  BY <1>1 DEF LoadsOK, ChainOK, PaidInv
<1>6. height \in Blocks /\ minted \in [Tickets -> Blocks]
  BY <1>1, <1>4, <1>5 DEF ChainOK
<1>7. ended \in [Tickets -> [block : Blocks, how : {"none", "burned", "moved"}]]
  <2>1. ASSUME NEW t \in Tickets
        PROVE  ended[t] \in [block : Blocks, how : {"none", "burned", "moved"}]
    <3>1. /\ ended[t] \in [block : Nat, how : {"none", "burned", "moved"}]
          /\ ended[t].block <= height
      BY <1>1 DEF ChainOK
    <3>2. ended[t].block \in Blocks
      BY <1>4, <3>1
    <3> QED
      BY <3>1, <3>2
  <2>2. ended = [t \in Tickets |-> ended[t]]
    BY <1>1 DEF ChainOK
  <2> QED
    BY <2>1, <2>2
<1>8. receipts \in Seq([ticket : Tickets, kind : {"mint", "claim"}, block : 1 .. height])
  <2>1. ASSUME NEW h \in everSaved
        PROVE  h \in [ticket : Tickets, kind : {"mint", "claim"}, block : 1 .. height]
    <3>1. h.ticket \in Tickets /\ (IsMint(h) \/ IsClaim(h))
      BY <1>1 DEF AreTrue
    <3>2. /\ minted[h.ticket] \in Nat /\ minted[h.ticket] <= height
          /\ ended[h.ticket].block \in Nat /\ ended[h.ticket].block <= height
      BY <1>1, <3>1 DEF ChainOK
    <3>3. CASE IsMint(h)
      BY <1>5, <3>1, <3>2, <3>3 DEF IsMint, Hint
    <3>4. CASE IsClaim(h)
      BY <1>5, <3>1, <3>2, <3>4 DEF IsClaim, Hint
    <3> QED
      BY <3>1, <3>3, <3>4
  <2>2. PICK all : all = [ticket : Tickets, kind : {"mint", "claim"}, block : 1 .. height]
    OBVIOUS
  <2>3. \A i \in 1 .. Len(receipts) : receipts[i] \in all
    BY <1>1, <2>1, <2>2 DEF ListOK, everSaved
  <2>4. PICK list, k : list = receipts /\ k = Len(receipts)
    OBVIOUS
  <2>5. list = [i \in 1 .. k |-> list[i]] /\ k \in Nat
    BY <1>1, <2>4 DEF ListOK
  <2>6. list \in [1 .. k -> all]
    BY <2>3, <2>4, <2>5
  <2>7. list \in Seq(all)
    BY <2>5, <2>6
  <2> QED
    BY <2>2, <2>4, <2>7
<1>9. cursor \in [before : Tickets \union {0}, snapshot : Blocks]
  <2>1. cursor.snapshot \in Blocks
    BY <1>1, <1>4, <1>5 DEF PageOK
  <2> QED
    BY <1>1, <2>1 DEF PageOK
<1>10. ASSUME NEW l \in DOMAIN loads
       PROVE  /\ loads[l].at \in {"begin", "page", "overlay", "failed", "no"}
              /\ loads[l].live \in BOOLEAN /\ loads[l].preview \in {"no", "out", "in"}
              /\ loads[l].before \in 0 .. First /\ loads[l].snapshot \in Blocks
  <2>1. PICK r : r = loads[l] /\ LoadOK(r)
    BY DEF PaidInv
  <2>2. r.snapshot \in Blocks
    BY <1>4, <1>5, <2>1 DEF LoadOK
  <2> QED
    BY <2>1, <2>2 DEF LoadOK
<1>11. \A l, k \in DOMAIN loads : loads[l].live /\ loads[k].live => l = k
  BY DEF PaidInv
<1>12. indexed \in 0 .. height /\ latest \in 0 .. indexed
  BY <1>5
<1> QED
  BY <1>1, <1>6, <1>7, <1>8, <1>9, <1>10, <1>11, <1>12 DEF TypeOK, ListOK, PageOK, ActOK

\* What the variables hold, and that one load is live at most.
THEOREM TypeCorrect == Spec => []TypeOK
<1> QED
  BY PaidInit, PaidStep, TypesFollow, PTL DEF Spec

\* What a receipt said is paid is not offered again by a clean page, unless
\* MaxReceipts newer receipts came before the index had it.
THEOREM PaidIsNotOfferedAgain == Spec => []PaidIsNotOffered
<1>1. PaidInv => PaidIsNotOffered
  BY TypesFollow DEF PaidInv, PageOK, Settled, PaidIsNotOffered
<1> QED
  BY <1>1, PaidInit, PaidStep, PTL DEF Spec
-----------------------------------------------------------------------------
(***************************************************************************)
(* The page of the slip, which shares no state with that of the positions. *)
(*                                                                         *)
(* A mint supersedes every call for a quote, so that only the mint itself  *)
(* replaces the terms it mints; and it leaves the page frozen, with        *)
(* nothing to offer.                                                       *)
(***************************************************************************)
Minting == mint.at # "no"

Page ==
  [shown : SUBSET Markets, restored : BOOLEAN, button : Quotes \union {None},
   stored : Quotes \union {None, Error}, quoting : BOOLEAN, minting : BOOLEAN,
   state : {"idle", "pending", "done", "requoted", "error"}, timer : BOOLEAN,
   ticked : BOOLEAN, skewRetried : BOOLEAN, allowance : BOOLEAN]
Call == [at : {"no", "out"}, current : BOOLEAN, quote : {None}]
Approval == [at : {"no", "wallet", "receipt"}, current : BOOLEAN, quote : {None}]
Stages == {"funds", "approve", "requote", "simulate", "wallet", "sent", "landed", "reverted"}
MintFlow == [at : Stages \union {"no"}, current : BOOLEAN, quote : Quotes \union {None}]

\* What is typed, by what changes together.
SlipOK == legs \subseteq Markets /\ saved \subseteq Markets /\ edits \in 0 .. MaxEdits
FlowsOK ==
  /\ page \in Page /\ call \in Call /\ approval \in Approval /\ mint \in MintFlow
  /\ page.minting = Minting /\ (Minting => mint.quote \in Quotes)
LedgerOK ==
  /\ left \in [Quotes -> 0 .. 2] /\ pool \in [Quotes -> 0 .. 2] /\ tickets \subseteq Quotes
  /\ allowance \in BOOLEAN /\ remembered \subseteq tickets /\ unseen \subseteq Quotes
  /\ done \in Nat /\ upset \in BOOLEAN /\ faults \in 0 .. MaxFaults

\* A transaction that may still mine is that of the mint, or of one whose receipt the
\* page will not see; a mint has landed when its ticket exists; no ticket is forgotten.
ChainInv ==
  /\ \A q \in Quotes : pool[q] > 0 => q \in unseen \/ (mint.at = "sent" /\ mint.quote = q /\ pool[q] = 1)
  /\ mint.at = "landed" => mint.quote \in tickets
  /\ tickets \subseteq remembered \union unseen \union (IF mint.at = "landed" THEN {mint.quote} ELSE {})

\* Only a call that nothing superseded sets the quote that is shown, and none is out
\* under a mint; the button mints what is shown, unless that ran out since.
AskInv ==
  /\ call.current => call.at = "out" /\ page.quoting /\ ~page.minting
  /\ page.button # None => /\ page.stored \in {page.button, None, Error}
                           /\ page.stored = Error => left[page.button] = 0
  /\ Minting /\ mint.current => page.stored \in {mint.quote, None, Error}

Early == {"funds", "approve", "requote"}

\* As long as no approval upset the page: the slip that is being minted was not minted
\* yet, and the page is frozen, unless the user retried a quote that had run out, which the
\* mint then replaces; the slip that was minted offers nothing more.
OnceInv ==
  ~upset =>
    /\ Minting /\ mint.current =>
         /\ done = 0 /\ page.state \in {"pending", "idle", "error"}
         /\ mint.at \in Early =>
              /\ page.stored = Error => left[mint.quote] = 0
              /\ page.state = "pending" \/ (page.stored = Error /\ ~page.skewRetried)
         /\ mint.at \notin Early =>
              /\ page.stored # Error
              /\ page.state = "pending" \/ (page.skewRetried => page.stored = None)
         /\ mint.at \in {"sent", "landed", "reverted"} => ~page.timer
    /\ done > 0 => /\ done = 1 /\ page.state = "done" /\ page.button = None /\ ~page.timer
                   /\ page.stored # Error /\ ~call.current /\ ~Minting

TicketInv == SlipOK /\ FlowsOK /\ LedgerOK /\ ChainInv /\ AskInv /\ OnceInv

-----------------------------------------------------------------------------

\* Quotes are positive: neither "no quote" nor the error is one.
LEMMA QuotesArePositive == \A q \in Quotes : q \in Nat /\ q > 0 /\ q # None /\ q # Error
BY TicketAssumption DEF None, Error

LEMMA BoundsAreNaturals == MaxEdits \in Nat /\ MaxFaults \in Nat
BY TicketAssumption

LEMMA TicketInitOK == ASSUME TicketInit PROVE TicketInv
<1>1. NoFlow \in Call /\ NoFlow \in Approval /\ NoFlow \in MintFlow /\ FreshPage \in Page
  BY DEF NoFlow, Call, Approval, MintFlow, Stages, FreshPage, Page
<1>2. SlipOK
  BY TicketAssumption, BoundsAreNaturals DEF TicketInit, SlipOK
<1>3. FlowsOK
  BY <1>1 DEF TicketInit, FlowsOK, Minting, NoFlow, FreshPage
<1>5. left \in [Quotes -> 0 .. 2] /\ pool \in [Quotes -> 0 .. 2]
  BY DEF TicketInit
<1>6. tickets = {} /\ allowance = FALSE /\ remembered = {} /\ unseen = {} /\ done = 0 /\ upset = FALSE
      /\ faults = 0
  BY DEF TicketInit
<1>8. allowance \in BOOLEAN /\ upset \in BOOLEAN
  BY <1>6, Zenon
<1>9. done \in Nat /\ faults \in 0 .. MaxFaults
  BY <1>6, BoundsAreNaturals
<1>10. tickets \subseteq Quotes /\ remembered \subseteq tickets /\ unseen \subseteq Quotes
  BY <1>6
<1>7. LedgerOK
  BY <1>5, <1>8, <1>9, <1>10 DEF LedgerOK
<1>4. ChainInv /\ AskInv /\ OnceInv
  BY DEF TicketInit, ChainInv, AskInv, OnceInv, Minting, NoFlow, FreshPage
<1> QED
  BY <1>2, <1>3, <1>4, <1>7 DEF TicketInv

-----------------------------------------------------------------------------
(* The slip and the page *)

\* A change of the slip waits for its render: only the slip is disturbed.
LEMMA EditOK ==
  ASSUME TicketInv, NEW slip \in SUBSET Markets, Edit(slip),
         NEW b \in BOOLEAN, page' = [page EXCEPT !.restored = b]
  PROVE  TicketInv'
<1> USE DEF TicketInv
<1>0. /\ page'.button = page.button /\ page'.stored = page.stored /\ page'.quoting = page.quoting
      /\ page'.minting = page.minting /\ page'.state = page.state /\ page'.timer = page.timer
      /\ page'.skewRetried = page.skewRetried /\ page' \in Page
  BY DEF FlowsOK, Page
<1>1. UNCHANGED flows /\ UNCHANGED chain /\ UNCHANGED history /\ UNCHANGED faults
  BY DEF Edit
<1>2. /\ UNCHANGED call /\ UNCHANGED approval /\ UNCHANGED mint /\ UNCHANGED left /\ UNCHANGED pool
      /\ UNCHANGED tickets /\ UNCHANGED allowance /\ UNCHANGED remembered /\ UNCHANGED unseen
      /\ UNCHANGED done /\ UNCHANGED upset
  BY <1>1 DEF flows, chain, history
<1>3. SlipOK'
  BY BoundsAreNaturals DEF SlipOK, Edit
<1>4. FlowsOK'
  BY <1>0, <1>2 DEF FlowsOK, Minting
<1>5. LedgerOK'
  BY <1>1, <1>2 DEF LedgerOK
<1>6. ChainInv'
  BY <1>2 DEF ChainInv
<1>7. AskInv'
  BY <1>0, <1>2 DEF AskInv, Minting
<1>8. OnceInv'
  BY <1>0, <1>2 DEF OnceInv, Minting
<1> QED
  BY <1>3, <1>4, <1>5, <1>6, <1>7, <1>8

LEMMA ReloadOK == ASSUME TicketInv, Reload PROVE TicketInv'
<1> USE DEF TicketInv
<1>1. NoFlow \in Call /\ NoFlow \in Approval /\ NoFlow \in MintFlow /\ FreshPage \in Page
  BY DEF NoFlow, Call, Approval, MintFlow, Stages, FreshPage, Page
<1>2. /\ legs' = {} /\ page' = FreshPage /\ call' = NoFlow /\ approval' = NoFlow /\ mint' = NoFlow
      /\ done' = 0 /\ upset' = FALSE /\ UNCHANGED saved /\ UNCHANGED left /\ UNCHANGED tickets
      /\ UNCHANGED allowance /\ UNCHANGED remembered /\ UNCHANGED edits
      /\ faults' = faults + 1 /\ faults < MaxFaults
      /\ unseen' = unseen \union (IF mint.at \in {"wallet", "sent", "landed", "reverted"}
                              THEN {mint.quote} ELSE {})
  BY DEF Reload, Fault
<1>3. /\ pool' \in [Quotes -> 0 .. 2]
      /\ \A q \in Quotes : pool'[q] > 0 => pool[q] > 0 \/ (mint.at = "wallet" /\ mint.quote = q)
  BY DEF Reload, LedgerOK
<1>4. SlipOK'
  BY <1>2 DEF SlipOK
<1>5. FlowsOK'
  BY <1>1, <1>2 DEF FlowsOK, Minting, NoFlow, FreshPage
<1>6. upset' \in BOOLEAN
  BY <1>2, Zenon
<1>7. LedgerOK'
  BY <1>2, <1>3, <1>6, BoundsAreNaturals DEF LedgerOK, FlowsOK, Minting
<1>8. ChainInv'
  BY <1>2, <1>3 DEF ChainInv, NoFlow
<1>9. AskInv' /\ OnceInv'
  BY <1>2 DEF AskInv, OnceInv, Minting, NoFlow, FreshPage
<1> QED
  BY <1>4, <1>5, <1>7, <1>8, <1>9

\* The button mints what is shown, and nothing while the page quotes, mints or is frozen.
LEMMA MintableIsShown ==
  ASSUME FlowsOK
  PROVE  /\ Mintable \in Quotes \union {None}
         /\ Mintable # None => /\ page.stored = Mintable /\ ~page.minting /\ ~page.quoting
                               /\ page.state \notin {"pending", "done"}
BY QuotesArePositive DEF Mintable, FlowsOK, Page, Frozen, None, Error

LEMMA SupersededOK ==
  ASSUME FlowsOK
  PROVE  /\ Superseded(call) \in Call /\ Superseded(approval) \in Approval
         /\ Superseded(mint) \in MintFlow
         /\ Superseded(mint).at = mint.at /\ Superseded(mint).quote = mint.quote
         /\ ~Superseded(call).current /\ ~Superseded(mint).current
BY DEF Superseded, FlowsOK, Call, Approval, MintFlow

LEMMA RenderOK == ASSUME TicketInv, Render PROVE TicketInv'
<1> USE DEF TicketInv
<1>1. /\ UNCHANGED legs /\ UNCHANGED left /\ UNCHANGED pool /\ UNCHANGED tickets /\ UNCHANGED allowance
      /\ UNCHANGED remembered /\ UNCHANGED unseen /\ UNCHANGED edits /\ UNCHANGED faults
  BY DEF Render, chain
<1>2. CASE legs # page.shown
  <2>1. /\ page' = [page EXCEPT !.shown = legs, !.button = None, !.stored = None, !.quoting = FALSE,
                        !.state = IF page.minting THEN @ ELSE "idle",
                        !.timer = TRUE, !.ticked = FALSE, !.skewRetried = FALSE]
        /\ call' = Superseded(call) /\ approval' = Superseded(approval) /\ mint' = Superseded(mint)
        /\ done' = 0 /\ upset' = FALSE /\ saved' \in {legs, saved}
    BY <1>2 DEF Render, SaveSlip
  <2>2. /\ page' \in Page /\ page'.button = None /\ page'.stored = None /\ page'.minting = page.minting
    <3> DEFINE after == IF page.minting THEN page.state ELSE "idle"
    <3>1. page \in Page /\ legs \in SUBSET Markets
      BY DEF FlowsOK, SlipOK
    <3>2. after \in {"idle", "pending", "done", "requoted", "error"}
      BY <3>1 DEF Page
    <3>3. page' = [page EXCEPT !.shown = legs, !.button = None, !.stored = None, !.quoting = FALSE,
                              !.state = after, !.timer = TRUE, !.ticked = FALSE, !.skewRetried = FALSE]
      BY <2>1
    <3> HIDE DEF after
    <3> QED
      BY <3>1, <3>2, <3>3 DEF Page
  <2>3. SlipOK'
    BY <1>1, <2>1 DEF SlipOK
  <2>4. FlowsOK'
    BY <2>1, <2>2, SupersededOK DEF FlowsOK, Minting
  <2>5. upset' \in BOOLEAN
    BY <2>1, Zenon
  <2>6. LedgerOK'
    BY <1>1, <2>1, <2>5 DEF LedgerOK
  <2>7. ChainInv'
    BY <1>1, <2>1, SupersededOK DEF ChainInv
  <2>8. AskInv' /\ OnceInv'
    BY <2>1, <2>2, SupersededOK DEF AskInv, OnceInv
  <2> QED
    BY <2>3, <2>4, <2>6, <2>7, <2>8
<1>3. CASE legs = page.shown
  <2>1. /\ page' = [page EXCEPT !.button = Mintable] /\ UNCHANGED saved
        /\ UNCHANGED call /\ UNCHANGED approval /\ UNCHANGED mint /\ UNCHANGED done /\ UNCHANGED upset
    BY <1>3 DEF Render, flows
  <2>2. /\ page' \in Page /\ page'.button = Mintable /\ page'.stored = page.stored
        /\ page'.quoting = page.quoting /\ page'.minting = page.minting /\ page'.state = page.state
        /\ page'.timer = page.timer /\ page'.skewRetried = page.skewRetried
    BY <2>1, MintableIsShown DEF FlowsOK, Page
  <2>3. SlipOK'
    BY <1>1, <2>1 DEF SlipOK
  <2>4. FlowsOK'
    BY <2>1, <2>2 DEF FlowsOK, Minting
  <2>5. LedgerOK'
    BY <1>1, <2>1 DEF LedgerOK
  <2>6. ChainInv'
    BY <1>1, <2>1 DEF ChainInv
  <2>7. AskInv'
    BY <1>1, <2>1, <2>2, MintableIsShown, QuotesArePositive DEF AskInv, Minting, None, Error
  <2>8. OnceInv'
    BY <1>1, <2>1, <2>2, MintableIsShown DEF OnceInv, Minting
  <2> QED
    BY <2>3, <2>4, <2>5, <2>6, <2>7, <2>8
<1> QED
  BY <1>2, <1>3

-----------------------------------------------------------------------------
(* Quotes *)

\* What runQuote leaves of the page p: it may ask, but not under a mint.
Asked(p) ==
  /\ page' \in Page /\ call' \in Call
  /\ page'.button = p.button /\ page'.stored = p.stored /\ page'.minting = p.minting
  /\ page'.state = p.state /\ page'.timer = p.timer /\ page'.skewRetried = p.skewRetried
  /\ call'.current => call'.at = "out" /\ page'.quoting /\ ~page'.minting
  /\ call'.current => call.current \/ Complete(p.shown)

LEMMA RunQuoteAsks ==
  ASSUME TicketInv, NEW p \in Page, p.quoting = page.quoting, RunQuote(p),
         p.minting = page.minting \/ ~call.current
  PROVE  Asked(p)
<1> USE DEF TicketInv
<1>1. CASE Asks(p)
  <2>1. page' = [p EXCEPT !.quoting = TRUE] /\ call' = Begun("out", None)
    BY <1>1 DEF RunQuote
  <2>2. ~p.minting /\ Complete(p.shown)
    BY <1>1 DEF Asks
  <2>3. call' \in Call /\ call'.at = "out"
    BY <2>1 DEF Begun, Call, None
  <2> QED
    BY <2>1, <2>2, <2>3 DEF Asked, Page
<1>2. CASE ~Asks(p)
  <2>1. page' = p /\ call' = call
    BY <1>2 DEF RunQuote
  <2> QED
    BY <2>1 DEF Asked, FlowsOK, AskInv
<1> QED
  BY <1>1, <1>2

\* A step that asks again, and leaves all but the page and the call as it was: it
\* does not ask for what was minted, and takes the quote away only when it is over.
LEMMA AskingKeeps ==
  ASSUME TicketInv, NEW p \in Page, Asked(p),
         p.button = page.button, p.minting = page.minting,
         p.stored \in {page.stored, None, Error},
         p.stored = Error => page.stored = Error \/ (page.stored > None /\ left[page.stored] = 0),
         p.stored # page.stored => page.stored > None /\ page.state \notin {"pending", "done"},
         p.timer => page.timer,
         p.state = page.state \/ (p.state = "idle" /\ page.stored = Error /\ ~p.skewRetried),
         p.skewRetried => page.skewRetried \/ p.stored = None,
         p.stored = Error => page.stored = Error \/ page.skewRetried,
         ~(done > 0 /\ ~upset /\ call'.current),
         UNCHANGED <<legs, saved, approval, mint, chain, history, edits, faults>>
  PROVE  TicketInv'
<1> USE DEF TicketInv
<1>1. /\ UNCHANGED legs /\ UNCHANGED saved /\ UNCHANGED approval /\ UNCHANGED mint /\ UNCHANGED left
      /\ UNCHANGED pool /\ UNCHANGED tickets /\ UNCHANGED allowance /\ UNCHANGED remembered
      /\ UNCHANGED unseen /\ UNCHANGED done /\ UNCHANGED upset /\ UNCHANGED edits /\ UNCHANGED faults
  BY DEF chain, history
<1>2. SlipOK' /\ LedgerOK' /\ ChainInv'
  BY <1>1 DEF SlipOK, LedgerOK, ChainInv
<1>3. FlowsOK'
  BY <1>1 DEF FlowsOK, Minting, Asked
<1>4. page.stored \in Quotes \union {None, Error} /\ page.stored \in Int
  BY QuotesArePositive DEF FlowsOK, Page, None, Error
<1>5. page.button # None /\ page.stored > None => page.stored = page.button
  BY <1>4 DEF AskInv, None, Error
<1>6. page'.button # None => /\ page'.stored \in {page'.button, None, Error}
                             /\ page'.stored = Error => left[page'.button] = 0
  BY <1>5 DEF AskInv, Asked
<1>7. AskInv'
  BY <1>1, <1>6 DEF AskInv, Asked, Minting
<1>8. ASSUME ~upset, Minting, mint.current PROVE
         /\ done = 0 /\ page'.state \in {"pending", "idle", "error"}
         /\ mint.at \in Early =>
              /\ page'.stored = Error => left[mint.quote] = 0
              /\ page'.state = "pending" \/ (page'.stored = Error /\ ~page'.skewRetried)
         /\ mint.at \notin Early =>
              /\ page'.stored # Error
              /\ page'.state = "pending" \/ (page'.skewRetried => page'.stored = None)
         /\ mint.at \in {"sent", "landed", "reverted"} => ~page'.timer
  <2>1. /\ page'.stored = p.stored /\ page'.state = p.state /\ page'.skewRetried = p.skewRetried
        /\ page'.timer = p.timer
    BY DEF Asked
  <2>2. CASE mint.at \in Early
    <3>1. page.state # "pending" => page.stored = Error /\ ~page.skewRetried
      BY <1>8, <2>2 DEF OnceInv
    <3>2. p.stored = page.stored
      BY <3>1, <1>4 DEF None, Error
    <3> QED
      BY <1>8, <2>1, <2>2, <3>1, <3>2 DEF OnceInv, None, Error
  <2>3. CASE mint.at \notin Early
    BY <1>4, <1>8, <2>1, <2>3 DEF OnceInv, None, Error
  <2> QED
    BY <2>2, <2>3
<1>9. ASSUME ~upset, done > 0
      PROVE  /\ done = 1 /\ page'.state = "done" /\ page'.button = None /\ ~page'.timer
             /\ page'.stored # Error /\ ~call'.current /\ ~Minting
  BY <1>9 DEF OnceInv, Asked
<1>10. OnceInv'
  BY <1>1, <1>8, <1>9 DEF OnceInv, Minting
<1> QED
  BY <1>2, <1>3, <1>7, <1>10

LEMMA TimerOK == ASSUME TicketInv, TimerFires PROVE TicketInv'
<1> DEFINE p == [page EXCEPT !.timer = FALSE]
<1>1. /\ p \in Page /\ p.quoting = page.quoting /\ p.minting = page.minting /\ p.button = page.button
      /\ p.stored = page.stored /\ p.state = page.state /\ p.skewRetried = page.skewRetried /\ ~p.timer
  BY DEF TicketInv, FlowsOK, Page
<1>2. RunQuote(p) /\ page.timer /\ UNCHANGED <<legs, saved, approval, mint, chain, history, edits, faults>>
  BY DEF TimerFires
<1>3. ~(done > 0 /\ ~upset /\ call'.current)
  BY <1>2 DEF TicketInv, OnceInv
<1> HIDE DEF p
<1>4. Asked(p)
  BY <1>1, <1>2, RunQuoteAsks
<1> QED
  BY <1>1, <1>2, <1>3, <1>4, AskingKeeps

LEMMA TtlTickOK == ASSUME TicketInv, TtlTick PROVE TicketInv'
<1> USE DEF TicketInv
<1>1. /\ page.stored > None /\ page.stored \in Quotes /\ page.state \notin {"pending", "done"}
      /\ UNCHANGED <<legs, saved, approval, mint, chain, history, edits, faults>>
  BY QuotesArePositive DEF TtlTick, Frozen, FlowsOK, Page, None, Error
<1>2. ~(done > 0 /\ ~upset)
  BY <1>1 DEF OnceInv
<1>3. ASSUME NEW p \in Page, page' = p, call' = call, p.minting = page.minting, p.quoting = page.quoting
      PROVE  Asked(p)
  BY <1>3 DEF Asked, AskInv, FlowsOK
<1>4. CASE left[page.stored] > 0
  <2> DEFINE p == [page EXCEPT !.ticked = TRUE]
  <2>1. /\ p \in Page /\ p.quoting = page.quoting /\ p.minting = page.minting /\ p.button = page.button
        /\ p.stored = page.stored /\ p.state = page.state /\ p.skewRetried = page.skewRetried
        /\ p.timer = page.timer
    BY DEF FlowsOK, Page
  <2>2. page' = p /\ call' = call
    BY <1>4 DEF TtlTick
  <2> HIDE DEF p
  <2>3. Asked(p)
    BY <1>3, <2>1, <2>2
  <2> QED
    BY <1>1, <1>2, <2>1, <2>3, AskingKeeps
<1>5. CASE ~(left[page.stored] > 0)
  <2>1. left[page.stored] = 0
    BY <1>1, <1>5 DEF LedgerOK
  <2>2. CASE ~page.ticked /\ page.skewRetried
    <3> DEFINE p == [page EXCEPT !.stored = Error]
    <3>1. /\ p \in Page /\ p.quoting = page.quoting /\ p.minting = page.minting /\ p.button = page.button
          /\ p.stored = Error /\ p.state = page.state /\ p.skewRetried = page.skewRetried
          /\ p.timer = page.timer
      BY DEF FlowsOK, Page
    <3>2. page' = p /\ call' = call
      BY <1>5, <2>2 DEF TtlTick
    <3> HIDE DEF p
    <3>3. Asked(p)
      BY <1>3, <3>1, <3>2
    <3> QED
      BY <1>1, <1>2, <2>1, <2>2, <3>1, <3>3, AskingKeeps
  <2>3. CASE ~(~page.ticked /\ page.skewRetried)
    <3> DEFINE p == [page EXCEPT !.stored = None, !.skewRetried = @ \/ ~page.ticked]
    <3>1. /\ p \in Page /\ p.quoting = page.quoting /\ p.minting = page.minting /\ p.button = page.button
          /\ p.stored = None /\ p.state = page.state /\ p.timer = page.timer
      BY DEF FlowsOK, Page
    <3>2. RunQuote(p)
      BY <1>5, <2>3 DEF TtlTick
    <3> HIDE DEF p
    <3>3. Asked(p)
      BY <3>1, <3>2, RunQuoteAsks
    <3> QED
      BY <1>1, <1>2, <3>1, <3>3, AskingKeeps DEF None, Error
  <2> QED
    BY <2>2, <2>3
<1> QED
  BY <1>4, <1>5

LEMMA RetryOK == ASSUME TicketInv, Retry PROVE TicketInv'
<1> USE DEF TicketInv
<1> DEFINE p == [page EXCEPT !.state = "idle", !.skewRetried = FALSE, !.ticked = FALSE]
<1>1. /\ p \in Page /\ p.quoting = page.quoting /\ p.minting = page.minting /\ p.button = page.button
      /\ p.stored = page.stored /\ p.state = "idle" /\ ~p.skewRetried /\ p.timer = page.timer
  BY DEF FlowsOK, Page
<1>2. RunQuote(p) /\ page.stored = Error
      /\ UNCHANGED <<legs, saved, approval, mint, chain, history, edits, faults>>
  BY DEF Retry
<1>3. ~(done > 0 /\ ~upset)
  BY <1>2 DEF OnceInv
<1> HIDE DEF p
<1>4. Asked(p)
  BY <1>1, <1>2, RunQuoteAsks
<1> QED
  BY <1>1, <1>2, <1>3, <1>4, AskingKeeps

\* A signed quote is a new one: of none that the page knows does the time change.
LEMMA SignedIsNew ==
  ASSUME TicketInv, NEW q \in Quotes \union {Error}, Sign(q)
  PROVE  /\ q \in Quotes /\ left' \in [Quotes -> 0 .. 2]
         /\ q # page.stored /\ q # page.button /\ q # mint.quote
         /\ \A r \in Quotes : r # q => left'[r] = left[r]
<1>1. q \in Free /\ \E n \in {0, 2} : left' = [left EXCEPT ![q] = n]
  BY DEF Sign, Fresh
<1> QED
  BY <1>1 DEF Free, TicketInv, LedgerOK

LEMMA AnswerOK == ASSUME TicketInv, Rendered, Answer PROVE TicketInv'
<1> USE DEF TicketInv
<1>1. /\ UNCHANGED legs /\ UNCHANGED saved /\ UNCHANGED approval /\ UNCHANGED mint
      /\ UNCHANGED pool /\ UNCHANGED tickets /\ UNCHANGED allowance /\ UNCHANGED remembered
      /\ UNCHANGED unseen /\ UNCHANGED done /\ UNCHANGED upset /\ UNCHANGED edits /\ UNCHANGED faults
      /\ call' = NoFlow
  BY DEF Answer, history
<1>2. call' \in Call /\ ~call'.current
  BY <1>1 DEF NoFlow, Call, None
<1>3. SlipOK' /\ ChainInv'
  BY <1>1 DEF SlipOK, ChainInv
<1>4. CASE ~Latest
  <2>1. page' = [page EXCEPT !.quoting = FALSE] /\ UNCHANGED left
    BY <1>4 DEF Answer
  <2>2. /\ page' \in Page /\ page'.button = page.button /\ page'.stored = page.stored
        /\ page'.minting = page.minting /\ page'.state = page.state /\ page'.timer = page.timer
        /\ page'.skewRetried = page.skewRetried
    BY <2>1 DEF FlowsOK, Page
  <2>3. FlowsOK'
    BY <1>1, <1>2, <2>2 DEF FlowsOK, Minting
  <2>4. LedgerOK'
    BY <1>1, <2>1 DEF LedgerOK
  <2>5. AskInv'
    BY <1>1, <1>2, <2>1, <2>2 DEF AskInv, Minting
  <2>6. OnceInv'
    BY <1>1, <1>2, <2>1, <2>2 DEF OnceInv, Minting
  <2> QED
    BY <1>3, <2>3, <2>4, <2>5, <2>6
<1>5. CASE Latest
  <2>1. call.current /\ page.quoting /\ ~page.minting /\ ~Minting
    BY <1>5 DEF Latest, AskInv, FlowsOK
  <2>2. PICK q \in Quotes \union {Error} :
          /\ Sign(q) \/ Refuses(q)
          /\ page' = [page EXCEPT !.quoting = FALSE, !.stored = q, !.ticked = FALSE,
                          !.state = IF @ = "requoted" /\ q # Error THEN @ ELSE "idle"]
    BY <1>5 DEF Answer
  <2>3. /\ page' \in Page /\ page'.button = page.button /\ page'.minting = page.minting
    BY <2>2 DEF FlowsOK, Page
  <2>4. left' \in [Quotes -> 0 .. 2]
    BY <2>2, SignedIsNew DEF Refuses, LedgerOK
  <2>5. FlowsOK'
    BY <1>1, <1>2, <2>3 DEF FlowsOK, Minting
  <2>6. LedgerOK'
    BY <1>1, <2>4 DEF LedgerOK
  <2>7. page.button = None
    BY <2>1, MintableIsShown DEF Rendered
  <2>8. ~(done > 0 /\ ~upset)
    BY <2>1 DEF OnceInv
  <2>9. AskInv'
    BY <1>1, <1>2, <2>1, <2>3, <2>7 DEF AskInv, Minting
  <2>10. OnceInv'
    BY <1>1, <2>1, <2>8 DEF OnceInv, Minting
  <2> QED
    BY <1>3, <2>5, <2>6, <2>9, <2>10
<1> QED
  BY <1>4, <1>5

-----------------------------------------------------------------------------
(* The approval *)

\* A fault leaves the count of faults in its bounds.
LEMMA FaultCounts == ASSUME TicketInv, Fault PROVE faults' \in 0 .. MaxFaults
BY BoundsAreNaturals DEF TicketInv, LedgerOK, Fault

\* A step of the approval leaves the quote and the mint alone; its failure shows, and
\* if that puts an end to the freeze, the page is upset.
LEMMA ApprovalKeeps ==
  ASSUME TicketInv, page' \in Page, approval' \in Approval, allowance' \in BOOLEAN, upset' \in BOOLEAN,
         faults' \in 0 .. MaxFaults,
         page'.button = page.button, page'.stored = page.stored, page'.quoting = page.quoting,
         page'.minting = page.minting, page'.timer = page.timer, page'.skewRetried = page.skewRetried,
         upset => upset',
         page'.state = page.state \/ (page'.state = "error" /\ (Frozen => upset')),
         UNCHANGED <<legs, saved, call, mint, left, pool, tickets, remembered, unseen, done, edits>>
  PROVE  TicketInv'
<1> USE DEF TicketInv
<1>1. /\ UNCHANGED legs /\ UNCHANGED saved /\ UNCHANGED call /\ UNCHANGED mint /\ UNCHANGED left
      /\ UNCHANGED pool /\ UNCHANGED tickets /\ UNCHANGED remembered
      /\ UNCHANGED unseen /\ UNCHANGED done /\ UNCHANGED edits
  OBVIOUS
<1>2. SlipOK' /\ ChainInv'
  BY <1>1 DEF SlipOK, ChainInv
<1>3. FlowsOK'
  BY <1>1 DEF FlowsOK, Minting
<1>4. LedgerOK'
  BY <1>1 DEF LedgerOK
<1>5. AskInv'
  BY <1>1 DEF AskInv, Minting
<1>6. OnceInv'
  BY <1>1 DEF OnceInv, Minting, Frozen
<1> QED
  BY <1>2, <1>3, <1>4, <1>5, <1>6

LEMMA EndOfApproval ==
  ASSUME TicketInv, NEW failed \in BOOLEAN, NEW approved \in BOOLEAN, ApprovalEnds(failed, approved),
         allowance' \in BOOLEAN, faults' \in 0 .. MaxFaults,
         UNCHANGED <<legs, saved, call, mint, left, pool, tickets, remembered, unseen, done, edits>>
  PROVE  TicketInv'
<1> DEFINE shows == page.ticked /\ ~(failed /\ approval.current)
           says == IF failed /\ approval.current THEN "error" ELSE page.state
<1>5. page' = [page EXCEPT !.allowance = approved, !.state = says, !.ticked = shows]
  BY DEF TicketInv, FlowsOK, Page, ApprovalEnds
<1>6. shows \in BOOLEAN
  BY Zenon
<1>7. says \in {page.state, "error"} /\ page \in Page
  BY DEF TicketInv, FlowsOK
<1> HIDE DEF shows, says
<1>8. /\ page' \in Page /\ page'.button = page.button /\ page'.stored = page.stored
      /\ page'.quoting = page.quoting /\ page'.minting = page.minting /\ page'.timer = page.timer
      /\ page'.skewRetried = page.skewRetried /\ page'.state = says
  BY <1>5, <1>6, <1>7 DEF Page
<1>1. /\ page' \in Page /\ page'.button = page.button /\ page'.stored = page.stored
      /\ page'.quoting = page.quoting /\ page'.minting = page.minting /\ page'.timer = page.timer
      /\ page'.skewRetried = page.skewRetried
      /\ page'.state = IF failed /\ approval.current THEN "error" ELSE page.state
  BY <1>8 DEF says
<1>2. approval' \in Approval
  BY DEF ApprovalEnds, NoFlow, Approval, None
<1>3. upset' = (upset \/ (failed /\ approval.current /\ Frozen))
  BY DEF ApprovalEnds
<1>4. upset' \in BOOLEAN
  BY <1>3, Zenon
<1> QED
  BY <1>1, <1>2, <1>3, <1>4, ApprovalKeeps

LEMMA ApprovalStepsOK ==
  ASSUME TicketInv, Approve \/ ApproveInWallet \/ ApprovalReceipt \/ Refetch \/ Revoke PROVE TicketInv'
<1>1. /\ page \in Page /\ approval \in Approval /\ allowance \in BOOLEAN /\ upset \in BOOLEAN
      /\ faults \in 0 .. MaxFaults
  BY DEF TicketInv, FlowsOK, LedgerOK
<1>2. CASE Approve
  <2>1. approval' \in Approval
    BY <1>2 DEF Approve, Begun, Approval, None
  <2> QED
    BY <1>1, <1>2, <2>1, ApprovalKeeps DEF Approve, chain, history
<1>3. CASE ApproveInWallet
  <2>1. UNCHANGED <<legs, saved, call, mint, left, pool, tickets, remembered, unseen, done, edits>>
    BY <1>3 DEF ApproveInWallet
  <2>2. CASE /\ approval' = [approval EXCEPT !.at = "receipt"] /\ allowance' = TRUE
             /\ UNCHANGED <<page, upset, faults>>
    <3>1. approval' \in Approval
      BY <1>1, <2>2 DEF Approval
    <3>2. allowance' \in BOOLEAN
      BY <2>2, Zenon
    <3> QED
      BY <1>1, <2>1, <2>2, <3>1, <3>2, ApprovalKeeps
  <2>3. CASE Fault /\ ApprovalEnds(TRUE, allowance) /\ UNCHANGED allowance
    <3>1. faults' \in 0 .. MaxFaults
      BY <2>3, FaultCounts
    <3> QED
      BY <1>1, <2>1, <2>3, <3>1, EndOfApproval
  <2> QED
    BY <1>3, <2>2, <2>3 DEF ApproveInWallet
<1>4. CASE ApprovalReceipt
  <2>1. /\ UNCHANGED <<legs, saved, call, mint, left, pool, tickets, remembered, unseen, done, edits>>
        /\ UNCHANGED allowance
    BY <1>4 DEF ApprovalReceipt, chain
  <2>2. CASE ApprovalEnds(FALSE, allowance) /\ UNCHANGED faults
    BY <1>1, <2>1, <2>2, EndOfApproval
  <2>3. CASE Fault /\ ApprovalEnds(TRUE, allowance)
    <3>1. faults' \in 0 .. MaxFaults
      BY <2>3, FaultCounts
    <3> QED
      BY <1>1, <2>1, <2>3, <3>1, EndOfApproval
  <2> QED
    BY <1>4, <2>2, <2>3 DEF ApprovalReceipt
<1>5. CASE Refetch
  <2>1. /\ page' \in Page /\ page'.button = page.button /\ page'.stored = page.stored
        /\ page'.quoting = page.quoting /\ page'.minting = page.minting /\ page'.timer = page.timer
        /\ page'.skewRetried = page.skewRetried /\ page'.state = page.state
    BY <1>1, <1>5 DEF Refetch, Page
  <2>2. /\ UNCHANGED <<legs, saved, call, mint, left, pool, tickets, remembered, unseen, done, edits>>
        /\ UNCHANGED allowance /\ UNCHANGED approval /\ UNCHANGED faults /\ UNCHANGED upset
    BY <1>5 DEF Refetch, flows, chain, history
  <2> QED
    BY <1>1, <2>1, <2>2, ApprovalKeeps
<1>6. CASE Revoke
  <2>1. allowance' \in BOOLEAN
    BY <1>6, Zenon DEF Revoke
  <2>2. /\ UNCHANGED <<legs, saved, call, mint, left, pool, tickets, remembered, unseen, done, edits>>
        /\ UNCHANGED page /\ UNCHANGED approval /\ UNCHANGED upset
    BY <1>6 DEF Revoke, flows, history
  <2>3. faults' \in 0 .. MaxFaults
    BY <1>6, FaultCounts DEF Revoke
  <2> QED
    BY <1>1, <2>1, <2>2, <2>3, ApprovalKeeps
<1> QED
  BY <1>2, <1>3, <1>4, <1>5, <1>6

-----------------------------------------------------------------------------
(* The mint *)

\* A click mints what is shown, whatever ran out meanwhile.
LEMMA TicketMintOK == ASSUME TicketInv, Mint PROVE TicketInv'
<1> USE DEF TicketInv
<1>1. /\ page.button # None /\ ~page.minting /\ ~Minting
      /\ page' = [page EXCEPT !.minting = TRUE, !.state = "pending"]
      /\ call' = Superseded(call) /\ mint' = Begun("funds", page.button)
      /\ UNCHANGED legs /\ UNCHANGED saved /\ UNCHANGED approval /\ UNCHANGED left
      /\ UNCHANGED pool /\ UNCHANGED tickets /\ UNCHANGED allowance /\ UNCHANGED remembered
      /\ UNCHANGED unseen /\ UNCHANGED done /\ UNCHANGED upset /\ UNCHANGED edits /\ UNCHANGED faults
  BY DEF Mint, Unasked, chain, history, FlowsOK
<1>2. /\ page' \in Page /\ page'.button = page.button /\ page'.stored = page.stored
      /\ page'.minting /\ page'.state = "pending" /\ page'.timer = page.timer
      /\ page'.skewRetried = page.skewRetried
  BY <1>1 DEF FlowsOK, Page
<1>3. /\ mint' \in MintFlow /\ mint'.at = "funds" /\ mint'.quote = page.button /\ page.button \in Quotes
  BY <1>1 DEF FlowsOK, Page, Begun, MintFlow, Stages
<1>4. SlipOK' /\ LedgerOK'
  BY <1>1 DEF SlipOK, LedgerOK
<1>5. FlowsOK'
  BY <1>1, <1>2, <1>3, SupersededOK DEF FlowsOK, Minting
<1>6. ChainInv'
  BY <1>1, <1>3 DEF ChainInv, Minting
<1>7. AskInv'
  BY <1>1, <1>2, <1>3, SupersededOK DEF AskInv, Minting
<1>8. ~upset => done = 0
  BY <1>1 DEF OnceInv, LedgerOK
<1>9. OnceInv'
  BY <1>1, <1>2, <1>3, <1>8 DEF OnceInv, AskInv, Minting, Early
<1> QED
  BY <1>4, <1>5, <1>6, <1>7, <1>9

\* A mint that ends leaves the quote as it is, and asks for another one only when the
\* slip changed or its quote ran out.
LEMMA EndOfMint ==
  ASSUME TicketInv, Minting, NEW result \in {"done", "requoted", "error"}, MintEnds(result)
  PROVE  /\ mint' = NoFlow /\ page' \in Page /\ call' \in Call
         /\ page'.button = page.button /\ page'.stored = page.stored /\ page'.minting = FALSE
         /\ page'.timer = page.timer
         /\ page'.state = IF mint.current THEN result ELSE "idle"
         /\ call'.current => call'.at = "out" /\ page'.quoting
         /\ call'.current => ~mint.current \/ result = "requoted"
<1> USE DEF TicketInv
<1> DEFINE says == IF mint.current THEN result ELSE "idle"
           p == Ended(result)
<1>1. says \in {"idle", "done", "requoted", "error"}
  OBVIOUS
<1>2. page \in Page /\ page.minting /\ ~call.current
  BY DEF FlowsOK, AskInv
<1>3. p = [page EXCEPT !.minting = FALSE, !.state = says, !.ticked = FALSE]
  BY DEF Ended
<1> HIDE DEF says, p
<1>4. /\ p \in Page /\ p.button = page.button /\ p.stored = page.stored /\ p.minting = FALSE
      /\ p.quoting = page.quoting /\ p.timer = page.timer /\ p.state = says
  BY <1>1, <1>2, <1>3 DEF Page
<1>5. mint' = NoFlow
  BY DEF MintEnds
<1>6. CASE AsksAgain(result)
  <2>1. RunQuote(p)
    BY <1>6 DEF MintEnds, p
  <2>2. Asked(p)
    BY <1>2, <1>4, <2>1, RunQuoteAsks
  <2>3. ~mint.current \/ result = "requoted"
    BY <1>6 DEF AsksAgain
  <2> QED
    BY <1>4, <1>5, <2>2, <2>3 DEF Asked, says
<1>7. CASE ~AsksAgain(result)
  <2>1. page' = p /\ call' = call
    BY <1>7 DEF MintEnds, p
  <2> QED
    BY <1>2, <1>4, <1>5, <2>1 DEF FlowsOK, says
<1> QED
  BY <1>6, <1>7

LEMMA MintEndsKeeps ==
  ASSUME TicketInv, Rendered, Minting, NEW result \in {"done", "requoted", "error"}, MintEnds(result),
         allowance' \in BOOLEAN, faults' \in 0 .. MaxFaults,
         remembered \subseteq remembered', remembered' \subseteq tickets,
         unseen \subseteq unseen', unseen' \subseteq Quotes,
         mint.at = "sent" => mint.quote \in unseen',
         mint.at = "landed" => mint.quote \in unseen' \union remembered',
         \/ done' = done
         \/ done' = done + 1 /\ mint.current /\ mint.at = "landed" /\ result = "done",
         UNCHANGED <<legs, saved, approval, left, pool, tickets, upset, edits>>
  PROVE  TicketInv'
<1>0. /\ mint' = NoFlow /\ page' \in Page /\ call' \in Call
      /\ page'.button = page.button /\ page'.stored = page.stored /\ page'.minting = FALSE
      /\ page'.timer = page.timer
      /\ page'.state = IF mint.current THEN result ELSE "idle"
      /\ call'.current => call'.at = "out" /\ page'.quoting
      /\ call'.current => ~mint.current \/ result = "requoted"
  BY EndOfMint
<1> USE DEF TicketInv
<1>1. /\ UNCHANGED legs /\ UNCHANGED saved /\ UNCHANGED approval /\ UNCHANGED left /\ UNCHANGED pool
      /\ UNCHANGED tickets /\ UNCHANGED upset /\ UNCHANGED edits
  OBVIOUS
<1>2. mint' \in MintFlow /\ mint'.at = "no" /\ ~mint'.current
  BY <1>0 DEF NoFlow, MintFlow
<1>3. SlipOK'
  BY <1>1 DEF SlipOK
<1>4. FlowsOK'
  BY <1>1, <1>2, <1>0 DEF FlowsOK, Minting
<1>5. LedgerOK'
  BY <1>1 DEF LedgerOK
<1>6. ChainInv'
  BY <1>1, <1>2 DEF ChainInv, Minting
<1>7. page.button = None
  BY MintableIsShown DEF Rendered, FlowsOK
<1>8. AskInv'
  BY <1>1, <1>2, <1>7, <1>0 DEF AskInv, Minting
<1>9. ~upset => done = 0
  BY DEF OnceInv, LedgerOK
<1>10. ASSUME ~upset, done' > 0
       PROVE  /\ done' = 1 /\ page'.state = "done" /\ page'.button = None /\ ~page'.timer
              /\ page'.stored # Error /\ ~call'.current
  <2>1. done' = 1 /\ mint.current /\ mint.at = "landed" /\ result = "done"
    BY <1>9, <1>10
  <2>2. page.stored # Error /\ ~page.timer
    BY <1>10, <2>1 DEF OnceInv, Early
  <2> QED
    BY <1>7, <2>1, <2>2, <1>0
<1>11. OnceInv'
  BY <1>1, <1>2, <1>10 DEF OnceInv, Minting
<1> QED
  BY <1>3, <1>4, <1>5, <1>6, <1>8, <1>11

\* A mint that goes on has terms that can still be minted.
LEMMA GoesKeeps ==
  ASSUME TicketInv, Minting, NEW stage \in Stages, Goes(stage), stage \notin {"landed", "reverted"},
         mint.at \notin {"sent", "landed"},
         mint.at \notin Early => stage \notin Early,
         mint.at \in Early /\ stage \notin Early => left[mint.quote] # 0,
         stage = "sent" => ~page.timer,
         pool' = pool \/ (stage = "sent" /\ pool[mint.quote] < 2
                            /\ pool' = [pool EXCEPT ![mint.quote] = @ + 1]),
         allowance' \in BOOLEAN,
         UNCHANGED <<legs, saved, approval, left, tickets, history, edits, faults>>
  PROVE  TicketInv'
<1> USE DEF TicketInv
<1>1. /\ UNCHANGED legs /\ UNCHANGED saved /\ UNCHANGED approval /\ UNCHANGED left
      /\ UNCHANGED tickets /\ UNCHANGED upset /\ UNCHANGED edits /\ UNCHANGED faults
      /\ UNCHANGED remembered /\ UNCHANGED unseen /\ UNCHANGED done
      /\ UNCHANGED page /\ UNCHANGED call
  BY DEF history, Goes
<1>2. /\ mint' \in MintFlow /\ mint'.at = stage /\ mint'.current = mint.current
      /\ mint'.quote = mint.quote /\ stage # "no"
  BY DEF FlowsOK, MintFlow, Goes, Stages
<1>3. SlipOK'
  BY <1>1 DEF SlipOK
<1>4. FlowsOK'
  BY <1>1, <1>2 DEF FlowsOK, Minting
<1>5. pool' \in [Quotes -> 0 .. 2]
  BY DEF LedgerOK
<1>6. LedgerOK'
  BY <1>1, <1>5 DEF LedgerOK
<1>7. ASSUME NEW q \in Quotes, pool'[q] > 0
      PROVE  q \in unseen \/ (stage = "sent" /\ mint.quote = q /\ pool'[q] = 1)
  BY <1>7 DEF ChainInv, LedgerOK
<1>8. ChainInv'
  BY <1>1, <1>2, <1>7 DEF ChainInv
<1>9. AskInv'
  BY <1>1, <1>2 DEF AskInv, Minting
<1>10. OnceInv'
  BY <1>1, <1>2 DEF OnceInv, Minting, Early
<1> QED
  BY <1>3, <1>4, <1>6, <1>8, <1>9, <1>10

LEMMA ReadFundsOK == ASSUME TicketInv, Rendered, ReadFunds PROVE TicketInv'
<1>1. /\ mint.at = "funds" /\ Minting
      /\ UNCHANGED <<legs, saved, approval, left, pool, tickets, upset, edits>>
      /\ UNCHANGED <<legs, saved, approval, left, tickets, history, edits>>
      /\ UNCHANGED pool /\ UNCHANGED remembered /\ UNCHANGED unseen /\ UNCHANGED done /\ UNCHANGED allowance
  BY DEF ReadFunds, Minting, chain, history
<1>2. /\ allowance \in BOOLEAN /\ remembered \subseteq tickets /\ unseen \subseteq Quotes
      /\ faults \in 0 .. MaxFaults /\ left \in [Quotes -> 0 .. 2] /\ mint.quote \in Quotes
  BY <1>1 DEF TicketInv, LedgerOK, FlowsOK
<1>3. CASE MintEnds("error") /\ UNCHANGED faults
  BY <1>1, <1>2, <1>3, MintEndsKeeps
<1>4. CASE MintEnds("error") /\ Fault
  <2>1. faults' \in 0 .. MaxFaults
    BY <1>4, FaultCounts
  <2> QED
    BY <1>1, <1>2, <1>4, <2>1, MintEndsKeeps
<1>5. CASE /\ Goes(IF ~allowance THEN "approve" ELSE IF Late(mint.quote) THEN "requote" ELSE "simulate")
           /\ UNCHANGED faults
  <2>1. PICK stage \in {"approve", "requote", "simulate"} :
          Goes(stage) /\ (stage = "simulate" => ~Late(mint.quote))
    BY <1>5
  <2>2. stage \in Stages /\ (mint.at \in Early /\ stage \notin Early => left[mint.quote] # 0)
    BY <1>2, <2>1 DEF Stages, Early, Late
  <2>3. stage \notin {"landed", "reverted", "sent"} /\ mint.at \in Early
    BY <1>1, <2>1 DEF Early
  <2> QED
    BY <1>1, <1>2, <1>5, <2>1, <2>2, <2>3, GoesKeeps
<1> QED
  BY <1>3, <1>4, <1>5 DEF ReadFunds

LEMMA ApproveExactlyOK == ASSUME TicketInv, Rendered, ApproveExactly PROVE TicketInv'
<1>1. /\ mint.at = "approve" /\ Minting
      /\ UNCHANGED <<legs, saved, approval, left, pool, tickets, upset, edits>>
      /\ UNCHANGED <<legs, saved, approval, left, tickets, history, edits>>
      /\ UNCHANGED pool /\ UNCHANGED remembered /\ UNCHANGED unseen /\ UNCHANGED done
  BY DEF ApproveExactly, Minting, chain, history
<1>2. /\ allowance \in BOOLEAN /\ remembered \subseteq tickets /\ unseen \subseteq Quotes
      /\ faults \in 0 .. MaxFaults
  BY <1>1 DEF TicketInv, LedgerOK, FlowsOK
<1>3. CASE allowance' = TRUE /\ UNCHANGED faults /\ (IF mint.current THEN Goes("requote") ELSE MintEnds("error"))
  <2>1. allowance' \in BOOLEAN
    BY <1>3, Zenon
  <2>2. CASE mint.current
    <3>1. Goes("requote")
      BY <1>3, <2>2
    <3>2. "requote" \in Stages /\ "requote" \notin {"landed", "reverted", "sent"} /\ mint.at \in Early
          /\ "requote" \in Early
      BY <1>1 DEF Stages, Early
    <3> QED
      BY <1>1, <1>3, <2>1, <3>1, <3>2, GoesKeeps
  <2>3. CASE ~mint.current
    <3>1. MintEnds("error") /\ faults' \in 0 .. MaxFaults
      BY <1>2, <1>3, <2>3
    <3> QED
      BY <1>1, <1>2, <2>1, <3>1, MintEndsKeeps
  <2> QED
    BY <2>2, <2>3
<1>4. CASE Fault /\ MintEnds("error") /\ UNCHANGED allowance
  <2>1. faults' \in 0 .. MaxFaults
    BY <1>4, FaultCounts
  <2> QED
    BY <1>1, <1>2, <1>4, <2>1, MintEndsKeeps
<1> QED
  BY <1>3, <1>4 DEF ApproveExactly

\* The refreshed quote is shown before it is minted.
LEMMA RequoteOK == ASSUME TicketInv, Rendered, Requote PROVE TicketInv'
<1> USE DEF TicketInv
<1>1. /\ mint.at = "requote" /\ Minting
      /\ UNCHANGED legs /\ UNCHANGED saved /\ UNCHANGED approval /\ UNCHANGED pool
      /\ UNCHANGED tickets /\ UNCHANGED allowance /\ UNCHANGED upset /\ UNCHANGED edits
      /\ UNCHANGED faults /\ UNCHANGED remembered /\ UNCHANGED unseen /\ UNCHANGED done
  BY DEF Requote, Minting, history
<1>2. /\ allowance \in BOOLEAN /\ remembered \subseteq tickets /\ unseen \subseteq Quotes
      /\ faults \in 0 .. MaxFaults /\ page \in Page /\ mint \in MintFlow
  BY DEF LedgerOK, FlowsOK
<1>3. SlipOK'
  BY <1>1 DEF SlipOK
<1>4. CASE ~mint.current
  <2>1. MintEnds("error") /\ UNCHANGED left
    BY <1>4 DEF Requote
  <2> QED
    BY <1>1, <1>2, <2>1, MintEndsKeeps
<1>5. page.button = None
  BY <1>1, MintableIsShown DEF Rendered, FlowsOK
<1>6. ASSUME mint.current, NEW q \in Quotes, Sign(q), page' = Shown(q),
             mint' = [mint EXCEPT !.at = "simulate", !.quote = q], UNCHANGED call
      PROVE  TicketInv'
  <2>1. page' = [page EXCEPT !.stored = q] /\ q # Error
    BY <1>6, QuotesArePositive DEF Shown
  <2>2. /\ page' \in Page /\ page'.button = None /\ page'.stored = q /\ page'.quoting = page.quoting
        /\ page'.minting = page.minting /\ page'.state = page.state /\ page'.timer = page.timer
        /\ page'.skewRetried = page.skewRetried
    BY <1>2, <1>5, <2>1 DEF Page
  <2>3. /\ mint' \in MintFlow /\ mint'.at = "simulate" /\ mint'.quote = q /\ mint'.current = mint.current
    BY <1>2, <1>6 DEF MintFlow, Stages
  <2>4. left' \in [Quotes -> 0 .. 2]
    BY <1>6, SignedIsNew
  <2>5. FlowsOK'
    BY <1>1, <1>6, <2>2, <2>3 DEF FlowsOK, Minting
  <2>6. LedgerOK'
    BY <1>1, <2>4 DEF LedgerOK
  <2>7. ChainInv'
    BY <1>1, <2>3 DEF ChainInv
  <2>8. AskInv'
    BY <1>6, <2>2, <2>3 DEF AskInv, Minting
  <2>9. OnceInv'
    BY <1>1, <1>6, <2>1, <2>2, <2>3 DEF OnceInv, Minting, Early
  <2> QED
    BY <1>3, <2>5, <2>6, <2>7, <2>8, <2>9
<1>7. ASSUME mint.current, mint' = NoFlow, UNCHANGED left, UNCHANGED call,
             page' = [page EXCEPT !.stored = Error, !.minting = FALSE, !.state = "idle", !.ticked = FALSE]
      PROVE  TicketInv'
  <2>1. page' \in Page /\ page'.button = None /\ page'.minting = FALSE
    BY <1>2, <1>5, <1>7 DEF Page
  <2>2. mint' \in MintFlow /\ mint'.at = "no"
    BY <1>7 DEF NoFlow, MintFlow
  <2>3. FlowsOK'
    BY <1>1, <1>7, <2>1, <2>2 DEF FlowsOK, Minting
  <2>4. LedgerOK' /\ ChainInv'
    BY <1>1, <1>7, <2>2 DEF LedgerOK, ChainInv
  <2>5. AskInv'
    BY <1>1, <1>7, <2>1, <2>2 DEF AskInv, Minting, FlowsOK
  <2>6. OnceInv'
    BY <1>1, <1>7, <2>2 DEF OnceInv, Minting
  <2> QED
    BY <1>3, <2>3, <2>4, <2>5, <2>6
<1> QED
  BY <1>4, <1>6, <1>7 DEF Requote

LEMMA SimulateOK == ASSUME TicketInv, Rendered, Simulate PROVE TicketInv'
<1>1. /\ mint.at = "simulate" /\ Minting
      /\ UNCHANGED <<legs, saved, approval, left, pool, tickets, upset, edits>>
      /\ UNCHANGED <<legs, saved, approval, left, tickets, history, edits>>
      /\ UNCHANGED pool /\ UNCHANGED remembered /\ UNCHANGED unseen /\ UNCHANGED done /\ UNCHANGED allowance
  BY DEF Simulate, Minting, chain, history
<1>2. /\ allowance \in BOOLEAN /\ remembered \subseteq tickets /\ unseen \subseteq Quotes
      /\ faults \in 0 .. MaxFaults
  BY <1>1 DEF TicketInv, LedgerOK, FlowsOK
<1>3. ASSUME NEW result \in {"requoted", "error"}, MintEnds(result), faults' \in 0 .. MaxFaults
      PROVE  TicketInv'
  BY <1>1, <1>2, <1>3, MintEndsKeeps
<1>4. CASE Fault /\ (MintEnds("requoted") \/ MintEnds("error"))
  BY <1>3, <1>4, FaultCounts
<1>5. CASE Goes("wallet") /\ UNCHANGED faults
  <2>1. "wallet" \in Stages /\ "wallet" \notin {"landed", "reverted", "sent"} /\ mint.at \notin Early
        /\ "wallet" \notin Early
    BY <1>1 DEF Stages, Early
  <2> QED
    BY <1>1, <1>2, <1>5, <2>1, GoesKeeps
<1>6. CASE UNCHANGED faults /\ (MintEnds("requoted") \/ MintEnds("error"))
  BY <1>2, <1>3, <1>6
<1> QED
  BY <1>4, <1>5, <1>6 DEF Simulate

LEMMA MintInWalletOK == ASSUME TicketInv, Rendered, MintInWallet PROVE TicketInv'
<1>1. /\ mint.at = "wallet" /\ Minting /\ ~page.timer
      /\ UNCHANGED <<legs, saved, approval, left, tickets, history, edits>>
      /\ UNCHANGED <<legs, saved, approval, left, tickets, upset, edits>>
      /\ UNCHANGED remembered /\ UNCHANGED unseen /\ UNCHANGED done /\ UNCHANGED allowance
  BY DEF MintInWallet, Minting, history
<1>2. /\ allowance \in BOOLEAN /\ remembered \subseteq tickets /\ unseen \subseteq Quotes
  BY <1>1 DEF TicketInv, LedgerOK
<1>3. CASE /\ pool[mint.quote] < 2 /\ pool' = [pool EXCEPT ![mint.quote] = @ + 1]
           /\ Goes("sent") /\ UNCHANGED faults
  <2>1. "sent" \in Stages /\ "sent" \notin {"landed", "reverted"} /\ mint.at \notin Early
        /\ "sent" \notin Early /\ mint.at \notin {"sent", "landed"}
    BY <1>1 DEF Stages, Early
  <2> QED
    BY <1>1, <1>2, <1>3, <2>1, GoesKeeps
<1>4. CASE Fault /\ MintEnds("error") /\ UNCHANGED pool
  <2>1. faults' \in 0 .. MaxFaults
    BY <1>4, FaultCounts
  <2> QED
    BY <1>1, <1>2, <1>4, <2>1, MintEndsKeeps
<1> QED
  BY <1>3, <1>4 DEF MintInWallet

LEMMA MintIsOverOK ==
  ASSUME TicketInv, Rendered, Landed \/ Reverted \/ ReceiptLost PROVE TicketInv'
<1>1. /\ allowance \in BOOLEAN /\ remembered \subseteq tickets /\ unseen \subseteq Quotes
      /\ faults \in 0 .. MaxFaults /\ (Minting => mint.quote \in Quotes)
      /\ (mint.at = "landed" => mint.quote \in tickets)
  BY DEF TicketInv, LedgerOK, FlowsOK, ChainInv
<1>2. CASE Landed
  <2>1. /\ mint.at = "landed" /\ Minting /\ MintEnds("done")
        /\ remembered' = remembered \union {mint.quote}
        /\ done' = IF mint.current THEN done + 1 ELSE done
        /\ UNCHANGED <<legs, saved, approval, left, pool, tickets, upset, edits>>
        /\ UNCHANGED allowance /\ UNCHANGED unseen /\ UNCHANGED faults
    BY <1>2 DEF Landed, Confirmed, Minting, chain
  <2> QED
    BY <1>1, <2>1, MintEndsKeeps
<1>3. CASE Reverted
  <2>1. /\ mint.at = "reverted" /\ Minting /\ MintEnds("requoted")
        /\ UNCHANGED <<legs, saved, approval, left, pool, tickets, upset, edits>>
        /\ UNCHANGED allowance /\ UNCHANGED unseen /\ UNCHANGED faults /\ UNCHANGED remembered
        /\ UNCHANGED done
    BY <1>3 DEF Reverted, Minting, chain, history
  <2> QED
    BY <1>1, <2>1, MintEndsKeeps
<1>4. CASE ReceiptLost
  <2>1. /\ mint.at \in {"sent", "landed"} /\ Minting /\ MintEnds("error") /\ Fault
        /\ unseen' = unseen \union {mint.quote}
        /\ UNCHANGED <<legs, saved, approval, left, pool, tickets, upset, edits>>
        /\ UNCHANGED allowance /\ UNCHANGED remembered /\ UNCHANGED done
    BY <1>4 DEF ReceiptLost, Minting, chain
  <2>2. faults' \in 0 .. MaxFaults
    BY <2>1, FaultCounts
  <2> QED
    BY <1>1, <2>1, <2>2, MintEndsKeeps
<1> QED
  BY <1>2, <1>3, <1>4

-----------------------------------------------------------------------------
(* The chain *)

\* What mines is the mint's, or is of one whose receipt the page does not see.
LEMMA TicketMineOK == ASSUME TicketInv, NEW q \in Quotes, Mine(q) PROVE TicketInv'
<1> USE DEF TicketInv
<1>1. /\ UNCHANGED legs /\ UNCHANGED saved /\ UNCHANGED page /\ UNCHANGED call /\ UNCHANGED approval
      /\ UNCHANGED left /\ UNCHANGED remembered /\ UNCHANGED unseen /\ UNCHANGED done
      /\ UNCHANGED upset /\ UNCHANGED edits /\ UNCHANGED faults
      /\ pool[q] > 0 /\ pool' = [pool EXCEPT ![q] = @ - 1]
  BY DEF Mine, history
<1>2. pool \in [Quotes -> 0 .. 2] /\ pool' \in [Quotes -> 0 .. 2]
  BY <1>1 DEF LedgerOK
<1>3. /\ tickets \subseteq tickets' /\ tickets' \subseteq Quotes
      /\ tickets' \ tickets # {} => tickets' = tickets \union {q} /\ Executable(q)
      /\ allowance' \in BOOLEAN
  BY DEF Mine, LedgerOK
<1>4. SlipOK'
  BY <1>1 DEF SlipOK
<1>5. LedgerOK'
  BY <1>1, <1>2, <1>3 DEF LedgerOK
<1>6. mint \in MintFlow
  BY DEF FlowsOK
<1>7. CASE mint.at = "sent" /\ mint.quote = q /\ pool[q] = 1
  <2>1. mint' = [mint EXCEPT !.at = IF Executable(q) THEN "landed" ELSE "reverted"]
    BY <1>7 DEF Mine
  <2>2. /\ mint' \in MintFlow /\ mint'.at \in {"landed", "reverted"}
        /\ mint'.at = "landed" <=> Executable(q)
        /\ mint'.current = mint.current /\ mint'.quote = q
    BY <1>6, <1>7, <2>1 DEF MintFlow, Stages
  <2>3. FlowsOK'
    BY <1>1, <1>7, <2>2 DEF FlowsOK, Minting
  <2>4. Executable(q) => q \in tickets'
    BY DEF Mine
  <2>5. pool'[q] = 0 /\ \A r \in Quotes : r # q => pool'[r] = pool[r]
    BY <1>1, <1>2, <1>7
  <2>6. ChainInv'
    BY <1>1, <1>3, <1>7, <2>2, <2>4, <2>5 DEF ChainInv
  <2>7. AskInv'
    BY <1>1, <1>7, <2>2 DEF AskInv, Minting
  <2>8. OnceInv'
    BY <1>1, <1>7, <2>2 DEF OnceInv, Minting, Early
  <2> QED
    BY <1>4, <1>5, <2>3, <2>6, <2>7, <2>8
<1>8. CASE ~(mint.at = "sent" /\ mint.quote = q /\ pool[q] = 1)
  <2>1. UNCHANGED mint
    BY <1>8 DEF Mine
  <2>2. q \in unseen
    BY <1>1, <1>8 DEF ChainInv
  <2>3. FlowsOK'
    BY <1>1, <2>1 DEF FlowsOK, Minting
  <2>4. \A r \in Quotes : r # q => pool'[r] = pool[r]
    BY <1>1, <1>2
  <2>5. ChainInv'
    BY <1>1, <1>3, <2>1, <2>2, <2>4 DEF ChainInv
  <2>6. AskInv' /\ OnceInv'
    BY <1>1, <2>1 DEF AskInv, OnceInv, Minting
  <2> QED
    BY <1>4, <1>5, <2>3, <2>5, <2>6
<1> QED
  BY <1>7, <1>8

\* A quote that is over stays so.
LEMMA PassOK == ASSUME TicketInv, Pass PROVE TicketInv'
<1> USE DEF TicketInv
<1>1. /\ UNCHANGED legs /\ UNCHANGED saved /\ UNCHANGED page /\ UNCHANGED call /\ UNCHANGED approval
      /\ UNCHANGED mint /\ UNCHANGED pool /\ UNCHANGED tickets /\ UNCHANGED allowance
      /\ UNCHANGED remembered /\ UNCHANGED unseen /\ UNCHANGED done /\ UNCHANGED upset
      /\ UNCHANGED edits /\ UNCHANGED faults
  BY DEF Pass, flows, history
<1>2. left' \in [Quotes -> 0 .. 2] /\ \A q \in Quotes : left[q] = 0 => left'[q] = 0
  BY DEF Pass, LedgerOK
<1>3. SlipOK' /\ FlowsOK' /\ ChainInv'
  BY <1>1 DEF SlipOK, FlowsOK, ChainInv, Minting
<1>4. LedgerOK'
  BY <1>1, <1>2 DEF LedgerOK
<1>5. page.button \in Quotes \union {None} /\ (Minting => mint.quote \in Quotes)
  BY DEF FlowsOK, Page
<1>6. AskInv'
  BY <1>1, <1>2, <1>5 DEF AskInv, Minting
<1>7. OnceInv'
  BY <1>1, <1>2, <1>5 DEF OnceInv, Minting
<1> QED
  BY <1>3, <1>4, <1>6, <1>7

-----------------------------------------------------------------------------

\* Every step keeps the invariant.
LEMMA TicketInvNext == ASSUME TicketInv, [TicketNext]_ticketVars PROVE TicketInv'
<1>1. ASSUME NEW m \in Markets, AddLeg(m) PROVE TicketInv'
  <2>1. Picked(m) \in SUBSET Markets
    BY DEF TicketInv, SlipOK, Picked
  <2>2. Edit(Picked(m)) /\ page' = [page EXCEPT !.restored = page.restored] /\ page.restored \in BOOLEAN
    BY <1>1 DEF AddLeg, TicketInv, FlowsOK, Page
  <2> QED
    BY <2>1, <2>2, EditOK
<1>2. CASE ClearLegs
  <2>1. Edit({}) /\ page' = [page EXCEPT !.restored = page.restored] /\ page.restored \in BOOLEAN
    BY <1>2 DEF ClearLegs, TicketInv, FlowsOK, Page
  <2> QED
    BY <2>1, EditOK
<1>3. ASSUME NEW board \in SUBSET Markets, OnBoard(board) PROVE TicketInv'
  <2>1. PICK slip : Edit(slip) /\ slip \subseteq legs \union (saved \intersect board) \union (Link \intersect board)
    BY <1>3 DEF OnBoard, Restored
  <2>2. slip \in SUBSET Markets
    BY <2>1 DEF TicketInv, SlipOK
  <2>3. page' = [page EXCEPT !.restored = TRUE] /\ TRUE \in BOOLEAN
    BY <1>3 DEF OnBoard
  <2> QED
    BY <2>1, <2>2, <2>3, EditOK
<1>4. CASE Retry \/ Approve \/ Mint \/ Reload
  BY <1>4, RetryOK, ApprovalStepsOK, TicketMintOK, ReloadOK
<1>5. CASE Render
  BY <1>5, RenderOK
<1>6. CASE TimerFires \/ TtlTick \/ ApproveInWallet \/ ApprovalReceipt \/ Refetch \/ Revoke
  BY <1>6, TimerOK, TtlTickOK, ApprovalStepsOK
<1>7. CASE Rendered /\ (Answer \/ MintStep)
  BY <1>7, AnswerOK, ReadFundsOK, ApproveExactlyOK, RequoteOK, SimulateOK, MintInWalletOK,
     MintIsOverOK DEF MintStep
<1>8. CASE Pass \/ \E q \in Quotes : Mine(q)
  BY <1>8, PassOK, TicketMineOK
<1>9. CASE UNCHANGED ticketVars
  <2>1. /\ UNCHANGED legs /\ UNCHANGED saved /\ UNCHANGED page /\ UNCHANGED call /\ UNCHANGED approval
        /\ UNCHANGED mint /\ UNCHANGED left /\ UNCHANGED pool /\ UNCHANGED tickets /\ UNCHANGED allowance
        /\ UNCHANGED remembered /\ UNCHANGED unseen /\ UNCHANGED done /\ UNCHANGED upset
        /\ UNCHANGED edits /\ UNCHANGED faults
    BY <1>9 DEF ticketVars, flows, chain, history
  <2> QED
    BY <2>1 DEF TicketInv, SlipOK, FlowsOK, LedgerOK, ChainInv, AskInv, OnceInv, Minting
<1> QED
  BY <1>1, <1>2, <1>3, <1>4, <1>5, <1>6, <1>7, <1>8, <1>9 DEF TicketNext, Clicks, Events, World

LEMMA TicketInvHolds == TicketSpec => []TicketInv
<1>1. TicketInit => TicketInv
  BY TicketInitOK
<1>2. TicketInv /\ [TicketNext]_ticketVars => TicketInv'
  BY TicketInvNext
<1> QED
  BY <1>1, <1>2, PTL DEF TicketSpec

\* What the wallet is asked to sign is what the slip shows, if it shows any terms
\* (mintQuoted, mintTicket's onQuote): no answer, timer or countdown comes between.
THEOREM WhatIsShownIsMinted == TicketSpec => []ShownIsMinted
<1>1. TicketInv => ShownIsMinted
  BY DEF TicketInv, AskInv, Minting, ShownIsMinted
<1> QED
  BY <1>1, TicketInvHolds, PTL

\* A slip is minted once (computeCta's "done", the freeze of useQuoteTtl), but for an
\* approval that fails late.
THEOREM SlipsAreMintedOnce == TicketSpec => []MintedOnce
<1>1. TicketInv => MintedOnce
  BY DEF TicketInv, LedgerOK, OnceInv, MintedOnce
<1> QED
  BY <1>1, TicketInvHolds, PTL

\* The page's types, and: a mint that was confirmed was put in the browser's list
\* (rememberPosition), whatever became of the slip.
THEOREM MintsAreRemembered == TicketSpec => []MintsRemembered
<1>1. TicketInv => MintsRemembered
  <2>1. SUFFICES ASSUME TicketInv PROVE MintsRemembered
    OBVIOUS
  <2>2. TicketTypeOK
    BY <2>1 DEF TicketInv, SlipOK, FlowsOK, LedgerOK, TicketTypeOK, Page, Call, Approval, MintFlow, Stages, Minting
  <2> QED
    BY <2>1, <2>2 DEF TicketInv, ChainInv, MintsRemembered
<1> QED
  BY <1>1, TicketInvHolds, PTL
=============================================================================
