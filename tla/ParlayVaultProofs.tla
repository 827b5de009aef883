------------------------- MODULE ParlayVaultProofs -------------------------
(***************************************************************************)
(* Theorems about ParlayVault for any accounts, legs, quotes and bounds.   *)
(***************************************************************************)
EXTENDS ParlayVault, SequenceTheorems, WellFoundedInduction, TLAPS

(***************************************************************************)
(* Dividing an interval into consecutive shares: appending a share at the  *)
(* end, giving a share back, and shifting the whole interval.              *)
(***************************************************************************)

\* A share added at the end stretches the interval by its size (mint).
LEMMA DividesAppend ==
  ASSUME NEW lo \in Nat, NEW hi \in Nat, NEW n \in Nat, NEW m \in Nat,
         NEW o, NEW o2 \in [1 .. n + 1 -> Nat],
         DividesInto(lo, hi, n, o),
         \A i \in 1 .. n : o2[i] = o[i],
         o2[n + 1] = m
  PROVE  DividesInto(lo, hi + m, n + 1, o2)
<1>1. PICK cut \in [0 .. n -> 0 .. hi] :
        /\ cut[0] = lo
        /\ cut[n] = hi
        /\ \A i, j \in 0 .. n : i <= j => cut[i] <= cut[j]
        /\ \A i \in 1 .. n : cut[i] = cut[i - 1] + o[i]
  BY DEF DividesInto
<1> DEFINE cut2 == [i \in 0 .. n + 1 |-> IF i <= n THEN cut[i] ELSE hi + m]
<1>2. cut2 \in [0 .. n + 1 -> 0 .. hi + m]
  BY <1>1
<1>3. /\ cut2[0] = lo
      /\ cut2[n + 1] = hi + m
  BY <1>1
<1>4. \A i, j \in 0 .. n + 1 : i <= j => cut2[i] <= cut2[j]
  BY <1>1
<1>5. \A i \in 1 .. n + 1 : cut2[i] = cut2[i - 1] + o2[i]
  BY <1>1
<1> QED
  BY <1>2, <1>3, <1>4, <1>5 DEF DividesInto

\* A share given back shrinks the interval by its size and leaves every other
\* share alone; the interval is at least as large as any share of it.
LEMMA DividesRelease ==
  ASSUME NEW lo \in Nat, NEW hi \in Nat, NEW n \in Nat, NEW m \in Nat,
         NEW o, NEW o2, NEW id \in 1 .. n,
         DividesInto(lo, hi, n, o),
         o[id] = m,
         \A i \in 1 .. n : o[i] \in Nat,
         \A i \in 1 .. n : o2[i] = IF i = id THEN 0 ELSE o[i]
  PROVE  /\ m <= hi
         /\ DividesInto(lo, hi - m, n, o2)
<1>1. PICK cut \in [0 .. n -> 0 .. hi] :
        /\ cut[0] = lo
        /\ cut[n] = hi
        /\ \A i, j \in 0 .. n : i <= j => cut[i] <= cut[j]
        /\ \A i \in 1 .. n : cut[i] = cut[i - 1] + o[i]
  BY DEF DividesInto
<1> DEFINE cut2 == [i \in 0 .. n |-> IF i < id THEN cut[i] ELSE cut[i] - m]
<1>2. /\ cut[id] = cut[id - 1] + m
      /\ \A i \in 0 .. n : cut[i] \in 0 .. hi
  BY <1>1
<1>3. /\ \A i \in 0 .. n : i < id => cut[i] <= cut[id] - m
      /\ \A i \in 0 .. n : i >= id => cut[id] <= cut[i]
      /\ \A i \in 0 .. n : i >= id => m <= cut[i]
      /\ \A i \in 0 .. n : cut[i] <= hi
  BY <1>1, <1>2
<1>4. m <= hi
  BY <1>2, <1>3
<1>5. \A i \in 0 .. n : /\ i < id => cut2[i] = cut[i]
                        /\ i >= id => cut2[i] = cut[i] - m
  OBVIOUS
<1>6. cut2 \in [0 .. n -> 0 .. hi - m]
  <2>1. \A i \in 0 .. n : cut2[i] \in 0 .. hi - m
    BY SMTT(60), <1>2, <1>3, <1>5
  <2> QED
    BY <2>1
<1> HIDE DEF cut2
<1>7. /\ cut2[0] = lo
      /\ cut2[n] = hi - m
  BY SMTT(40), <1>1, <1>5
<1>8. \A i, j \in 0 .. n : i <= j => cut2[i] <= cut2[j]
  <2> SUFFICES ASSUME NEW i \in 0 .. n, NEW j \in 0 .. n, i <= j
               PROVE  cut2[i] <= cut2[j]
    OBVIOUS
  <2>1. cut[i] \in Int /\ cut[j] \in Int /\ cut[i] <= cut[j]
    BY <1>1, <1>2
  <2>2. CASE j < id \/ id <= i
    BY SMTT(40), <2>1, <2>2, <1>5
  <2>3. CASE i < id /\ id <= j
    <3>1. cut[i] <= cut[id] - m /\ cut[id] <= cut[j] /\ cut[id] \in Int
      BY <2>3, <1>2, <1>3, SMTT(30)
    <3>2. cut2[i] = cut[i] /\ cut2[j] = cut[j] - m
      BY <2>3, <1>5
    <3> QED
      BY <3>1, <3>2, <2>1
  <2> QED
    BY <2>2, <2>3
<1>9. \A i \in 1 .. n : cut2[i] = cut2[i - 1] + o2[i]
  <2> SUFFICES ASSUME NEW i \in 1 .. n
               PROVE  cut2[i] = cut2[i - 1] + o2[i]
    OBVIOUS
  <2>1. /\ cut[i] = cut[i - 1] + o[i]
        /\ i - 1 \in 0 .. n
        /\ cut[i] \in Int
        /\ cut[i - 1] \in Int
        /\ o[i] \in Int
    BY <1>1, <1>2
  <2>2. CASE i = id
    BY SMTT(60), <2>1, <2>2, <1>5
  <2>3. CASE i < id
    BY SMTT(40), <2>1, <2>3, <1>5
  <2>4. CASE i > id
    <3>1. cut2[i] = cut[i] - m /\ cut2[i - 1] = cut[i - 1] - m
      BY <2>1, <2>4, <1>5
    <3>2. o2[i] = o[i]
      BY <2>4
    <3> QED
      BY <3>1, <3>2, <2>1
  <2> QED
    BY <2>2, <2>3, <2>4
<1> QED
  BY <1>4, <1>6, <1>7, <1>8, <1>9 DEF DividesInto

\* The whole interval moves up when USDC arrives that no ticket is owed.
LEMMA DividesShift ==
  ASSUME NEW lo \in Nat, NEW hi \in Nat, NEW n \in Nat, NEW o \in [1 .. n -> Nat],
         DividesInto(lo, hi, n, o)
  PROVE  DividesInto(lo + 1, hi + 1, n, o)
<1>1. PICK cut \in [0 .. n -> 0 .. hi] :
        /\ cut[0] = lo
        /\ cut[n] = hi
        /\ \A i, j \in 0 .. n : i <= j => cut[i] <= cut[j]
        /\ \A i \in 1 .. n : cut[i] = cut[i - 1] + o[i]
  BY DEF DividesInto
<1> DEFINE cut2 == [i \in 0 .. n |-> cut[i] + 1]
<1>2. /\ cut2 \in [0 .. n -> 0 .. hi + 1]
      /\ cut2[0] = lo + 1
      /\ cut2[n] = hi + 1
  BY <1>1
<1>3. \A i, j \in 0 .. n : i <= j => cut2[i] <= cut2[j]
  BY <1>1
<1>4. \A i \in 1 .. n : cut2[i] = cut2[i - 1] + o[i]
  BY <1>1
<1> QED
  BY <1>2, <1>3, <1>4 DEF DividesInto

-----------------------------------------------------------------------------
(***************************************************************************)
(* What the shared pieces of the actions do.                               *)
(***************************************************************************)

\* Changing one ticket's status touches nothing else of any ticket.
LEMMA SetStatusEffect ==
  ASSUME TypeOK, NEW id \in Ids, NEW s \in Statuses, SetStatus(id, s)
  PROVE  /\ parlays' \in Seq(Parlay)
         /\ Len(parlays') = Len(parlays)
         /\ \A j \in Ids : parlays'[j] = IF j = id THEN [parlays[j] EXCEPT !.status = s]
                                                  ELSE parlays[j]
<1>1. /\ parlays \in Seq(Parlay)
      /\ id \in 1 .. Len(parlays)
      /\ parlays[id] \in Parlay
  BY DEF TypeOK, Ids
<1>2. [parlays[id] EXCEPT !.status = s] \in Parlay
  BY <1>1 DEF Parlay
<1>3. parlays' = [parlays EXCEPT ![id] = [parlays[id] EXCEPT !.status = s]]
  BY DEF SetStatus
<1> QED
  BY <1>1, <1>2, <1>3, ExceptSeq DEF Ids

\* A burn logs the last holder and leaves every other ticket's owner alone.
LEMMA BurnEffect ==
  ASSUME TypeOK, NEW id \in Ids, Burn(id)
  PROVE  /\ ownerOf' \in Seq(Accounts \union {NoAccount})
         /\ Len(ownerOf') = Len(ownerOf)
         /\ \A j \in Ids : ownerOf'[j] = IF j = id THEN NoAccount ELSE ownerOf[j]
         /\ events' \in Seq(Event)
         /\ Len(events') = Len(events)
         /\ \A j \in Ids : events'[j].quoteId = events[j].quoteId
         /\ \A j \in Ids : events'[j] = IF j = id THEN [events[j] EXCEPT !.payee = ownerOf[id]]
                                          ELSE events[j]
<1>1. /\ ownerOf \in Seq(Accounts \union {NoAccount})
      /\ events \in Seq(Event)
      /\ id \in 1 .. Len(ownerOf)
      /\ id \in 1 .. Len(events)
      /\ Ids = 1 .. Len(ownerOf)
      /\ Ids = 1 .. Len(events)
      /\ events[id] \in Event
      /\ ownerOf[id] \in Accounts \union {NoAccount}
  BY DEF TypeOK, Ids
<1>2. /\ [events[id] EXCEPT !.payee = ownerOf[id]] \in Event
      /\ [events[id] EXCEPT !.payee = ownerOf[id]].quoteId = events[id].quoteId
  BY <1>1 DEF Event
<1>3. events' = [events EXCEPT ![id] = [events[id] EXCEPT !.payee = ownerOf[id]]]
  BY DEF Burn
<1>4. /\ events' \in Seq(Event)
      /\ Len(events') = Len(events)
      /\ \A j \in Ids : events'[j] = IF j = id THEN [events[id] EXCEPT !.payee = ownerOf[id]]
                                       ELSE events[j]
  BY <1>1, <1>2, <1>3, ExceptSeq
<1>5. /\ ownerOf' \in Seq(Accounts \union {NoAccount})
      /\ Len(ownerOf') = Len(ownerOf)
      /\ \A j \in Ids : ownerOf'[j] = IF j = id THEN NoAccount ELSE ownerOf[j]
  BY <1>1, ExceptSeq DEF Burn
<1> QED
  BY <1>2, <1>4, <1>5

\* A mint appends one ticket and its log.
LEMMA MintAppends ==
  ASSUME TypeOK, NEW q \in Quotes, Mint(q)
  PROVE  /\ parlays' \in Seq(Parlay)
         /\ Len(parlays') = Len(parlays) + 1
         /\ \A j \in Ids : parlays'[j] = parlays[j]
         /\ parlays'[Len(parlays) + 1] =
              [legs |-> q.legs, writer |-> writer, premium |-> q.premium,
               maxPayout |-> q.maxPayout, status |-> "Open"]
         /\ parlays'[Len(parlays) + 1] \in Parlay
         /\ ownerOf' \in Seq(Accounts \union {NoAccount})
         /\ Len(ownerOf') = Len(parlays) + 1
         /\ \A j \in Ids : ownerOf'[j] = ownerOf[j]
         /\ ownerOf'[Len(parlays) + 1] = q.taker
         /\ events' \in Seq(Event)
         /\ Len(events') = Len(parlays) + 1
         /\ \A j \in Ids : events'[j] = events[j]
         /\ events'[Len(parlays) + 1] =
              [taker |-> q.taker, quoteId |-> q.quoteId, payee |-> NoAccount]
         /\ q \in Quote /\ q.taker \in Accounts
<1>1. q \in Quote
  BY ConstantsAssumption
<1> DEFINE p == [legs |-> q.legs, writer |-> writer, premium |-> q.premium,
                 maxPayout |-> q.maxPayout, status |-> "Open"]
           e == [taker |-> q.taker, quoteId |-> q.quoteId, payee |-> NoAccount]
<1>2. p \in Parlay /\ e \in Event /\ q.taker \in Accounts
  <2>1. q.premium < q.maxPayout /\ writer \in Accounts
    BY DEF Mint, PriceAccepted, TypeOK
  <2> QED
    BY <1>1, <2>1 DEF Parlay, Event, Quote, Statuses
<1>3. /\ parlays' = Append(parlays, p)
      /\ ownerOf' = Append(ownerOf, q.taker)
      /\ events' = Append(events, e)
  BY DEF Mint
<1>4. /\ parlays \in Seq(Parlay)
      /\ ownerOf \in Seq(Accounts \union {NoAccount})
      /\ events \in Seq(Event)
      /\ Len(ownerOf) = Len(parlays)
      /\ Len(events) = Len(parlays)
  BY DEF TypeOK
<1>5. /\ parlays' \in Seq(Parlay)
      /\ Len(parlays') = Len(parlays) + 1
      /\ \A j \in Ids : parlays'[j] = parlays[j]
      /\ parlays'[Len(parlays) + 1] = p
  BY <1>2, <1>3, <1>4, AppendProperties DEF Ids
<1>6. /\ ownerOf' \in Seq(Accounts \union {NoAccount})
      /\ Len(ownerOf') = Len(parlays) + 1
      /\ \A j \in Ids : ownerOf'[j] = ownerOf[j]
      /\ ownerOf'[Len(parlays) + 1] = q.taker
  BY <1>2, <1>3, <1>4, AppendProperties DEF Ids
<1>7. /\ events' \in Seq(Event)
      /\ Len(events') = Len(parlays) + 1
      /\ \A j \in Ids : events'[j] = events[j]
      /\ events'[Len(parlays) + 1] = e
  BY <1>2, <1>3, <1>4, AppendProperties DEF Ids
<1> QED
  BY <1>1, <1>2, <1>5, <1>6, <1>7

\* A mint appends one Open ticket held by the taker and funds it in full.
LEMMA MintEffect ==
  ASSUME TypeOK, NEW q \in Quotes, Mint(q)
  PROVE  /\ parlays' \in Seq(Parlay)
         /\ Len(parlays') = Len(parlays) + 1
         /\ \A j \in Ids : parlays'[j] = parlays[j]
         /\ parlays'[Len(parlays) + 1].status = "Open"
         /\ parlays'[Len(parlays) + 1].maxPayout = q.maxPayout
         /\ ownerOf' \in Seq(Accounts \union {NoAccount})
         /\ Len(ownerOf') = Len(parlays) + 1
         /\ \A j \in Ids : ownerOf'[j] = ownerOf[j]
         /\ ownerOf'[Len(parlays) + 1] \in Accounts
         /\ events' \in Seq(Event)
         /\ Len(events') = Len(parlays) + 1
         /\ \A j \in Ids : events'[j] = events[j]
         /\ events'[Len(parlays) + 1].quoteId = q.quoteId
         /\ q.maxPayout \in Nat
         /\ pot' = pot + q.maxPayout
<1>1. q \in Quote
  BY ConstantsAssumption
<1>2. /\ q.maxPayout \in Nat
      /\ pot' = pot + q.maxPayout
  BY SMTT(40), <1>1 DEF Mint, HouseShare, Quote, TypeOK
<1> DEFINE n == Len(parlays) + 1
<1>3. /\ parlays'[n] = [legs |-> q.legs, writer |-> writer, premium |-> q.premium,
                        maxPayout |-> q.maxPayout, status |-> "Open"]
      /\ events'[n] = [taker |-> q.taker, quoteId |-> q.quoteId, payee |-> NoAccount]
      /\ ownerOf'[n] = q.taker /\ q.taker \in Accounts
  BY MintAppends
<1>4. /\ parlays'[n].status = "Open" /\ parlays'[n].maxPayout = q.maxPayout
      /\ events'[n].quoteId = q.quoteId /\ ownerOf'[n] \in Accounts
  BY <1>3
<1> HIDE DEF n
<1>5. /\ parlays' \in Seq(Parlay) /\ Len(parlays') = n
      /\ ownerOf' \in Seq(Accounts \union {NoAccount}) /\ Len(ownerOf') = n
      /\ events' \in Seq(Event) /\ Len(events') = n
      /\ \A j \in Ids : /\ parlays'[j] = parlays[j]
                        /\ ownerOf'[j] = ownerOf[j]
                        /\ events'[j] = events[j]
  BY MintAppends DEF n
<1> QED
  BY <1>2, <1>4, <1>5 DEF n

-----------------------------------------------------------------------------
(***************************************************************************)
(* Type correctness.                                                       *)
(***************************************************************************)

\* A payment to any address keeps balances natural numbers.
LEMMA PaysType ==
  ASSUME NEW bal \in [Accounts -> Nat], NEW to, NEW n \in Nat
  PROVE  Pays(bal, to, n) \in [Accounts -> Nat]
<1>1. ASSUME NEW a \in Accounts
      PROVE  Pays(bal, to, n)[a] \in Nat
  BY <1>1 DEF Pays
<1> QED
  BY <1>1 DEF Pays

\* The two pulls of a mint never overdraw a balance or an allowance.
LEMMA MintBalances ==
  ASSUME TypeOK, NEW q \in Quotes, Mint(q)
  PROVE  /\ usdc' \in [Accounts -> Nat]
         /\ allowance' \in [Accounts -> Nat]
         /\ pot' \in Nat
<1>1. q \in Quote /\ writer \in Accounts
  BY ConstantsAssumption DEF TypeOK
<1>2. q.taker \in Accounts /\ q.premium \in Nat /\ q.maxPayout \in Nat
  BY <1>1 DEF Quote
<1>3. HouseShare(q) \in Nat
  BY <1>2 DEF Mint, PriceAccepted, HouseShare
<1>4. ASSUME NEW bal \in [Accounts -> Nat], NEW a \in Accounts, NEW n \in Nat, bal[a] >= n
      PROVE  Pulled(bal, a, n) \in [Accounts -> Nat]
  BY <1>4 DEF Pulled
<1>5. /\ Pulled(usdc, q.taker, q.premium) \in [Accounts -> Nat]
      /\ Pulled(allowance, q.taker, q.premium) \in [Accounts -> Nat]
  BY <1>2, <1>4 DEF Mint, CanPull, TypeOK
<1>6. usdc' \in [Accounts -> Nat] /\ allowance' \in [Accounts -> Nat]
  BY <1>1, <1>3, <1>4, <1>5 DEF Mint, CanPull
<1>7. pot \in Nat /\ pot' = pot + q.premium + HouseShare(q)
  BY DEF Mint, TypeOK
<1> QED
  BY <1>2, <1>3, <1>6, <1>7

\* A transaction moves the contract from one well-typed state to another.
LEMMA NextTypeOK == TypeOK /\ [Next]_vars => TypeOK'
<1> SUFFICES ASSUME TypeOK, [Next]_vars
             PROVE  TypeOK'
  OBVIOUS
<1> USE ConstantsAssumption
<1>1. ASSUME NEW caller \in Accounts, NEW o \in Owners, SetOwner(caller, o)
      PROVE  TypeOK'
  BY <1>1 DEF TypeOK, SetOwner, Ids, config, money, tickets
<1>2. ASSUME NEW caller \in Accounts, NEW r \in Registrars, SetLegRegistrar(caller, r)
      PROVE  TypeOK'
  BY <1>2 DEF TypeOK, SetLegRegistrar, Ids, config, money, tickets
<1>3. ASSUME NEW caller \in Accounts, NEW w \in Writers, SetWriter(caller, w)
      PROVE  TypeOK'
  BY <1>3 DEF TypeOK, SetWriter, Ids, config, money, tickets
<1>4. ASSUME NEW caller \in Accounts, NEW s \in Signers, SetQuoteSigner(caller, s)
      PROVE  TypeOK'
  BY <1>4 DEF TypeOK, SetQuoteSigner, Ids, config, money, tickets
<1>5. ASSUME NEW caller \in Accounts, NEW bps \in Floors, SetMinPremiumBps(caller, bps)
      PROVE  TypeOK'
  BY SMTT(40), <1>5 DEF TypeOK, SetMinPremiumBps, Ids, config, money, tickets
<1>6. ASSUME NEW caller \in Accounts, NEW l \in Legs, AllowLeg(caller, l)
      PROVE  TypeOK'
  BY <1>6 DEF TypeOK, AllowLeg, Ids, config, money, tickets
<1>7. ASSUME NEW approval \in Approvals, Approve(approval[1], approval[2])
      PROVE  TypeOK'
  BY <1>7 DEF TypeOK, Approve, Ids, config, tickets
<1>8. CASE Donate
  <2>1. usdc' \in [Accounts -> Nat] /\ pot' \in Nat /\ gifts' \in 0 .. MaxGifts
    BY SMTT(40), <1>8 DEF TypeOK, Donate
  <2> QED
    BY <1>8, <2>1 DEF TypeOK, Donate, Ids, config, tickets
<1>9. ASSUME NEW l \in Legs, NEW f \in Fractions, SettleLeg(l, f)
      PROVE  TypeOK'
  BY <1>9 DEF TypeOK, SettleLeg, Ids, config, money, tickets
<1>10. CASE Tick
  BY <1>10 DEF TypeOK, Tick, Ids, config, money, tickets
<1>11. ASSUME NEW q \in Quotes, Mint(q)
       PROVE  TypeOK'
  <2>1. usedQuotes' \subseteq Nat
    BY <1>11 DEF Mint, TypeOK, Quote
  <2> QED
    BY <1>11, <2>1, MintEffect, MintBalances DEF TypeOK, Mint, config
<1>12. ASSUME NEW id \in Ids
       PROVE  /\ parlays[id] \in Parlay
              /\ parlays[id].maxPayout \in Nat
              /\ parlays[id].premium \in Nat
              /\ parlays[id].maxPayout - parlays[id].premium \in Nat
              /\ parlays[id].writer \in Accounts
  <2>1. parlays[id] \in Parlay
    BY <1>12 DEF TypeOK, Ids
  <2> QED
    BY <2>1 DEF Parlay
<1>13. ASSUME NEW id \in Ids, NEW to \in Accounts, TransferTicket(id, to)
       PROVE  TypeOK'
  <2>1. ownerOf' \in Seq(Accounts \union {NoAccount}) /\ Len(ownerOf') = Len(ownerOf)
    BY <1>13, ExceptSeq DEF TransferTicket, TypeOK, Ids
  <2> QED
    BY <1>13, <2>1 DEF TypeOK, TransferTicket, config, money
<1>14. ASSUME NEW id \in Ids, ResolveDead(id)
       PROVE  TypeOK'
  <2>1. parlays[id].maxPayout \in Nat /\ pot \in Nat /\ usdc \in [Accounts -> Nat]
    BY <1>12 DEF TypeOK
  <2>2. pot' \in Nat
    BY <2>1, <1>14 DEF ResolveDead
  <2>3. usdc' \in [Accounts -> Nat]
    BY <2>1, <1>14, PaysType DEF ResolveDead
  <2> QED
    BY <1>14, <2>2, <2>3, SetStatusEffect DEF TypeOK, ResolveDead, Statuses, config
<1>15. ASSUME NEW id \in Ids, ResolveVoid(id)
       PROVE  TypeOK'
  <2>1. /\ parlays[id].maxPayout \in Nat /\ pot \in Nat /\ usdc \in [Accounts -> Nat]
        /\ parlays[id].premium \in Nat
        /\ parlays[id].maxPayout - parlays[id].premium \in Nat
    BY <1>12 DEF TypeOK
  <2>2. pot' \in Nat
    BY <2>1, <1>15 DEF ResolveVoid
  <2>3. usdc' \in [Accounts -> Nat]
    BY <2>1, <1>15, PaysType DEF ResolveVoid
  <2> QED
    BY <1>15, <2>2, <2>3, SetStatusEffect, BurnEffect DEF TypeOK, ResolveVoid, Statuses, config
<1>16. ASSUME NEW id \in Ids, ResolveWon(id)
       PROVE  TypeOK'
  BY <1>16, SetStatusEffect DEF TypeOK, ResolveWon, Statuses, config, money
<1>17. ASSUME NEW id \in Ids, Claim(id)
       PROVE  TypeOK'
  <2>1. parlays[id].maxPayout \in Nat /\ pot \in Nat /\ usdc \in [Accounts -> Nat]
    BY <1>12 DEF TypeOK
  <2>2. pot' \in Nat
    BY <2>1, <1>17 DEF Claim
  <2>3. usdc' \in [Accounts -> Nat]
    BY <2>1, <1>17, PaysType DEF Claim
  <2> QED
    BY <1>17, <2>2, <2>3, SetStatusEffect, BurnEffect DEF TypeOK, Claim, Statuses, config
<1>18. CASE UNCHANGED vars
  BY <1>18 DEF TypeOK, Ids, vars, config, money, tickets
<1> QED
  BY <1>1, <1>2, <1>3, <1>4, <1>5, <1>6, <1>7, <1>8, <1>9, <1>10, <1>11, <1>13,
     <1>14, <1>15, <1>16, <1>17, <1>18 DEF Next

\* Every reachable state is well typed: no balance or allowance is overdrawn, and
\* owners and events stay in step with the tickets.
THEOREM TypeCorrect == Spec => []TypeOK
<1>1. ASSUME Init
      PROVE  TypeOK
  <2>1. /\ parlays \in Seq(Parlay) /\ events \in Seq(Event)
        /\ ownerOf \in Seq(Accounts \union {NoAccount})
        /\ Len(ownerOf) = Len(parlays) /\ Len(events) = Len(parlays)
    BY <1>1 DEF Init
  <2>2. /\ usdc \in [Accounts -> Nat] /\ allowance \in [Accounts -> Nat]
        /\ fraction \in [Legs -> Fractions \union {"unsettled"}]
    BY <1>1, ConstantsAssumption DEF Init
  <2>3. /\ owner \in Accounts /\ legRegistrar \in Accounts \union {NoAccount}
        /\ writer \in Accounts /\ quoteSigner \in Signers /\ minPremiumBps \in Nat
    BY <1>1, ConstantsAssumption DEF Init
  <2>4. /\ allowedLeg \subseteq Legs /\ usedQuotes \subseteq Nat
        /\ pot \in Nat /\ now \in 0 .. MaxTime /\ gifts \in 0 .. MaxGifts
    BY <1>1, ConstantsAssumption DEF Init
  <2> QED
    BY <2>1, <2>2, <2>3, <2>4 DEF TypeOK
<1> QED
  BY <1>1, NextTypeOK, PTL DEF Spec

-----------------------------------------------------------------------------
(***************************************************************************)
(* Escrow.  EscrowPartition alone is not inductive: ResolveWon moves a     *)
(* ticket's share from Open to Won, where it is owed only while somebody   *)
(* holds the ticket.  EscrowInv adds that an Open ticket has a holder.     *)
(***************************************************************************)
OpenTicketsHeld ==
  \A id \in Ids : parlays[id].status = "Open" => ownerOf[id] \in Accounts

EscrowInv == TypeOK /\ OpenTicketsHeld /\ EscrowPartition

\* The type facts about one ticket that the escrow proofs use.
LEMMA TicketTypes ==
  ASSUME TypeOK, NEW id \in Ids
  PROVE  /\ parlays[id] \in Parlay
         /\ parlays[id].maxPayout \in Nat
         /\ Owed(id) \in Nat
         /\ Len(parlays) \in Nat
         /\ pot \in Nat
         /\ gifts \in Nat
<1>1. parlays[id] \in Parlay
  BY DEF TypeOK, Ids
<1>2. parlays[id].maxPayout \in Nat
  BY <1>1 DEF Parlay
<1>3. Owed(id) \in Nat
  BY <1>2 DEF Owed
<1>4. Len(parlays) \in Nat /\ pot \in Nat /\ gifts \in Nat
  BY ConstantsAssumption, LenProperties DEF TypeOK
<1> QED
  BY <1>1, <1>2, <1>3, <1>4

\* If nothing owed changes and no USDC moves, the partition stays.
LEMMA PartitionKept ==
  ASSUME EscrowPartition, Ids' = Ids, Len(parlays)' = Len(parlays),
         pot' = pot, gifts' = gifts,
         \A j \in Ids : Owed(j)' = Owed(j)
  PROVE  EscrowPartition'
<1>1. [id \in Ids |-> Owed(id)]' = [id \in Ids |-> Owed(id)]
  OBVIOUS
<1>2. DividesInto(gifts, pot, Len(parlays), [id \in Ids |-> Owed(id)])
  BY DEF EscrowPartition
<1> QED
  BY ZenonT(40), <1>1, <1>2 DEF EscrowPartition, DividesInto

\* If one ticket's whole share is paid out, the others' shares stay.
LEMMA PartitionReleased ==
  ASSUME TypeOK, EscrowPartition, NEW id \in Ids,
         Ids' = Ids, Len(parlays)' = Len(parlays),
         pot' = pot - Owed(id), gifts' = gifts,
         \A j \in Ids : Owed(j)' = IF j = id THEN 0 ELSE Owed(j)
  PROVE  EscrowPartition'
<1> DEFINE n == Len(parlays)
           o == [j \in Ids |-> Owed(j)]
           o2 == [j \in Ids |-> IF j = id THEN 0 ELSE Owed(j)]
<1>1. /\ n \in Nat /\ pot \in Nat /\ gifts \in Nat
      /\ \A j \in Ids : Owed(j) \in Nat
  BY TicketTypes
<1>2. DividesInto(gifts, pot, n, o)
  BY DEF EscrowPartition
<1>3. /\ id \in 1 .. n
      /\ o[id] = Owed(id)
      /\ \A i \in 1 .. n : o[i] \in Nat
      /\ \A i \in 1 .. n : o2[i] = IF i = id THEN 0 ELSE o[i]
  BY <1>1 DEF Ids
<1>4. [j \in Ids |-> Owed(j)]' = o2
  OBVIOUS
<1> HIDE DEF o, o2, n
<1>5. DividesInto(gifts, pot - Owed(id), n, o2)
  BY <1>1, <1>2, <1>3, DividesRelease
<1> USE DEF n
<1> QED
  BY ZenonT(40), <1>4, <1>5 DEF EscrowPartition, DividesInto

\* A mint adds one share, the new ticket's, and as much USDC.
LEMMA MintKeepsEscrow ==
  ASSUME EscrowInv, NEW q \in Quotes, Mint(q)
  PROVE  EscrowPartition' /\ OpenTicketsHeld'
<1> USE DEF EscrowInv
<1>0. PICK n : n = Len(parlays)
  OBVIOUS
<1> DEFINE o == [j \in Ids |-> Owed(j)]
           o2 == [j \in Ids |-> Owed(j)]'
<1>1. /\ n \in Nat /\ pot \in Nat /\ gifts \in Nat
      /\ \A j \in Ids : Owed(j) \in Nat
  BY SMTT(40), TicketTypes, ConstantsAssumption, LenProperties, <1>0 DEF TypeOK
<1>2. /\ Ids = 1 .. n
      /\ Ids' = 1 .. n + 1
      /\ q.maxPayout \in Nat
      /\ pot' = pot + q.maxPayout
      /\ gifts' = gifts
      /\ Len(parlays)' = n + 1
  BY <1>0, MintEffect DEF Ids, Mint
<1>3. \A j \in Ids : Owed(j)' = Owed(j)
  BY MintEffect DEF Owed
<1>4. Owed(n + 1)' = q.maxPayout
  BY <1>0, MintEffect DEF Owed
<1>5. o2 \in [1 .. n + 1 -> Nat]
  <2>1. ASSUME NEW j \in 1 .. n + 1
        PROVE  Owed(j)' \in Nat
    BY <2>1, <1>1, <1>2, <1>3, <1>4
  <2> QED
    BY <2>1, <1>2
<1>6. /\ \A i \in 1 .. n : o2[i] = o[i]
      /\ o2[n + 1] = q.maxPayout
  BY <1>1, <1>2, <1>3, <1>4
<1>7. DividesInto(gifts, pot, n, o)
  BY <1>0 DEF EscrowPartition
<1>8. OpenTicketsHeld'
  <2> SUFFICES ASSUME NEW j \in Ids', parlays'[j].status = "Open"
               PROVE  ownerOf'[j] \in Accounts
    BY DEF OpenTicketsHeld
  <2>1. CASE j \in Ids
    BY <2>1, MintEffect DEF OpenTicketsHeld
  <2>2. CASE j = n + 1
    BY <1>0, <2>2, MintEffect
  <2> QED
    BY <2>1, <2>2, <1>1, <1>2
<1> HIDE DEF o, o2
<1>9. DividesInto(gifts, pot + q.maxPayout, n + 1, o2)
  BY <1>1, <1>2, <1>5, <1>6, <1>7, DividesAppend
<1> QED
  BY <1>2, <1>8, <1>9 DEF EscrowPartition, DividesInto, o2

\* Dead, Void and a claim each pay out exactly one ticket's share.
LEMMA PayoutKeepsEscrow ==
  ASSUME EscrowInv, NEW id \in Ids, ResolveDead(id) \/ ResolveVoid(id) \/ Claim(id)
  PROVE  EscrowPartition' /\ OpenTicketsHeld'
<1> USE DEF EscrowInv
<1>1. Len(parlays)' = Len(parlays) /\ Ids' = Ids
  BY SetStatusEffect DEF ResolveDead, ResolveVoid, Claim, Ids, Statuses
<1>2. gifts' = gifts /\ pot' = pot - parlays[id].maxPayout
  BY DEF ResolveDead, ResolveVoid, Claim
<1>3. Owed(id) = parlays[id].maxPayout
  <2>1. ownerOf[id] \in Accounts => ownerOf[id] # NoAccount
    BY ConstantsAssumption
  <2> QED
    BY <2>1 DEF Owed, ResolveDead, ResolveVoid, Claim
<1>4. CASE ResolveDead(id)
  <2>1. /\ ownerOf' = ownerOf
        /\ \A j \in Ids : parlays'[j] = IF j = id THEN [parlays[j] EXCEPT !.status = "Dead"]
                                         ELSE parlays[j]
    BY <1>4, SetStatusEffect DEF ResolveDead, Statuses
  <2>2. parlays'[id].status = "Dead"
    BY <2>1, TicketTypes DEF Parlay
  <2>3. \A j \in Ids : Owed(j)' = IF j = id THEN 0 ELSE Owed(j)
    BY <2>1, <2>2 DEF Owed
  <2>4. OpenTicketsHeld'
    BY <1>1, <2>1, <2>2 DEF OpenTicketsHeld
  <2> QED
    BY <1>1, <1>2, <1>3, <2>3, <2>4, PartitionReleased
<1>5. CASE ResolveVoid(id) \/ Claim(id)
  <2>1. PICK s \in {"Void", "Won"} :
          /\ \A j \in Ids : parlays'[j] = IF j = id THEN [parlays[j] EXCEPT !.status = s]
                                           ELSE parlays[j]
          /\ \A j \in Ids : ownerOf'[j] = IF j = id THEN NoAccount ELSE ownerOf[j]
    BY <1>5, SetStatusEffect, BurnEffect DEF ResolveVoid, Claim, Statuses
  <2>2. parlays'[id].status = s /\ ownerOf'[id] = NoAccount
    BY <2>1, TicketTypes DEF Parlay
  <2>3. \A j \in Ids : Owed(j)' = IF j = id THEN 0 ELSE Owed(j)
    BY <2>1, <2>2 DEF Owed
  <2>4. OpenTicketsHeld'
    BY <1>1, <2>1, <2>2 DEF OpenTicketsHeld
  <2> QED
    BY <1>1, <1>2, <1>3, <2>3, <2>4, PartitionReleased
<1> QED
  BY <1>4, <1>5

\* A win keeps its share in escrow for the holder.
LEMMA WinKeepsEscrow ==
  ASSUME EscrowInv, NEW id \in Ids, ResolveWon(id)
  PROVE  EscrowPartition' /\ OpenTicketsHeld'
<1> USE DEF EscrowInv
<1>1. Len(parlays)' = Len(parlays) /\ Ids' = Ids
  BY SetStatusEffect DEF ResolveWon, Ids, Statuses
<1>2. pot' = pot /\ gifts' = gifts /\ ownerOf' = ownerOf
  BY DEF ResolveWon, money
<1>3. \A j \in Ids : parlays'[j] = IF j = id THEN [parlays[j] EXCEPT !.status = "Won"]
                                   ELSE parlays[j]
  BY SetStatusEffect DEF ResolveWon, Statuses
<1>4. /\ parlays'[id].status = "Won"
      /\ parlays'[id].maxPayout = parlays[id].maxPayout
      /\ parlays[id].status = "Open"
  BY <1>3, TicketTypes DEF Parlay, ResolveWon
<1>5. ownerOf[id] # NoAccount
  BY <1>4, ConstantsAssumption DEF OpenTicketsHeld
<1>6. \A j \in Ids : Owed(j)' = Owed(j)
  BY <1>2, <1>3, <1>4, <1>5 DEF Owed
<1>7. OpenTicketsHeld'
  BY <1>1, <1>2, <1>3, <1>4 DEF OpenTicketsHeld
<1> QED
  BY <1>1, <1>2, <1>6, <1>7, PartitionKept

\* Every transaction keeps the escrow partition and the holders of open tickets.
LEMMA NextEscrowInv == EscrowInv /\ [Next]_vars => EscrowInv'
<1> SUFFICES ASSUME EscrowInv, [Next]_vars
             PROVE  EscrowInv'
  OBVIOUS
<1>1. TypeOK'
  BY NextTypeOK DEF EscrowInv
<1>2. ASSUME parlays' = parlays, ownerOf' = ownerOf, pot' = pot, gifts' = gifts
      PROVE  EscrowPartition' /\ OpenTicketsHeld'
  BY <1>2, PartitionKept DEF EscrowInv, OpenTicketsHeld, Owed, Ids
<1>3. ASSUME NEW caller \in Accounts, NEW x,
             \/ SetOwner(caller, x) \/ SetLegRegistrar(caller, x) \/ SetWriter(caller, x)
             \/ SetQuoteSigner(caller, x) \/ SetMinPremiumBps(caller, x) \/ AllowLeg(caller, x)
      PROVE  EscrowPartition' /\ OpenTicketsHeld'
  BY <1>2, <1>3 DEF SetOwner, SetLegRegistrar, SetWriter, SetQuoteSigner,
                    SetMinPremiumBps, AllowLeg, money, tickets
<1>4. ASSUME NEW a, NEW n, Approve(a, n)
      PROVE  EscrowPartition' /\ OpenTicketsHeld'
  BY <1>2, <1>4 DEF Approve, tickets
<1>5. ASSUME Donate
      PROVE  EscrowPartition' /\ OpenTicketsHeld'
  <2>1. DividesInto(gifts, pot, Len(parlays), [id \in Ids |-> Owed(id)])
    BY DEF EscrowInv, EscrowPartition
  <2>2. /\ Len(parlays) \in Nat /\ pot \in Nat /\ gifts \in Nat
        /\ [id \in Ids |-> Owed(id)] \in [1 .. Len(parlays) -> Nat]
    <3>1. parlays \in Seq(Parlay) /\ pot \in Nat /\ gifts \in 0 .. MaxGifts
      BY DEF EscrowInv, TypeOK
    <3>2. \A id \in Ids : Owed(id) \in Nat
      BY TicketTypes DEF EscrowInv, Ids
    <3> QED
      BY <3>1, <3>2, ConstantsAssumption, LenProperties DEF Ids
  <2>3. DividesInto(gifts + 1, pot + 1, Len(parlays), [id \in Ids |-> Owed(id)])
    BY <2>1, <2>2, DividesShift
  <2>4. /\ parlays' = parlays /\ ownerOf' = ownerOf
        /\ pot' = pot + 1 /\ gifts' = gifts + 1
    BY <1>5 DEF Donate, tickets
  <2>5. EscrowPartition'
    BY <2>3, <2>4 DEF EscrowPartition, DividesInto, Owed, Ids
  <2>6. OpenTicketsHeld /\ Ids' = Ids
    BY <2>4 DEF EscrowInv, Ids
  <2>7. OpenTicketsHeld'
    BY <2>4, <2>6 DEF OpenTicketsHeld
  <2> QED
    BY <2>5, <2>7
<1>6. ASSUME NEW l, NEW f, SettleLeg(l, f)
      PROVE  EscrowPartition' /\ OpenTicketsHeld'
  BY <1>2, <1>6 DEF SettleLeg, money, tickets
<1>7. ASSUME Tick
      PROVE  EscrowPartition' /\ OpenTicketsHeld'
  <2>1. parlays' = parlays /\ ownerOf' = ownerOf /\ pot' = pot /\ gifts' = gifts
    BY <1>7 DEF Tick, money, tickets
  <2> QED
    BY <1>2, <2>1
<1>8. ASSUME NEW id \in Ids, NEW to \in Accounts, TransferTicket(id, to)
      PROVE  EscrowPartition' /\ OpenTicketsHeld'
  <2>1. /\ parlays' = parlays /\ pot' = pot /\ gifts' = gifts
        /\ Ids' = Ids /\ Len(parlays)' = Len(parlays)
    BY <1>8 DEF TransferTicket, money, Ids
  <2>2. \A j \in Ids : ownerOf'[j] = IF j = id THEN to ELSE ownerOf[j]
    BY <1>8, ExceptSeq DEF TransferTicket, EscrowInv, TypeOK, Ids
  <2>3. to # NoAccount /\ ownerOf[id] # NoAccount
    BY <1>8, ConstantsAssumption DEF TransferTicket
  <2>4. \A j \in Ids : Owed(j)' = Owed(j)
    BY <2>1, <2>2, <2>3 DEF Owed
  <2>5. OpenTicketsHeld'
    BY <2>1, <2>2 DEF OpenTicketsHeld, EscrowInv
  <2> QED
    BY <2>1, <2>4, <2>5, PartitionKept DEF EscrowInv
<1>9. ASSUME UNCHANGED vars
      PROVE  EscrowPartition' /\ OpenTicketsHeld'
  <2>1. parlays' = parlays /\ ownerOf' = ownerOf /\ pot' = pot /\ gifts' = gifts
    BY <1>9 DEF vars, money, tickets
  <2> QED
    BY <1>2, <2>1
<1> QED
  BY <1>1, <1>3, <1>4, <1>5, <1>6, <1>7, <1>8, <1>9, MintKeepsEscrow, PayoutKeepsEscrow,
     WinKeepsEscrow DEF Next, EscrowInv

\* EscrowInv holds when the vault is deployed and ever after.
LEMMA EscrowInvariant == Spec => []EscrowInv
<1>1. Init => EscrowInv
  <2> SUFFICES ASSUME Init
               PROVE  EscrowInv
    OBVIOUS
  <2>1. TypeOK
    BY ConstantsAssumption DEF Init, TypeOK, Statuses, Fractions
  <2>2. Ids = {} /\ Len(parlays) = 0 /\ pot = 0 /\ gifts = 0
    BY DEF Init, Ids
  <2>3. EscrowPartition
    <3> DEFINE cut == [i \in 0 .. 0 |-> 0]
    <3>1. /\ cut \in [0 .. 0 -> 0 .. 0]
          /\ cut[0] = 0
          /\ \A i, j \in 0 .. 0 : i <= j => cut[i] <= cut[j]
      OBVIOUS
    <3> HIDE DEF cut
    <3>2. DividesInto(0, 0, 0, [id \in Ids |-> Owed(id)])
      BY <3>1 DEF DividesInto
    <3> QED
      BY <2>2, <3>2 DEF EscrowPartition
  <2> QED
    BY <2>1, <2>2, <2>3 DEF EscrowInv, OpenTicketsHeld
<1> QED
  BY <1>1, NextEscrowInv, PTL DEF Spec

\* The vault always holds, divided share by share, exactly what it owes on its
\* tickets, for any number of tickets and any quotes: no sequence of mints,
\* transfers, verdicts and claims makes one ticket's payout eat another's
\* escrow or leaves escrow behind.
THEOREM EscrowIsPartitioned == Spec => []EscrowPartition
<1>1. EscrowInv => EscrowPartition
  BY DEF EscrowInv
<1> QED
  BY <1>1, EscrowInvariant, PTL

-----------------------------------------------------------------------------
(***************************************************************************)
(* Verdicts.  A settled leg never changes, so whatever the legs supported  *)
(* when a ticket was resolved they support ever after.                     *)
(***************************************************************************)
Settles(leg) == fraction[leg.vault] # "unsettled" => fraction'[leg.vault] = fraction[leg.vault]

\* Verdict predicates only ever go from false to true on a given set of legs.
LEMMA VerdictsStable ==
  ASSUME NEW id, parlays'[id].legs = parlays[id].legs,
         \A i \in DOMAIN parlays[id].legs : Settles(parlays[id].legs[i])
  PROVE  /\ Lost(id) => Lost(id)'
         /\ Fractional(id) => Fractional(id)'
         /\ IsWon(id) => IsWon(id)'
<1>1. Lost(id) => Lost(id)'
  <2> SUFFICES ASSUME Lost(id)
               PROVE  Lost(id)'
    OBVIOUS
  <2>1. PICK i \in DOMAIN parlays[id].legs :
          fraction[parlays[id].legs[i].vault] = LostAt(parlays[id].legs[i])
    BY DEF Lost
  <2>2. LostAt(parlays[id].legs[i]) # "unsettled"
    BY DEF LostAt
  <2>3. fraction'[parlays[id].legs[i].vault] = LostAt(parlays[id].legs[i])
    BY <2>1, <2>2 DEF Settles
  <2> QED
    BY <2>3 DEF Lost, LostAt
<1>2. Fractional(id) => Fractional(id)'
  BY DEF Fractional, Settles
<1>3. IsWon(id) => IsWon(id)'
  <2> SUFFICES ASSUME IsWon(id)
               PROVE  IsWon(id)'
    OBVIOUS
  <2>1. \A i \in DOMAIN parlays[id].legs :
          /\ fraction[parlays[id].legs[i].vault] # "unsettled"
          /\ fraction'[parlays[id].legs[i].vault] = fraction[parlays[id].legs[i].vault]
    BY DEF IsWon, AllSettled, Settled, Settles
  <2> QED
    BY <2>1 DEF IsWon, Lost, Fractional, AllSettled, Settled, LostAt
<1> QED
  BY <1>1, <1>2, <1>3

VerdictInv == TypeOK /\ VerdictsMatchLegs

\* A ticket given status s while its legs support s keeps every verdict right.
LEMMA ResolveKeepsVerdicts ==
  ASSUME VerdictInv, NEW id \in Ids, NEW s \in Statuses, SetStatus(id, s),
         fraction' = fraction,
         s = "Won" => IsWon(id),
         s = "Dead" => Lost(id),
         s = "Void" => Fractional(id)
  PROVE  VerdictsMatchLegs'
<1>1. /\ Ids' = Ids
      /\ \A j \in Ids : parlays'[j] = IF j = id THEN [parlays[j] EXCEPT !.status = s]
                                       ELSE parlays[j]
  BY SetStatusEffect DEF VerdictInv, Ids
<1>2. \A j \in Ids : parlays[j] \in Parlay
  BY TicketTypes DEF VerdictInv
<1>3. SUFFICES ASSUME NEW j \in Ids
               PROVE  /\ parlays'[j].status = "Won" => IsWon(j)'
                      /\ parlays'[j].status = "Dead" => Lost(j)'
                      /\ parlays'[j].status = "Void" => Fractional(j)'
  BY <1>1 DEF VerdictsMatchLegs
<1>4. parlays'[j].legs = parlays[j].legs
  BY <1>1, <1>2 DEF Parlay
<1>5. /\ Lost(j) => Lost(j)'
      /\ Fractional(j) => Fractional(j)'
      /\ IsWon(j) => IsWon(j)'
  BY <1>4, VerdictsStable DEF Settles
<1>6. CASE j = id
  <2>1. parlays'[j].status = s
    BY <1>1, <1>2, <1>6 DEF Parlay
  <2> QED
    BY <1>5, <1>6, <2>1
<1>7. CASE j # id
  BY <1>1, <1>5, <1>7 DEF VerdictInv, VerdictsMatchLegs
<1> QED
  BY <1>6, <1>7

\* Every transaction, settlements of legs included, leaves all verdicts right.
LEMMA NextVerdictInv == VerdictInv /\ [Next]_vars => VerdictInv'
<1> SUFFICES ASSUME VerdictInv, [Next]_vars
             PROVE  VerdictsMatchLegs'
  BY NextTypeOK DEF VerdictInv
<1>1. ASSUME parlays' = parlays,
             \A id \in Ids : \A i \in DOMAIN parlays[id].legs : Settles(parlays[id].legs[i])
      PROVE  VerdictsMatchLegs'
  BY <1>1, VerdictsStable DEF VerdictInv, VerdictsMatchLegs, Ids
<1>2. ASSUME parlays' = parlays, fraction' = fraction
      PROVE  VerdictsMatchLegs'
  BY <1>1, <1>2 DEF Settles
<1>3. ASSUME NEW caller \in Accounts, NEW x,
             \/ SetOwner(caller, x) \/ SetLegRegistrar(caller, x) \/ SetWriter(caller, x)
             \/ SetQuoteSigner(caller, x) \/ SetMinPremiumBps(caller, x) \/ AllowLeg(caller, x)
      PROVE  VerdictsMatchLegs'
  BY <1>2, <1>3 DEF SetOwner, SetLegRegistrar, SetWriter, SetQuoteSigner,
                    SetMinPremiumBps, AllowLeg, tickets
<1>4. ASSUME NEW a, NEW n, Approve(a, n)
      PROVE  VerdictsMatchLegs'
  BY <1>2, <1>4 DEF Approve, tickets
<1>5. ASSUME Donate \/ Tick \/ UNCHANGED vars
      PROVE  VerdictsMatchLegs'
  BY <1>2, <1>5 DEF Donate, Tick, vars, tickets
<1>6. ASSUME NEW l \in Legs, NEW f \in Fractions, SettleLeg(l, f)
      PROVE  VerdictsMatchLegs'
  <2>1. parlays' = parlays
    BY <1>6 DEF SettleLeg, tickets
  <2>2. ASSUME NEW id \in Ids, NEW i \in DOMAIN parlays[id].legs
        PROVE  Settles(parlays[id].legs[i])
    <3>1. fraction' = [fraction EXCEPT ![l] = f] /\ fraction[l] = "unsettled"
      BY <1>6 DEF SettleLeg
    <3>2. CASE parlays[id].legs[i].vault = l
      BY <3>1, <3>2 DEF Settles
    <3>3. CASE parlays[id].legs[i].vault # l
      <4>1. parlays[id].legs \in Seq(LegChoice)
        BY TicketTypes DEF VerdictInv, Parlay
      <4>2. parlays[id].legs[i] \in LegChoice
        BY <4>1, <2>2, ElementOfSeq, LenProperties
      <4>3. parlays[id].legs[i].vault \in Legs /\ fraction \in [Legs -> Fractions \union {"unsettled"}]
        BY <4>2 DEF LegChoice, VerdictInv, TypeOK
      <4> QED
        BY <3>1, <3>3, <4>3 DEF Settles
    <3> QED
      BY <3>2, <3>3
  <2> QED
    BY <1>1, <2>1, <2>2
<1>7. ASSUME NEW q \in Quotes, Mint(q)
      PROVE  VerdictsMatchLegs'
  <2>1. /\ \A j \in Ids : parlays'[j] = parlays[j]
        /\ parlays'[Len(parlays) + 1].status = "Open"
        /\ Len(parlays') = Len(parlays) + 1
        /\ fraction' = fraction
        /\ Len(parlays) \in Nat
    BY <1>7, MintEffect, LenProperties DEF Mint, VerdictInv, TypeOK
  <2>2. Ids' = Ids \union {Len(parlays) + 1}
    BY <2>1 DEF Ids
  <2>3. ASSUME NEW j \in Ids
        PROVE  /\ parlays'[j].status = "Won" => IsWon(j)'
               /\ parlays'[j].status = "Dead" => Lost(j)'
               /\ parlays'[j].status = "Void" => Fractional(j)'
    <3>1. /\ Lost(j) => Lost(j)'
          /\ Fractional(j) => Fractional(j)'
          /\ IsWon(j) => IsWon(j)'
      BY <2>1, VerdictsStable DEF Settles
    <3> QED
      BY <2>1, <3>1 DEF VerdictInv, VerdictsMatchLegs
  <2>4. ASSUME NEW j \in Ids', j \notin Ids
        PROVE  parlays'[j].status = "Open"
    BY <2>1, <2>2, <2>4
  <2> QED
    BY <2>3, <2>4 DEF VerdictsMatchLegs
<1>8. ASSUME NEW id \in Ids,
             ResolveDead(id) \/ ResolveVoid(id) \/ ResolveWon(id) \/ Claim(id)
      PROVE  VerdictsMatchLegs'
  <2>1. fraction' = fraction
    BY <1>8 DEF ResolveDead, ResolveVoid, ResolveWon, Claim
  <2>2. CASE ResolveDead(id)
    BY <2>1, <2>2, ResolveKeepsVerdicts DEF ResolveDead, IsDead, Statuses
  <2>3. CASE ResolveVoid(id)
    BY <2>1, <2>3, ResolveKeepsVerdicts DEF ResolveVoid, IsVoid, Statuses
  <2>4. CASE ResolveWon(id)
    BY <2>1, <2>4, ResolveKeepsVerdicts DEF ResolveWon, Statuses
  <2>5. CASE Claim(id)
    BY <2>1, <2>5, ResolveKeepsVerdicts DEF Claim, Statuses, VerdictInv, VerdictsMatchLegs
  <2> QED
    BY <1>8, <2>2, <2>3, <2>4, <2>5
<1>9. ASSUME NEW id \in Ids, NEW to \in Accounts, TransferTicket(id, to)
      PROVE  VerdictsMatchLegs'
  BY <1>2, <1>9 DEF TransferTicket
<1> QED
  BY <1>3, <1>4, <1>5, <1>6, <1>7, <1>8, <1>9 DEF Next

\* VerdictInv holds when the vault is deployed and ever after.
LEMMA VerdictInvariant == Spec => []VerdictInv
<1>1. Init => VerdictInv
  <2> SUFFICES ASSUME Init
               PROVE  VerdictInv
    OBVIOUS
  <2>1. TypeOK
    BY ConstantsAssumption DEF Init, TypeOK, Statuses, Fractions
  <2>2. Ids = {}
    BY DEF Init, Ids
  <2> QED
    BY <2>1, <2>2 DEF VerdictInv, VerdictsMatchLegs
<1> QED
  BY <1>1, NextVerdictInv, PTL DEF Spec

\* No ticket is ever Won unless all its legs settled its way, Dead without a lost
\* leg or Void without a fractional one, now or when the remaining legs settle.
THEOREM VerdictsAreRight == Spec => []VerdictsMatchLegs
<1>1. VerdictInv => VerdictsMatchLegs
  BY DEF VerdictInv
<1> QED
  BY <1>1, VerdictInvariant, PTL

-----------------------------------------------------------------------------
(***************************************************************************)
(* Replay of quotes.  That tickets have distinct quoteIds is not inductive *)
(* by itself: mint looks at usedQuotes, so QuoteInv adds that usedQuotes   *)
(* has the quoteId of every ticket there is.                               *)
(***************************************************************************)
QuoteBacksOneTicket ==
  \A i, j \in Ids : events[i].quoteId = events[j].quoteId => i = j

MintedQuotesUsed == \A id \in Ids : events[id].quoteId \in usedQuotes

QuoteInv == TypeOK /\ MintedQuotesUsed /\ QuoteBacksOneTicket

\* Every transaction keeps the quoteIds of the tickets distinct and used.
LEMMA NextQuoteInv == QuoteInv /\ [Next]_vars => QuoteInv'
<1> SUFFICES ASSUME QuoteInv, [Next]_vars
             PROVE  MintedQuotesUsed' /\ QuoteBacksOneTicket'
  BY NextTypeOK DEF QuoteInv
<1>1. ASSUME Ids' = Ids, usedQuotes' = usedQuotes,
             \A j \in Ids : events'[j].quoteId = events[j].quoteId
      PROVE  MintedQuotesUsed' /\ QuoteBacksOneTicket'
  BY <1>1 DEF QuoteInv, MintedQuotesUsed, QuoteBacksOneTicket
<1>2. ASSUME parlays' = parlays, usedQuotes' = usedQuotes, events' = events
      PROVE  MintedQuotesUsed' /\ QuoteBacksOneTicket'
  BY <1>1, <1>2 DEF Ids
<1>3. ASSUME NEW caller \in Accounts, NEW x,
             \/ SetOwner(caller, x) \/ SetLegRegistrar(caller, x) \/ SetWriter(caller, x)
             \/ SetQuoteSigner(caller, x) \/ SetMinPremiumBps(caller, x) \/ AllowLeg(caller, x)
      PROVE  MintedQuotesUsed' /\ QuoteBacksOneTicket'
  BY <1>2, <1>3 DEF SetOwner, SetLegRegistrar, SetWriter, SetQuoteSigner,
                    SetMinPremiumBps, AllowLeg, tickets
<1>4. ASSUME NEW x, NEW y, Approve(x, y) \/ SettleLeg(x, y)
      PROVE  MintedQuotesUsed' /\ QuoteBacksOneTicket'
  BY <1>2, <1>4 DEF Approve, SettleLeg, tickets
<1>5. ASSUME Donate \/ Tick \/ UNCHANGED vars
      PROVE  MintedQuotesUsed' /\ QuoteBacksOneTicket'
  BY <1>2, <1>5 DEF Donate, Tick, vars, tickets
<1>6. ASSUME NEW id \in Ids, NEW to \in Accounts, TransferTicket(id, to)
      PROVE  MintedQuotesUsed' /\ QuoteBacksOneTicket'
  BY <1>2, <1>6 DEF TransferTicket
<1>7. ASSUME NEW q \in Quotes, Mint(q)
      PROVE  MintedQuotesUsed' /\ QuoteBacksOneTicket'
  <2>1. /\ Len(parlays) \in Nat
        /\ Len(parlays') = Len(parlays) + 1
        /\ \A j \in Ids : events'[j] = events[j]
        /\ events'[Len(parlays) + 1].quoteId = q.quoteId
    BY <1>7, MintEffect, LenProperties DEF QuoteInv, TypeOK
  <2>2. Ids' = Ids \union {Len(parlays) + 1}
    BY <2>1 DEF Ids
  <2>3. q.quoteId \notin usedQuotes /\ usedQuotes' = usedQuotes \union {q.quoteId}
    BY <1>7 DEF Mint, LiveQuote, FreshQuote
  <2>4. \A j \in Ids : events'[j].quoteId # q.quoteId
    BY <2>1, <2>3 DEF QuoteInv, MintedQuotesUsed
  <2>5. MintedQuotesUsed'
    BY <2>1, <2>2, <2>3 DEF QuoteInv, MintedQuotesUsed
  <2>6. QuoteBacksOneTicket'
    BY <2>1, <2>2, <2>4 DEF QuoteInv, QuoteBacksOneTicket
  <2> QED
    BY <2>5, <2>6
<1>8. ASSUME NEW id \in Ids,
             ResolveDead(id) \/ ResolveVoid(id) \/ ResolveWon(id) \/ Claim(id)
      PROVE  MintedQuotesUsed' /\ QuoteBacksOneTicket'
  <2>1. Ids' = Ids /\ usedQuotes' = usedQuotes
    BY <1>8, SetStatusEffect
       DEF QuoteInv, ResolveDead, ResolveVoid, ResolveWon, Claim, Ids, Statuses
  <2>2. \A j \in Ids : events'[j].quoteId = events[j].quoteId
    BY <1>8, BurnEffect DEF QuoteInv, ResolveDead, ResolveVoid, ResolveWon, Claim
  <2> QED
    BY <1>1, <2>1, <2>2
<1> QED
  BY <1>3, <1>4, <1>5, <1>6, <1>7, <1>8 DEF Next

\* QuoteInv holds when the vault is deployed and ever after.
LEMMA QuoteInvariant == Spec => []QuoteInv
<1>1. Init => QuoteInv
  <2> SUFFICES ASSUME Init
               PROVE  QuoteInv
    OBVIOUS
  <2>1. TypeOK
    BY ConstantsAssumption DEF Init, TypeOK, Statuses, Fractions
  <2>2. Ids = {}
    BY DEF Init, Ids
  <2> QED
    BY <2>1, <2>2 DEF QuoteInv, MintedQuotesUsed, QuoteBacksOneTicket
<1> QED
  BY <1>1, NextQuoteInv, PTL DEF Spec

\* However often and by whomever quotes are submitted, in any order, no two
\* tickets ever come from the same quoteId.
THEOREM QuotesAreNotReplayed == Spec => []QuoteBacksOneTicket
<1>1. QuoteInv => QuoteBacksOneTicket
  BY DEF QuoteInv
<1> QED
  BY <1>1, QuoteInvariant, PTL

-----------------------------------------------------------------------------
(***************************************************************************)
(* Balances.  What the tickets brought an account is a sum over them; a    *)
(* step adds one term to it or changes one.                                *)
(***************************************************************************)

\* A set of naturals that holds 0, and the next of each, holds them all.
LEMMA SetInduction ==
  ASSUME NEW S, 0 \in S, \A n \in Nat : n \in S => n + 1 \in S
  PROVE  Nat \subseteq S
<1>1. SUFFICES ASSUME Nat \ S # {} PROVE FALSE
  OBVIOUS
<1>2. PICK R : R = OpToRel(<, Nat) /\ IsWellFoundedOn(R, Nat)
  BY NatLessThanWellFounded
<1>3. PICK x \in Nat \ S : \A y \in Nat \ S : ~(<<y, x>> \in R)
  BY <1>1, <1>2, WFMin
<1>4. x # 0 /\ x - 1 \in Nat
  BY <1>3
<1>5. x - 1 \notin S
  BY <1>3, <1>4
<1>6. <<x - 1, x>> \in R
  BY <1>2, <1>3, <1>4 DEF OpToRel
<1> QED
  BY <1>3, <1>4, <1>5, <1>6

RunningTotal(sum, d, n) == sum = [i \in 0 .. n |-> IF i = 0 THEN 0 ELSE sum[i - 1] + d[i]]

LEMMA RunningTotalExists ==
  ASSUME NEW d
  PROVE  \A n \in Nat : \E sum : RunningTotal(sum, d, n)
<1> DEFINE S == {n \in Nat : \E sum : RunningTotal(sum, d, n)}
<1>1. 0 \in S
  <2>1. RunningTotal([i \in 0 .. 0 |-> 0], d, 0)
    BY DEF RunningTotal
  <2> QED
    BY <2>1
<1>2. ASSUME NEW n \in Nat, n \in S
      PROVE  n + 1 \in S
  <2>1. PICK sum : RunningTotal(sum, d, n)
    BY <1>2
  <2> DEFINE g == [i \in 0 .. n + 1 |-> IF i <= n THEN sum[i] ELSE sum[n] + d[n + 1]]
             h == [i \in 0 .. n + 1 |-> IF i = 0 THEN 0 ELSE g[i - 1] + d[i]]
  <2>2. \A i \in 0 .. n : sum[i] = IF i = 0 THEN 0 ELSE sum[i - 1] + d[i]
    BY <2>1 DEF RunningTotal
  <2>3. \A i \in 0 .. n + 1 : g[i] = h[i]
    <3> TAKE i \in 0 .. n + 1
    <3>1. CASE i = 0
      BY <2>2, <3>1
    <3>2. CASE i # 0 /\ i <= n
      <4>1. i \in 0 .. n /\ i - 1 \in 0 .. n + 1 /\ i - 1 <= n
        BY <3>2
      <4>2. g[i] = sum[i] /\ g[i - 1] = sum[i - 1] /\ h[i] = g[i - 1] + d[i]
        BY <3>2, <4>1
      <4>3. sum[i] = sum[i - 1] + d[i]
        BY <2>2, <3>2, <4>1
      <4> QED
        BY <4>2, <4>3
    <3>3. CASE i = n + 1
      BY <3>3
    <3> QED
      BY <3>1, <3>2, <3>3
  <2>4. g = h
    BY <2>3
  <2>5. RunningTotal(g, d, n + 1)
    BY <2>4, Zenon DEF RunningTotal
  <2> HIDE DEF g
  <2> QED
    BY <2>5
<1>3. Nat \subseteq S
  <2> HIDE DEF S
  <2> QED
    BY <1>1, <1>2, SetInduction
<1> QED
  BY <1>3

\* What Total computes.
LEMMA TotalSums ==
  ASSUME NEW d, NEW n \in Nat
  PROVE  \E sum : /\ Total(d, n) = sum[n]
                  /\ sum[0] = 0
                  /\ \A i \in 1 .. n : sum[i] = sum[i - 1] + d[i]
<1> DEFINE sum == CHOOSE sum : RunningTotal(sum, d, n)
<1>1. RunningTotal(sum, d, n)
  <2>1. \E f : RunningTotal(f, d, n)
    BY RunningTotalExists
  <2> QED
    BY <2>1, Zenon
<1>2. Total(d, n) = sum[n]
  BY DEF Total, RunningTotal
<1> HIDE DEF sum
<1>3. \A i \in 0 .. n : sum[i] = IF i = 0 THEN 0 ELSE sum[i - 1] + d[i]
  BY <1>1 DEF RunningTotal
<1>4. sum[0] = 0 /\ \A i \in 1 .. n : sum[i] = sum[i - 1] + d[i]
  BY <1>3
<1> QED
  BY <1>2, <1>4

\* One more term.
LEMMA TotalGrows ==
  ASSUME NEW n \in Nat, NEW d, NEW e, \A i \in 1 .. n : d[i] \in Int /\ e[i] = d[i], e[n + 1] \in Int
  PROVE  Total(d, n) \in Int /\ Total(e, n + 1) = Total(d, n) + e[n + 1]
<1>1. PICK s : /\ Total(d, n) = s[n]
               /\ s[0] = 0
               /\ \A i \in 1 .. n : s[i] = s[i - 1] + d[i]
  BY TotalSums
<1>2. PICK t : /\ Total(e, n + 1) = t[n + 1]
               /\ t[0] = 0
               /\ \A i \in 1 .. n + 1 : t[i] = t[i - 1] + e[i]
  BY TotalSums
<1> DEFINE P == {k \in Nat : k \in 0 .. n => s[k] \in Int /\ t[k] = s[k]}
<1>3. 0 \in P
  BY <1>1, <1>2
<1>4. ASSUME NEW k \in Nat, k \in P
      PROVE  k + 1 \in P
  <2>1. SUFFICES ASSUME k + 1 \in 0 .. n
                 PROVE  s[k + 1] \in Int /\ t[k + 1] = s[k + 1]
    OBVIOUS
  <2>2. /\ s[k] \in Int /\ t[k] = s[k] /\ k + 1 \in 1 .. n /\ k + 1 \in 1 .. n + 1
        /\ (k + 1) - 1 = k
    BY <1>4, <2>1
  <2>3. s[k + 1] = s[k] + d[k + 1] /\ t[k + 1] = t[k] + e[k + 1]
    BY <1>1, <1>2, <2>2
  <2> QED
    BY <2>2, <2>3
<1>5. s[n] \in Int /\ t[n] = s[n]
  <2>1. n \in P
    <3> HIDE DEF P
    <3> QED
      BY <1>3, <1>4, SetInduction
  <2> QED
    BY <2>1
<1>6. t[n + 1] = t[n] + e[n + 1]
  BY <1>2
<1> QED
  BY <1>1, <1>2, <1>5, <1>6

\* One term changes by k.
MovesAt(d, e, n, id, k) ==
  \A i \in 1 .. n : d[i] \in Int /\ e[i] = IF i = id THEN d[i] + k ELSE d[i]

\* So does the sum.
LEMMA TotalMoves ==
  ASSUME NEW n \in Nat, NEW id \in 1 .. n, NEW d, NEW e, NEW k \in Int,
         MovesAt(d, e, n, id, k)
  PROVE  Total(d, n) \in Int /\ Total(e, n) = Total(d, n) + k
<1>1. PICK s : /\ Total(d, n) = s[n]
               /\ s[0] = 0
               /\ \A i \in 1 .. n : s[i] = s[i - 1] + d[i]
  BY TotalSums
<1>2. PICK t : /\ Total(e, n) = t[n]
               /\ t[0] = 0
               /\ \A i \in 1 .. n : t[i] = t[i - 1] + e[i]
  BY TotalSums
<1> DEFINE Good(j) == s[j] \in Int /\ t[j] = IF j < id THEN s[j] ELSE s[j] + k
           P == {j \in Nat : j \in 0 .. n => Good(j)}
<1>3. 0 \in P
  BY <1>1, <1>2
<1>4. ASSUME NEW j \in Nat, j \in P
      PROVE  j + 1 \in P
  <2>1. SUFFICES ASSUME j + 1 \in 0 .. n
                 PROVE  Good(j + 1)
    OBVIOUS
  <2>2. Good(j) /\ j + 1 \in 1 .. n /\ (j + 1) - 1 = j
    BY <1>4, <2>1
  <2>3. s[j + 1] = s[j] + d[j + 1] /\ t[j + 1] = t[j] + e[j + 1]
    BY <1>1, <1>2, <2>2
  <2>4. d[j + 1] \in Int /\ e[j + 1] = IF j + 1 = id THEN d[j + 1] + k ELSE d[j + 1]
    BY <2>2 DEF MovesAt
  <2>5. CASE j + 1 = id
    BY <2>2, <2>3, <2>4, <2>5
  <2>6. CASE j + 1 < id
    BY <2>2, <2>3, <2>4, <2>6
  <2>7. CASE j + 1 > id
    BY <2>2, <2>3, <2>4, <2>7
  <2> QED
    BY <2>5, <2>6, <2>7
<1>5. Good(n)
  <2>1. n \in P
    <3> HIDE DEF P
    <3> QED
      BY <1>3, <1>4, SetInduction
  <2> QED
    BY <2>1
<1> QED
  BY <1>1, <1>2, <1>5


-----------------------------------------------------------------------------
(***************************************************************************)
(* The invariant.  A ticket logs a payee when it burns, which it does once *)
(* and with its verdict: a ticket that is Open or still held has brought   *)
(* nobody anything.                                                        *)
(***************************************************************************)
Net(a, id) == PaidOut(a, id) - PaidIn(a, id)

PayeesAreLast ==
  \A id \in Ids : events[id].payee # NoAccount =>
                    ownerOf[id] = NoAccount /\ parlays[id].status \in {"Void", "Won"}

BalanceInv == TypeOK /\ PayeesAreLast /\ BalancesFollowEvents

\* What one ticket brought an account, verdict by verdict.
LEMMA NetOf ==
  ASSUME TypeOK, NEW id \in Ids, NEW a \in Accounts
  PROVE  /\ parlays[id] \in Parlay /\ events[id] \in Event
         /\ parlays[id].premium \in Nat /\ parlays[id].maxPayout \in Nat
         /\ PaidIn(a, id) \in Int /\ PaidOut(a, id) \in Int /\ Net(a, id) \in Int
         /\ parlays[id].status = "Open" => PaidOut(a, id) = 0
         /\ parlays[id].status = "Dead" =>
              PaidOut(a, id) = IF parlays[id].writer = a THEN parlays[id].maxPayout ELSE 0
         /\ parlays[id].status = "Void" =>
              PaidOut(a, id) = (IF events[id].payee = a THEN parlays[id].premium ELSE 0)
                + (IF parlays[id].writer = a THEN parlays[id].maxPayout - parlays[id].premium ELSE 0)
         /\ parlays[id].status = "Won" =>
              PaidOut(a, id) = IF events[id].payee = a THEN parlays[id].maxPayout ELSE 0
<1>1. parlays[id] \in Parlay /\ events[id] \in Event
  BY DEF TypeOK, Ids
<1>2. parlays[id].premium \in Nat /\ parlays[id].maxPayout \in Nat /\ parlays[id].status \in Statuses
  BY <1>1 DEF Parlay
<1>3. PaidIn(a, id) \in Int
  BY <1>2 DEF PaidIn
<1>4. parlays[id].status = "Open" => PaidOut(a, id) = 0
  BY DEF PaidOut
<1>5. parlays[id].status = "Dead" =>
        PaidOut(a, id) = IF parlays[id].writer = a THEN parlays[id].maxPayout ELSE 0
  BY DEF PaidOut
<1>6. parlays[id].status = "Void" =>
        PaidOut(a, id) = (IF events[id].payee = a THEN parlays[id].premium ELSE 0)
          + (IF parlays[id].writer = a THEN parlays[id].maxPayout - parlays[id].premium ELSE 0)
  BY DEF PaidOut
<1>7. parlays[id].status = "Won" =>
        PaidOut(a, id) = IF events[id].payee = a THEN parlays[id].maxPayout ELSE 0
  BY DEF PaidOut
<1>8. PaidOut(a, id) \in Int
  BY <1>2, <1>4, <1>5, <1>6, <1>7 DEF Statuses
<1> QED
  BY <1>1, <1>2, <1>3, <1>4, <1>5, <1>6, <1>7, <1>8 DEF Net

\* The property, account by account, in terms of Net.
LEMMA BalanceOf ==
  ASSUME NEW a \in Accounts
  PROVE  BalancesFollowEvents =>
           usdc[a] = InitialUsdc[a] - (IF a = Donor THEN gifts ELSE 0)
                     + Total([id \in Ids |-> Net(a, id)], Len(parlays))
BY DEF BalancesFollowEvents, Net

\* One ticket changes, and each account's balance by as much as its net.
LEMMA OneTicketPays ==
  ASSUME BalanceInv, TypeOK', NEW id \in Ids, Len(parlays') = Len(parlays), gifts' = gifts,
         \A j \in Ids : j # id => parlays'[j] = parlays[j] /\ events'[j] = events[j],
         \A a \in Accounts : \E k \in Int : usdc'[a] = usdc[a] + k /\ Net(a, id)' = Net(a, id) + k
  PROVE  BalancesFollowEvents'
<1>1. SUFFICES ASSUME NEW a \in Accounts
               PROVE  usdc'[a] = InitialUsdc[a] - (IF a = Donor THEN gifts' ELSE 0)
                        + Total([j \in Ids' |-> Net(a, j)'], Len(parlays'))
  BY DEF BalancesFollowEvents, Net
<1>2. PICK n \in Nat : n = Len(parlays)
  BY DEF BalanceInv, TypeOK
<1>3. Ids = 1 .. n /\ Ids' = 1 .. n
  BY <1>2 DEF Ids
<1> DEFINE d == [j \in Ids |-> Net(a, j)]
           e == [j \in Ids' |-> Net(a, j)']
<1>4. PICK k \in Int : usdc'[a] = usdc[a] + k /\ Net(a, id)' = Net(a, id) + k
  OBVIOUS
<1>5. \A j \in 1 .. n : d[j] \in Int
  BY <1>3, NetOf DEF BalanceInv
<1>6. \A j \in 1 .. n : e[j] = IF j = id THEN d[j] + k ELSE d[j]
  <2> TAKE j \in 1 .. n
  <2>1. CASE j = id
    BY <1>3, <1>4, <2>1
  <2>2. CASE j # id
    <3>1. Net(a, j)' = Net(a, j)
      BY <1>3, <2>2 DEF Net, PaidIn, PaidOut
    <3> QED
      BY <1>3, <2>2, <3>1
  <2> QED
    BY <2>1, <2>2
<1>7. usdc[a] = InitialUsdc[a] - (IF a = Donor THEN gifts ELSE 0) + Total(d, n)
  BY <1>2, BalanceOf DEF BalanceInv
<1>8. usdc[a] \in Nat /\ InitialUsdc[a] \in Nat /\ gifts \in Nat
  BY ConstantsAssumption DEF BalanceInv, TypeOK
<1> HIDE DEF d, e
<1>9. Total(d, n) \in Int /\ Total(e, n) = Total(d, n) + k
  <2>1. MovesAt(d, e, n, id, k)
    BY <1>5, <1>6 DEF MovesAt
  <2>2. n \in Nat /\ id \in 1 .. n /\ k \in Int
    BY <1>3
  <2> QED
    BY <2>1, <2>2, TotalMoves
<1> QED
  BY <1>2, <1>4, <1>7, <1>8, <1>9 DEF e

\* A payment at one account.
LEMMA PaysAt ==
  ASSUME NEW bal \in [Accounts -> Nat], NEW to, NEW n \in Nat, NEW a \in Accounts
  PROVE  /\ Pays(bal, to, n) \in [Accounts -> Nat]
         /\ Pays(bal, to, n)[a] = bal[a] + (IF to = a THEN n ELSE 0)
<1>1. Pays(bal, to, n)[a] = bal[a] + (IF to = a THEN n ELSE 0)
  BY DEF Pays
<1> QED
  BY <1>1, PaysType

\* A dead ticket's escrow goes back to the writer that funded it.
LEMMA DeadPays ==
  ASSUME BalanceInv, TypeOK', NEW id \in Ids, ResolveDead(id)
  PROVE  PayeesAreLast' /\ BalancesFollowEvents'
<1> USE DEF BalanceInv
<1>0. /\ Len(parlays') = Len(parlays) /\ Ids' = Ids /\ gifts' = gifts
      /\ UNCHANGED <<ownerOf, events>>
      /\ \A j \in Ids : parlays'[j] = IF j = id THEN [parlays[j] EXCEPT !.status = "Dead"] ELSE parlays[j]
      /\ parlays[id].status = "Open"
      /\ usdc' = Pays(usdc, parlays[id].writer, parlays[id].maxPayout)
  BY SetStatusEffect DEF ResolveDead, Statuses, Ids, Funder
<1>1. parlays'[id] = [parlays[id] EXCEPT !.status = "Dead"] /\ parlays[id] \in Parlay
  BY <1>0, TicketTypes
<1>2. /\ parlays'[id].status = "Dead" /\ parlays'[id].writer = parlays[id].writer
      /\ parlays'[id].premium = parlays[id].premium /\ parlays'[id].maxPayout = parlays[id].maxPayout
  BY <1>1 DEF Parlay
<1>3. PayeesAreLast'
  BY <1>0, <1>2 DEF PayeesAreLast
<1>4. ASSUME NEW a \in Accounts
      PROVE  \E k \in Int : usdc'[a] = usdc[a] + k /\ Net(a, id)' = Net(a, id) + k
  <2> DEFINE k == IF parlays[id].writer = a THEN parlays[id].maxPayout ELSE 0
  <2>1. parlays[id].maxPayout \in Nat /\ PaidOut(a, id) = 0 /\ PaidIn(a, id) \in Int
    BY <1>0, NetOf
  <2>2. usdc'[a] = usdc[a] + k
    <3>1. usdc \in [Accounts -> Nat]
      BY DEF TypeOK
    <3>2. Pays(usdc, parlays[id].writer, parlays[id].maxPayout)[a] = usdc[a] + k
      BY <2>1, <3>1, PaysAt
    <3> QED
      BY <1>0, <3>2
  <2>3. PaidIn(a, id)' = PaidIn(a, id)
    BY <1>0, <1>2 DEF PaidIn
  <2>4. PaidOut(a, id)' = k
    BY <1>2 DEF PaidOut
  <2>5. k \in Int
    BY <2>1
  <2> HIDE DEF k
  <2>6. Net(a, id)' = Net(a, id) + k
    BY <2>1, <2>3, <2>4, <2>5 DEF Net
  <2> QED
    BY <2>2, <2>5, <2>6
<1>5. BalancesFollowEvents'
  BY <1>0, <1>4, OneTicketPays
<1> QED
  BY <1>3, <1>5

\* The ticket's log names its last holder.
LEMMA BurnLogs ==
  ASSUME TypeOK, NEW id \in Ids, Burn(id)
  PROVE  /\ events'[id].payee = ownerOf[id] /\ events'[id].taker = events[id].taker
         /\ ownerOf'[id] = NoAccount
         /\ \A j \in Ids : j # id => events'[j] = events[j] /\ ownerOf'[j] = ownerOf[j]
<1>1. events[id] \in Event
  BY DEF TypeOK, Ids
<1>2. events'[id] = [events[id] EXCEPT !.payee = ownerOf[id]]
  BY BurnEffect
<1>3. events'[id].payee = ownerOf[id] /\ events'[id].taker = events[id].taker
  BY <1>1, <1>2 DEF Event
<1> QED
  BY <1>3, BurnEffect

\* A void ticket's premium goes to its holder, the rest to its writer.
LEMMA VoidPays ==
  ASSUME BalanceInv, TypeOK', NEW id \in Ids, ResolveVoid(id)
  PROVE  PayeesAreLast' /\ BalancesFollowEvents'
<1> USE DEF BalanceInv
<1>0. /\ Len(parlays') = Len(parlays) /\ Ids' = Ids /\ gifts' = gifts
      /\ \A j \in Ids : parlays'[j] = IF j = id THEN [parlays[j] EXCEPT !.status = "Void"] ELSE parlays[j]
      /\ parlays[id].status = "Open" /\ Burn(id)
  BY SetStatusEffect DEF ResolveVoid, Statuses, Ids
<1>1. usdc' = Pays(Pays(usdc, ownerOf[id], parlays[id].premium), parlays[id].writer,
                   parlays[id].maxPayout - parlays[id].premium)
  BY DEF ResolveVoid, Holder, Funder
<1>2. parlays'[id] = [parlays[id] EXCEPT !.status = "Void"] /\ parlays[id] \in Parlay
  BY <1>0, TicketTypes
<1>3. /\ parlays'[id].status = "Void" /\ parlays'[id].writer = parlays[id].writer
      /\ parlays'[id].premium = parlays[id].premium /\ parlays'[id].maxPayout = parlays[id].maxPayout
  BY <1>2 DEF Parlay
<1>4. /\ events'[id].payee = ownerOf[id] /\ events'[id].taker = events[id].taker
      /\ ownerOf'[id] = NoAccount
      /\ \A j \in Ids : j # id => events'[j] = events[j] /\ ownerOf'[j] = ownerOf[j]
  BY <1>0, BurnLogs
<1>5. PayeesAreLast'
  BY <1>0, <1>3, <1>4 DEF PayeesAreLast
<1>6. ASSUME NEW a \in Accounts
      PROVE  \E k \in Int : usdc'[a] = usdc[a] + k /\ Net(a, id)' = Net(a, id) + k
  <2> DEFINE kh == IF ownerOf[id] = a THEN parlays[id].premium ELSE 0
             kw == IF parlays[id].writer = a THEN parlays[id].maxPayout - parlays[id].premium ELSE 0
  <2>1. /\ parlays[id].maxPayout \in Nat /\ parlays[id].premium \in Nat
        /\ PaidOut(a, id) = 0 /\ PaidIn(a, id) \in Int
    BY <1>0, NetOf
  <2>2. parlays[id].maxPayout - parlays[id].premium \in Nat
    <3>1. parlays[id].premium < parlays[id].maxPayout
      BY <1>2 DEF Parlay
    <3> QED
      BY <2>1, <3>1
  <2>3. usdc'[a] = usdc[a] + kh + kw
    <3> DEFINE mid == Pays(usdc, ownerOf[id], parlays[id].premium)
    <3>1. mid \in [Accounts -> Nat] /\ mid[a] = usdc[a] + kh
      <4>1. usdc \in [Accounts -> Nat]
        BY DEF TypeOK
      <4> QED
        BY <2>1, <4>1, PaysAt
    <3>2. usdc' = Pays(mid, parlays[id].writer, parlays[id].maxPayout - parlays[id].premium)
      BY <1>1
    <3> HIDE DEF mid
    <3>3. usdc'[a] = mid[a] + kw
      BY <2>2, <3>1, <3>2, PaysAt
    <3> QED
      BY <3>1, <3>3
  <2>4. PaidIn(a, id)' = PaidIn(a, id)
    BY <1>3, <1>4 DEF PaidIn
  <2>5. PaidOut(a, id)' = kh + kw
    BY <1>3, <1>4 DEF PaidOut
  <2>6. kh \in Int /\ kw \in Int /\ usdc[a] \in Int
    <3>1. usdc \in [Accounts -> Nat]
      BY DEF TypeOK
    <3>2. usdc[a] \in Nat
      BY <3>1
    <3> QED
      BY <2>1, <2>2, <3>2
  <2> HIDE DEF kh, kw
  <2>7. Net(a, id)' = Net(a, id) + (kh + kw)
    BY <2>1, <2>4, <2>5, <2>6 DEF Net
  <2>8. usdc'[a] = usdc[a] + (kh + kw) /\ kh + kw \in Int
    BY <2>3, <2>6
  <2> QED
    BY <2>7, <2>8
<1>7. BalancesFollowEvents'
  BY <1>0, <1>4, <1>6, OneTicketPays
<1> QED
  BY <1>5, <1>7

\* A claim pays the whole escrow to the holder.
LEMMA ClaimPays ==
  ASSUME BalanceInv, TypeOK', NEW id \in Ids, Claim(id)
  PROVE  PayeesAreLast' /\ BalancesFollowEvents'
<1> USE DEF BalanceInv
<1>0. /\ Len(parlays') = Len(parlays) /\ Ids' = Ids /\ gifts' = gifts
      /\ \A j \in Ids : parlays'[j] = IF j = id THEN [parlays[j] EXCEPT !.status = "Won"] ELSE parlays[j]
      /\ parlays[id].status \in {"Open", "Won"} /\ Burn(id)
      /\ ownerOf[id] \in Accounts
  BY SetStatusEffect DEF Claim, Statuses, Ids
<1>1. usdc' = Pays(usdc, ownerOf[id], parlays[id].maxPayout)
  BY DEF Claim
<1>2. parlays'[id] = [parlays[id] EXCEPT !.status = "Won"] /\ parlays[id] \in Parlay
  BY <1>0, TicketTypes
<1>3. /\ parlays'[id].status = "Won" /\ parlays'[id].writer = parlays[id].writer
      /\ parlays'[id].premium = parlays[id].premium /\ parlays'[id].maxPayout = parlays[id].maxPayout
  BY <1>2 DEF Parlay
<1>4. /\ events'[id].payee = ownerOf[id] /\ events'[id].taker = events[id].taker
      /\ ownerOf'[id] = NoAccount
      /\ \A j \in Ids : j # id => events'[j] = events[j] /\ ownerOf'[j] = ownerOf[j]
  BY <1>0, BurnLogs
<1>5. PayeesAreLast'
  BY <1>0, <1>3, <1>4 DEF PayeesAreLast
<1>6. events[id].payee = NoAccount
  BY <1>0, ConstantsAssumption DEF PayeesAreLast
<1>7. ASSUME NEW a \in Accounts
      PROVE  \E k \in Int : usdc'[a] = usdc[a] + k /\ Net(a, id)' = Net(a, id) + k
  <2> DEFINE k == IF ownerOf[id] = a THEN parlays[id].maxPayout ELSE 0
  <2>1. a # NoAccount
    BY ConstantsAssumption
  <2>2. parlays[id].maxPayout \in Nat /\ PaidIn(a, id) \in Int
    BY NetOf
  <2>3. PaidOut(a, id) = 0
    <3>1. CASE parlays[id].status = "Open"
      BY <3>1, NetOf
    <3>2. CASE parlays[id].status = "Won"
      BY <1>6, <2>1, <3>2, NetOf
    <3> QED
      BY <1>0, <3>1, <3>2
  <2>4. usdc'[a] = usdc[a] + k
    <3>1. usdc \in [Accounts -> Nat]
      BY DEF TypeOK
    <3>2. Pays(usdc, ownerOf[id], parlays[id].maxPayout)[a] = usdc[a] + k
      BY <2>2, <3>1, PaysAt
    <3> QED
      BY <1>1, <3>2
  <2>5. PaidIn(a, id)' = PaidIn(a, id)
    BY <1>3, <1>4 DEF PaidIn
  <2>6. PaidOut(a, id)' = k
    BY <1>3, <1>4 DEF PaidOut
  <2>7. k \in Int
    BY <2>2
  <2> HIDE DEF k
  <2>8. Net(a, id)' = Net(a, id) + k
    BY <2>2, <2>3, <2>5, <2>6, <2>7 DEF Net
  <2> QED
    BY <2>4, <2>7, <2>8
<1>8. BalancesFollowEvents'
  BY <1>0, <1>4, <1>7, OneTicketPays
<1> QED
  BY <1>5, <1>8

\* A won verdict alone moves no money.
LEMMA WonPaysNothingYet ==
  ASSUME BalanceInv, TypeOK', NEW id \in Ids, ResolveWon(id)
  PROVE  PayeesAreLast' /\ BalancesFollowEvents'
<1> USE DEF BalanceInv
<1>0. /\ Len(parlays') = Len(parlays) /\ Ids' = Ids
      /\ \A j \in Ids : parlays'[j] = IF j = id THEN [parlays[j] EXCEPT !.status = "Won"] ELSE parlays[j]
      /\ parlays[id].status = "Open"
  BY SetStatusEffect DEF ResolveWon, Statuses, Ids
<1>1. UNCHANGED <<ownerOf, events, usdc, gifts>>
  BY DEF ResolveWon, money
<1>2. parlays'[id] = [parlays[id] EXCEPT !.status = "Won"] /\ parlays[id] \in Parlay
  BY <1>0, TicketTypes
<1>3. /\ parlays'[id].status = "Won" /\ parlays'[id].writer = parlays[id].writer
      /\ parlays'[id].premium = parlays[id].premium /\ parlays'[id].maxPayout = parlays[id].maxPayout
  BY <1>2 DEF Parlay
<1>4. PayeesAreLast'
  BY <1>0, <1>1, <1>3 DEF PayeesAreLast
<1>5. events[id].payee = NoAccount
  BY <1>0 DEF PayeesAreLast
<1>6. ASSUME NEW a \in Accounts
      PROVE  \E k \in Int : usdc'[a] = usdc[a] + k /\ Net(a, id)' = Net(a, id) + k
  <2>1. a # NoAccount
    BY ConstantsAssumption
  <2>2. PaidOut(a, id) = 0 /\ PaidIn(a, id) \in Int
    BY <1>0, NetOf
  <2>3. PaidIn(a, id)' = PaidIn(a, id)
    BY <1>1, <1>3 DEF PaidIn
  <2>4. PaidOut(a, id)' = 0
    BY <1>1, <1>3, <1>5, <2>1 DEF PaidOut
  <2>5. usdc'[a] = usdc[a] + 0 /\ 0 \in Int
    BY <1>1 DEF TypeOK
  <2>6. Net(a, id)' = Net(a, id) + 0
    BY <2>2, <2>3, <2>4 DEF Net
  <2> QED
    BY <2>5, <2>6
<1>7. BalancesFollowEvents'
  BY <1>0, <1>1, <1>6, OneTicketPays
<1> QED
  BY <1>4, <1>7

\* A mint adds a ticket whose net is what its taker and its writer put in.
LEMMA MintPaysIn ==
  ASSUME BalanceInv, TypeOK', NEW q \in Quotes, Mint(q)
  PROVE  PayeesAreLast' /\ BalancesFollowEvents'
<1> USE DEF BalanceInv
<1>0. PICK n \in Nat : n = Len(parlays)
  BY DEF TypeOK
<1> DEFINE p == [legs |-> q.legs, writer |-> writer, premium |-> q.premium,
                 maxPayout |-> q.maxPayout, status |-> "Open"]
           l == [taker |-> q.taker, quoteId |-> q.quoteId, payee |-> NoAccount]
<1>1. /\ Len(parlays') = n + 1 /\ parlays'[n + 1] = p /\ events'[n + 1] = l
      /\ \A j \in Ids : parlays'[j] = parlays[j] /\ events'[j] = events[j] /\ ownerOf'[j] = ownerOf[j]
      /\ q \in Quote
  BY <1>0, MintAppends
<1>2. Ids = 1 .. n /\ Ids' = 1 .. n + 1
  BY <1>0, <1>1 DEF Ids
<1>3. /\ parlays'[n + 1].status = "Open" /\ parlays'[n + 1].writer = writer
      /\ parlays'[n + 1].premium = q.premium /\ parlays'[n + 1].maxPayout = q.maxPayout
      /\ events'[n + 1].taker = q.taker /\ events'[n + 1].payee = NoAccount
  BY <1>1
<1> HIDE DEF p, l
<1>4. PayeesAreLast'
  <2> SUFFICES ASSUME NEW j \in Ids', events'[j].payee # NoAccount
               PROVE  ownerOf'[j] = NoAccount /\ parlays'[j].status \in {"Void", "Won"}
    BY DEF PayeesAreLast
  <2>1. j \in Ids
    BY <1>2, <1>3
  <2> QED
    BY <1>1, <2>1 DEF PayeesAreLast
<1>5. /\ q.premium \in Nat /\ q.maxPayout \in Nat /\ HouseShare(q) = q.maxPayout - q.premium
      /\ HouseShare(q) \in Nat /\ gifts' = gifts
  BY SMTT(40), <1>1 DEF Quote, HouseShare, Mint, PriceAccepted
<1>6. SUFFICES ASSUME NEW a \in Accounts
               PROVE  usdc'[a] = InitialUsdc[a] - (IF a = Donor THEN gifts' ELSE 0)
                        + Total([j \in Ids' |-> Net(a, j)'], Len(parlays'))
  BY <1>4 DEF BalancesFollowEvents, Net
<1> DEFINE d == [j \in Ids |-> Net(a, j)]
           e == [j \in Ids' |-> Net(a, j)']
           kt == IF q.taker = a THEN q.premium ELSE 0
           kw == IF writer = a THEN HouseShare(q) ELSE 0
<1>7. usdc'[a] = usdc[a] - kt - kw
  <2>1. /\ usdc' = Pulled(Pulled(usdc, q.taker, q.premium), writer, HouseShare(q))
        /\ usdc \in [Accounts -> Nat]
    BY DEF Mint, TypeOK
  <2> DEFINE mid == Pulled(usdc, q.taker, q.premium)
  <2>2. DOMAIN mid = Accounts /\ mid[a] = usdc[a] - kt
    BY <1>5, <2>1 DEF Pulled
  <2>3. usdc' = [mid EXCEPT ![writer] = @ - HouseShare(q)]
    BY <2>1 DEF Pulled
  <2> HIDE DEF mid
  <2>4. usdc'[a] = IF writer = a THEN mid[a] - HouseShare(q) ELSE mid[a]
    BY <2>2, <2>3
  <2>5. usdc[a] \in Nat /\ kt \in Nat
    BY <1>5, <2>1
  <2> QED
    BY <1>5, <2>2, <2>4, <2>5
<1>8. \A j \in 1 .. n : d[j] \in Int /\ e[j] = d[j]
  <2> TAKE j \in 1 .. n
  <2>1. j \in Ids /\ j \in Ids' /\ Net(a, j) \in Int
    BY <1>2, NetOf
  <2>2. Net(a, j)' = Net(a, j)
    BY <1>1, <2>1 DEF Net, PaidIn, PaidOut
  <2> QED
    BY <2>1, <2>2
<1>9. e[n + 1] = 0 - (kt + kw) /\ kt \in Nat /\ kw \in Nat
  <2>1. PaidOut(a, n + 1)' = 0
    BY <1>3 DEF PaidOut
  <2>2. PaidIn(a, n + 1)' = kt + kw
    BY <1>3, <1>5 DEF PaidIn
  <2>3. n + 1 \in Ids'
    BY <1>2
  <2> QED
    BY <1>5, <2>1, <2>2, <2>3 DEF Net
<1>10. usdc[a] = InitialUsdc[a] - (IF a = Donor THEN gifts ELSE 0) + Total(d, n)
  BY <1>0, BalanceOf
<1>11. usdc[a] \in Nat /\ InitialUsdc[a] \in Nat /\ gifts \in Nat
  BY ConstantsAssumption DEF TypeOK
<1> HIDE DEF d, e, kt, kw
<1>12. Total(d, n) \in Int /\ Total(e, n + 1) = Total(d, n) + e[n + 1]
  BY <1>8, <1>9, TotalGrows
<1>13. PICK gift \in Nat : gift = IF a = Donor THEN gifts ELSE 0
  BY <1>11
<1>14. Total(e, n + 1) = Total(d, n) - kt - kw
  BY <1>9, <1>12
<1>15. usdc'[a] = InitialUsdc[a] - gift + Total(e, n + 1)
  BY <1>7, <1>9, <1>10, <1>11, <1>12, <1>13, <1>14
<1> QED
  BY <1>1, <1>5, <1>13, <1>15 DEF e

\* Balances and history stay what they are.
LEMMA HistoryKept ==
  ASSUME BalancesFollowEvents, UNCHANGED parlays, UNCHANGED events, UNCHANGED usdc,
         UNCHANGED gifts
  PROVE  BalancesFollowEvents'
<1>1. SUFFICES ASSUME NEW a \in Accounts
               PROVE  usdc'[a] = InitialUsdc[a] - (IF a = Donor THEN gifts' ELSE 0)
                        + Total([id \in Ids' |-> Net(a, id)'], Len(parlays'))
  BY DEF BalancesFollowEvents, Net
<1>2. Ids' = Ids
  BY DEF Ids
<1>3. \A id \in Ids : Net(a, id)' = Net(a, id)
  BY DEF Net, PaidIn, PaidOut
<1>4. [id \in Ids' |-> Net(a, id)'] = [id \in Ids |-> Net(a, id)]
  BY <1>2, <1>3
<1>5. usdc[a] = InitialUsdc[a] - (IF a = Donor THEN gifts ELSE 0)
                + Total([id \in Ids |-> Net(a, id)], Len(parlays))
  BY BalanceOf
<1> QED
  BY <1>4, <1>5

\* Every transaction keeps the balances and the history in step.
LEMMA NextBalanceInv == BalanceInv /\ [Next]_vars => BalanceInv'
<1> SUFFICES ASSUME BalanceInv, [Next]_vars, TypeOK'
             PROVE  PayeesAreLast' /\ BalancesFollowEvents'
  BY NextTypeOK DEF BalanceInv
<1>1. ASSUME UNCHANGED <<parlays, events, ownerOf, usdc, gifts>>
      PROVE  PayeesAreLast' /\ BalancesFollowEvents'
  <2>1. PayeesAreLast'
    BY <1>1 DEF BalanceInv, PayeesAreLast, Ids
  <2>2. BalancesFollowEvents'
    BY <1>1, HistoryKept DEF BalanceInv
  <2> QED
    BY <2>1, <2>2
<1>2. ASSUME NEW caller \in Accounts, NEW x,
             \/ SetOwner(caller, x) \/ SetLegRegistrar(caller, x) \/ SetWriter(caller, x)
             \/ SetQuoteSigner(caller, x) \/ SetMinPremiumBps(caller, x) \/ AllowLeg(caller, x)
      PROVE  PayeesAreLast' /\ BalancesFollowEvents'
  BY <1>1, <1>2 DEF SetOwner, SetLegRegistrar, SetWriter, SetQuoteSigner,
                    SetMinPremiumBps, AllowLeg, tickets, money
<1>3. ASSUME NEW x, NEW y, Approve(x, y) \/ SettleLeg(x, y)
      PROVE  PayeesAreLast' /\ BalancesFollowEvents'
  BY <1>1, <1>3 DEF Approve, SettleLeg, tickets, money
<1>4. ASSUME Tick \/ UNCHANGED vars
      PROVE  PayeesAreLast' /\ BalancesFollowEvents'
  BY <1>1, <1>4 DEF Tick, vars, tickets, money
<1>5. CASE Donate
  <2>1. /\ UNCHANGED <<parlays, events, ownerOf>>
        /\ usdc' = [usdc EXCEPT ![Donor] = @ - 1] /\ gifts' = gifts + 1
    BY <1>5 DEF Donate, tickets
  <2>2. PayeesAreLast'
    BY <2>1 DEF BalanceInv, PayeesAreLast, Ids
  <2>3. ASSUME NEW a \in Accounts
        PROVE  usdc'[a] = InitialUsdc[a] - (IF a = Donor THEN gifts' ELSE 0)
                 + Total([id \in Ids' |-> Net(a, id)'], Len(parlays'))
    <3> DEFINE d == [id \in Ids |-> Net(a, id)]
               t == Total(d, Len(parlays))
    <3>1. [id \in Ids' |-> Net(a, id)'] = d /\ Len(parlays') = Len(parlays)
      BY <2>1 DEF Net, PaidIn, PaidOut, Ids
    <3>2. usdc[a] = InitialUsdc[a] - (IF a = Donor THEN gifts ELSE 0) + t
      BY BalanceOf DEF BalanceInv
    <3>3. t \in Int
      <4>1. \A i \in 1 .. Len(parlays) : d[i] \in Int
        BY NetOf DEF BalanceInv, Ids
      <4> DEFINE m == Len(parlays)
                 e == [i \in 1 .. m + 1 |-> IF i <= m THEN d[i] ELSE 0]
      <4>2. m \in Nat
        BY DEF BalanceInv, TypeOK
      <4> HIDE DEF d, m
      <4>5. e[m + 1] = 0 /\ \A i \in 1 .. m : e[i] = d[i]
        BY <4>2
      <4> HIDE DEF e
      <4>3. \A i \in 1 .. m : d[i] \in Int /\ e[i] = d[i]
        BY <4>1, <4>5 DEF m
      <4>4. Total(d, m) \in Int
        BY <4>2, <4>3, <4>5, TotalGrows
      <4> QED
        BY <4>4 DEF m
    <3>4. usdc'[a] = IF a = Donor THEN usdc[a] - 1 ELSE usdc[a]
      BY <2>1 DEF BalanceInv, TypeOK
    <3>5. InitialUsdc[a] \in Nat /\ gifts \in Nat /\ usdc[a] \in Nat
      BY ConstantsAssumption DEF BalanceInv, TypeOK
    <3>6. Total([id \in Ids' |-> Net(a, id)'], Len(parlays')) = t
      BY <3>1
    <3> HIDE DEF d, t
    <3> QED
      BY <2>1, <3>2, <3>3, <3>4, <3>5, <3>6
  <2> QED
    BY <2>2, <2>3 DEF BalancesFollowEvents, Net
<1>6. ASSUME NEW id \in Ids, NEW to \in Accounts, TransferTicket(id, to)
      PROVE  PayeesAreLast' /\ BalancesFollowEvents'
  <2>1. /\ UNCHANGED <<parlays, events, usdc, gifts>> /\ Ids' = Ids
        /\ ownerOf[id] # NoAccount
    BY <1>6, ConstantsAssumption DEF TransferTicket, money, Ids
  <2>2. \A j \in Ids : ownerOf'[j] = IF j = id THEN to ELSE ownerOf[j]
    <3>1. ownerOf \in Seq(Accounts \union {NoAccount}) /\ Len(ownerOf) = Len(parlays)
      BY DEF BalanceInv, TypeOK
    <3>2. ownerOf' = [ownerOf EXCEPT ![id] = to]
      BY <1>6 DEF TransferTicket
    <3> QED
      BY <3>1, <3>2, ExceptSeq DEF Ids
  <2>3. PayeesAreLast'
    BY <2>1, <2>2 DEF BalanceInv, PayeesAreLast
  <2>4. BalancesFollowEvents'
    BY <2>1, HistoryKept DEF BalanceInv
  <2> QED
    BY <2>3, <2>4
<1> QED
  BY <1>2, <1>3, <1>4, <1>5, <1>6, MintPaysIn, DeadPays, VoidPays, WonPaysNothingYet, ClaimPays
  DEF Next

\* Every account has exactly what it started with, less its gifts and stakes, plus
\* what the tickets it wrote or held brought it, in whatever order tickets are minted,
\* change hands and end (ParlayVault.sol, resolveParlay and claim).
THEOREM BalancesFollow == Spec => []BalancesFollowEvents
<1>1. Init => BalanceInv
  <2> SUFFICES ASSUME Init
               PROVE  BalanceInv
    OBVIOUS
  <2>1. TypeOK
    BY ConstantsAssumption DEF Init, TypeOK, Statuses, Fractions
  <2>2. Ids = {} /\ Len(parlays) = 0 /\ gifts = 0 /\ usdc = InitialUsdc
    BY DEF Init, Ids
  <2>3. \A d : Total(d, 0) = 0
    BY TotalSums
  <2>4. BalancesFollowEvents
    <3> SUFFICES ASSUME NEW a \in Accounts
                 PROVE  usdc[a] = InitialUsdc[a] - (IF a = Donor THEN gifts ELSE 0)
                          + Total([id \in Ids |-> Net(a, id)], Len(parlays))
      BY DEF BalancesFollowEvents, Net
    <3> DEFINE d == [id \in Ids |-> Net(a, id)]
    <3> HIDE DEF d
    <3>1. Total(d, Len(parlays)) = 0
      BY <2>2, <2>3
    <3>2. (IF a = Donor THEN gifts ELSE 0) = 0
      BY <2>2
    <3>3. usdc[a] = InitialUsdc[a] /\ InitialUsdc[a] \in Nat
      BY <2>2, ConstantsAssumption
    <3> QED
      BY <3>1, <3>2, <3>3 DEF d
  <2>5. PayeesAreLast
    BY <2>2 DEF PayeesAreLast
  <2> QED
    BY <2>1, <2>4, <2>5 DEF BalanceInv
<1>2. BalanceInv => BalancesFollowEvents
  BY DEF BalanceInv
<1> QED
  BY <1>1, <1>2, NextBalanceInv, PTL DEF Spec

-----------------------------------------------------------------------------
(***************************************************************************)
(* The escrows.  A quote's ticket is well defined because no quote backs   *)
(* two (QuoteInv); a ticket that was won earlier still has its legs hit    *)
(* when it is claimed (VerdictInv), and one that is won keeps its escrow   *)
(* because an Open ticket has a holder (OpenTicketsHeld).                  *)
(***************************************************************************)
EscrowsInv == VerdictInv /\ QuoteInv

QuoteIds == {events[id].quoteId : id \in Ids}

TicketsKeyed ==
  /\ Tickets = [quoteId \in QuoteIds |-> Tickets[quoteId]]
  /\ \A id \in Ids : Tickets[events[id].quoteId] = Escrowed(id)

\* The escrow of a quote is that of the one ticket it backs.
LEMMA TicketsByQuote == QuoteBacksOneTicket => TicketsKeyed
<1> SUFFICES ASSUME QuoteBacksOneTicket
             PROVE  TicketsKeyed
  OBVIOUS
<1>1. ASSUME NEW id \in Ids
      PROVE  TicketOf(events[id].quoteId) = id
  <2>1. \E j \in Ids : events[j].quoteId = events[id].quoteId
    OBVIOUS
  <2>2. /\ TicketOf(events[id].quoteId) \in Ids
        /\ events[TicketOf(events[id].quoteId)].quoteId = events[id].quoteId
    BY <2>1, Zenon DEF TicketOf
  <2> QED
    BY <2>2 DEF QuoteBacksOneTicket
<1>2. Tickets = [quoteId \in QuoteIds |-> Escrowed(TicketOf(quoteId))]
  BY DEF Tickets, QuoteIds
<1>3. \A id \in Ids : Tickets[events[id].quoteId] = Escrowed(id)
  <2> SUFFICES ASSUME NEW id \in Ids
               PROVE  Tickets[events[id].quoteId] = Escrowed(id)
    OBVIOUS
  <2>1. events[id].quoteId \in QuoteIds
    BY DEF QuoteIds
  <2> QED
    BY <1>1, <1>2, <2>1
<1>4. Tickets = [quoteId \in QuoteIds |-> Tickets[quoteId]]
  BY <1>2
<1> QED
  BY <1>3, <1>4 DEF TicketsKeyed

\* A step that changes no ticket changes no escrow.
LEMMA EscrowsKept ==
  ASSUME TicketsKeyed, TicketsKeyed', Ids' = Ids,
         \A j \in Ids : events'[j].quoteId = events[j].quoteId,
         \A j \in Ids : Escrowed(j)' = Escrowed(j)
  PROVE  Tickets' = Tickets
<1>1. QuoteIds' = QuoteIds
  BY DEF QuoteIds
<1>2. ASSUME NEW k \in QuoteIds
      PROVE  Tickets'[k] = Tickets[k]
  <2>1. PICK j \in Ids : k = events[j].quoteId
    BY DEF QuoteIds
  <2>2. Tickets[k] = Escrowed(j) /\ Tickets'[k] = Escrowed(j)'
    BY <2>1 DEF TicketsKeyed
  <2> QED
    BY <2>2
<1>3. /\ Tickets = [quoteId \in QuoteIds |-> Tickets[quoteId]]
      /\ Tickets' = [quoteId \in QuoteIds |-> Tickets'[quoteId]]
  BY <1>1 DEF TicketsKeyed
<1> QED
  BY <1>2, <1>3

\* A step that changes one ticket changes the escrow of its quote.
LEMMA EscrowChanges ==
  ASSUME TicketsKeyed, TicketsKeyed', Ids' = Ids, NEW id \in Ids, QuoteBacksOneTicket,
         \A j \in Ids : events'[j].quoteId = events[j].quoteId,
         \A j \in Ids : j # id => Escrowed(j)' = Escrowed(j)
  PROVE  /\ events[id].quoteId \in DOMAIN Tickets
         /\ Tickets[events[id].quoteId] = Escrowed(id)
         /\ Tickets' = [Tickets EXCEPT ![events[id].quoteId] = Escrowed(id)']
<1> DEFINE k == events[id].quoteId
<1>1. QuoteIds' = QuoteIds /\ k \in QuoteIds
  BY DEF QuoteIds
<1>2. Tickets[k] = Escrowed(id) /\ Tickets'[k] = Escrowed(id)'
  BY DEF TicketsKeyed
<1>3. ASSUME NEW m \in QuoteIds, m # k
      PROVE  Tickets'[m] = Tickets[m]
  <2>1. PICK j \in Ids : m = events[j].quoteId
    BY DEF QuoteIds
  <2>2. j # id
    BY <1>3, <2>1
  <2>3. Tickets[m] = Escrowed(j) /\ Tickets'[m] = Escrowed(j)'
    BY <2>1 DEF TicketsKeyed
  <2> QED
    BY <2>2, <2>3
<1>4. /\ Tickets = [quoteId \in QuoteIds |-> Tickets[quoteId]]
      /\ Tickets' = [quoteId \in QuoteIds |-> Tickets'[quoteId]]
  BY <1>1 DEF TicketsKeyed
<1>5. DOMAIN Tickets = QuoteIds
  BY <1>4
<1> HIDE DEF k
<1>6. Tickets' = [Tickets EXCEPT ![k] = Escrowed(id)']
  BY <1>1, <1>2, <1>3, <1>4, <1>5
<1> QED
  BY <1>1, <1>2, <1>5, <1>6 DEF k

\* What the escrow of a ticket sees of its legs.
LEMMA LegsSeen ==
  ASSUME TypeOK, NEW id \in Ids, NEW k, Tickets[k] = Escrowed(id)
  PROVE  /\ Lost(id) => \E leg \in Escrow!LegsOf(k) : Escrow!Missed(leg)
         /\ ~Lost(id) => \A leg \in Escrow!LegsOf(k) : ~Escrow!Missed(leg)
         /\ Fractional(id) => \E leg \in Escrow!LegsOf(k) : fraction[leg.vault] = "partial"
         /\ IsWon(id) => \A leg \in Escrow!LegsOf(k) : Escrow!Hit(leg)
<1> DEFINE legs == parlays[id].legs
<1>1. Escrow!LegsOf(k) = {legs[i] : i \in DOMAIN legs}
  BY DEF Escrow!LegsOf, Escrowed
<1>2. ASSUME NEW i \in DOMAIN legs
      PROVE  fraction[legs[i].vault] \in Fractions \union {"unsettled"}
  <2>1. legs \in Seq(LegChoice)
    BY TicketTypes DEF Parlay
  <2>2. legs[i] \in LegChoice
    BY <2>1, <1>2, ElementOfSeq, LenProperties
  <2> QED
    BY <2>2 DEF LegChoice, TypeOK
<1>3. \A leg : Escrow!Missed(leg) <=> fraction[leg.vault] = LostAt(leg)
  BY DEF Escrow!Missed, LostAt
<1>4. Lost(id) <=> \E i \in DOMAIN legs : fraction[legs[i].vault] = LostAt(legs[i])
  BY DEF Lost
<1>5. Fractional(id) <=> \E i \in DOMAIN legs : fraction[legs[i].vault] = "partial"
  BY DEF Fractional
<1>6. AllSettled(id) <=> \A i \in DOMAIN legs : fraction[legs[i].vault] # "unsettled"
  BY DEF AllSettled, Settled
<1> HIDE DEF legs
<1>7. Lost(id) => \E leg \in Escrow!LegsOf(k) : Escrow!Missed(leg)
  BY <1>1, <1>3, <1>4
<1>8. ~Lost(id) => \A leg \in Escrow!LegsOf(k) : ~Escrow!Missed(leg)
  BY <1>1, <1>3, <1>4
<1>9. Fractional(id) => \E leg \in Escrow!LegsOf(k) : fraction[leg.vault] = "partial"
  BY <1>1, <1>5
<1>10. ASSUME IsWon(id)
       PROVE  \A leg \in Escrow!LegsOf(k) : Escrow!Hit(leg)
  <2>1. SUFFICES ASSUME NEW i \in DOMAIN legs
                 PROVE  Escrow!Hit(legs[i])
    BY <1>1
  <2>2. /\ fraction[legs[i].vault] \in {"zero", "one"}
        /\ fraction[legs[i].vault] # LostAt(legs[i])
    BY <1>2, <1>4, <1>5, <1>6, <1>10 DEF IsWon, Fractions
  <2> QED
    BY <2>2 DEF Escrow!Hit, LostAt
<1> QED
  BY <1>7, <1>8, <1>9, <1>10

\* The record that the escrow of a ticket keeps, field by field.
LEMMA EscrowFields ==
  ASSUME NEW id, NEW k, Tickets[k] = Escrowed(id)
  PROVE  /\ Tickets[k].legs = parlays[id].legs /\ Tickets[k].funder = parlays[id].writer
         /\ Tickets[k].holder = ownerOf[id] /\ Tickets[k].premium = parlays[id].premium
         /\ Tickets[k].escrow = Owed(id) /\ Tickets[k].verdict = parlays[id].status
BY DEF Escrowed

\* An escrow's record, and what handing over, winning and closing make of it.
EscrowRecord(l, f, h, p, e, v) ==
  [legs |-> l, funder |-> f, holder |-> h, premium |-> p, escrow |-> e, verdict |-> v]

HandedTo(r, h) == [r EXCEPT !.holder = h]
Decided(r, v) == [r EXCEPT !.verdict = v]
Emptied(r, v) == [r EXCEPT !.verdict = v, !.escrow = 0]
Ended(r, v, h) == [r EXCEPT !.verdict = v, !.escrow = 0, !.holder = h]

LEMMA RecordChanges ==
  ASSUME NEW l, NEW f, NEW h, NEW p, NEW e, NEW v, NEW h2, NEW v2
  PROVE  /\ HandedTo(EscrowRecord(l, f, h, p, e, v), h2) = EscrowRecord(l, f, h2, p, e, v)
         /\ Decided(EscrowRecord(l, f, h, p, e, v), v2) = EscrowRecord(l, f, h, p, e, v2)
         /\ Emptied(EscrowRecord(l, f, h, p, e, v), v2) = EscrowRecord(l, f, h, p, 0, v2)
         /\ Ended(EscrowRecord(l, f, h, p, e, v), v2, h2) = EscrowRecord(l, f, h2, p, 0, v2)
<1> DEFINE R == [legs : {l}, funder : {f}, holder : {h, h2}, premium : {p}, escrow : {e, 0},
                 verdict : {v, v2}]
           r == EscrowRecord(l, f, h, p, e, v)
           r1 == [r EXCEPT !.holder = h2]
           r2 == [r EXCEPT !.verdict = v2]
           r3 == [r EXCEPT !.verdict = v2, !.escrow = 0]
           r4 == [r EXCEPT !.verdict = v2, !.escrow = 0, !.holder = h2]
<1>1. r1 = EscrowRecord(l, f, h2, p, e, v)
  <2> DEFINE s == EscrowRecord(l, f, h2, p, e, v)
  <2>1. r \in R /\ s \in R
    BY DEF EscrowRecord
  <2>2. r1 \in R
    BY <2>1
  <2>3. /\ r1.legs = s.legs /\ r1.funder = s.funder /\ r1.holder = s.holder
        /\ r1.premium = s.premium /\ r1.escrow = s.escrow /\ r1.verdict = s.verdict
    BY DEF EscrowRecord
  <2> HIDE DEF r1, s
  <2>4. r1 = s
    BY <2>1, <2>2, <2>3
  <2> QED
    BY <2>4 DEF s
<1>2. r2 = EscrowRecord(l, f, h, p, e, v2)
  <2> DEFINE s == EscrowRecord(l, f, h, p, e, v2)
  <2>1. r \in R /\ s \in R
    BY DEF EscrowRecord
  <2>2. r2 \in R
    BY <2>1
  <2>3. /\ r2.legs = s.legs /\ r2.funder = s.funder /\ r2.holder = s.holder
        /\ r2.premium = s.premium /\ r2.escrow = s.escrow /\ r2.verdict = s.verdict
    BY DEF EscrowRecord
  <2> HIDE DEF r2, s
  <2>4. r2 = s
    BY <2>1, <2>2, <2>3
  <2> QED
    BY <2>4 DEF s
<1>3. r3 = EscrowRecord(l, f, h, p, 0, v2)
  <2> DEFINE s == EscrowRecord(l, f, h, p, 0, v2)
  <2>1. r \in R /\ s \in R
    BY DEF EscrowRecord
  <2>2. r3 \in R
    BY <2>1
  <2>3. /\ r3.legs = s.legs /\ r3.funder = s.funder /\ r3.holder = s.holder
        /\ r3.premium = s.premium /\ r3.escrow = s.escrow /\ r3.verdict = s.verdict
    BY DEF EscrowRecord
  <2> HIDE DEF r3, s
  <2>4. r3 = s
    BY <2>1, <2>2, <2>3
  <2> QED
    BY <2>4 DEF s
<1>4. r4 = EscrowRecord(l, f, h2, p, 0, v2)
  <2> DEFINE s == EscrowRecord(l, f, h2, p, 0, v2)
  <2>1. r \in R /\ s \in R
    BY DEF EscrowRecord
  <2>2. r4 \in R
    BY <2>1
  <2>3. /\ r4.legs = s.legs /\ r4.funder = s.funder /\ r4.holder = s.holder
        /\ r4.premium = s.premium /\ r4.escrow = s.escrow /\ r4.verdict = s.verdict
    BY DEF EscrowRecord
  <2> HIDE DEF r4, s
  <2>4. r4 = s
    BY <2>1, <2>2, <2>3
  <2> QED
    BY <2>4 DEF s
<1> QED
  BY <1>1, <1>2, <1>3, <1>4 DEF HandedTo, Decided, Emptied, Ended

\* A dead ticket's escrow goes back whole to its funder.
LEMMA DeadIsDie ==
  ASSUME EscrowsInv, TicketsKeyed, TicketsKeyed', NEW id \in Ids, ResolveDead(id)
  PROVE  Escrow!Die(events[id].quoteId)
<1> DEFINE k == events[id].quoteId
<1> USE DEF EscrowsInv, VerdictInv, QuoteInv
<1>1. /\ Ids' = Ids /\ UNCHANGED <<ownerOf, events, fraction>>
      /\ \A j \in Ids : parlays'[j] = IF j = id THEN [parlays[j] EXCEPT !.status = "Dead"] ELSE parlays[j]
      /\ parlays[id].status = "Open" /\ Lost(id)
      /\ usdc' = Pays(usdc, parlays[id].writer, parlays[id].maxPayout)
  BY SetStatusEffect DEF ResolveDead, Statuses, Ids, Funder, IsDead
<1>2. \A j \in Ids : j # id => Escrowed(j)' = Escrowed(j)
  BY <1>1 DEF Escrowed, Owed
<1>3. /\ k \in DOMAIN Tickets
      /\ Tickets[k] = Escrowed(id)
      /\ Tickets' = [Tickets EXCEPT ![k] = Escrowed(id)']
  BY <1>1, <1>2, EscrowChanges
<1>4. parlays[id] \in Parlay /\ parlays'[id] = [parlays[id] EXCEPT !.status = "Dead"]
  BY <1>1, TicketTypes
<1>5. /\ parlays'[id].legs = parlays[id].legs /\ parlays'[id].writer = parlays[id].writer
      /\ parlays'[id].premium = parlays[id].premium /\ parlays'[id].status = "Dead"
  BY <1>4 DEF Parlay
<1>6. Escrowed(id)' = Emptied(Escrowed(id), "Dead")
  <2>1. Owed(id)' = 0
    BY <1>5 DEF Owed
  <2>2. Escrowed(id)' = EscrowRecord(parlays[id].legs, parlays[id].writer, ownerOf[id],
                                     parlays[id].premium, 0, "Dead")
    BY <1>1, <1>5, <2>1 DEF Escrowed, EscrowRecord
  <2>3. Escrowed(id) = EscrowRecord(parlays[id].legs, parlays[id].writer, ownerOf[id],
                                    parlays[id].premium, Owed(id), parlays[id].status)
    BY DEF Escrowed, EscrowRecord
  <2> QED
    BY <2>2, <2>3, RecordChanges
<1>7. Owed(id) = parlays[id].maxPayout
  BY <1>1 DEF Owed
<1> HIDE DEF k
<1>8. \E leg \in Escrow!LegsOf(k) : Escrow!Missed(leg)
  BY <1>1, <1>3, LegsSeen
<1>9. Escrow!Release(k, 0)
  <2>1. parlays[id].maxPayout \in Nat /\ usdc \in [Accounts -> Nat]
    BY TicketTypes DEF TypeOK
  <2>2. ASSUME NEW a \in Accounts
        PROVE  usdc'[a] = usdc[a] + Escrow!Share(a, Tickets[k].holder, 0)
                          + Escrow!Share(a, Tickets[k].funder, Tickets[k].escrow - 0)
    <3>1. usdc'[a] = usdc[a] + (IF parlays[id].writer = a THEN parlays[id].maxPayout ELSE 0)
      BY <1>1, <2>1, PaysAt
    <3>2. Tickets[k].funder = parlays[id].writer /\ Tickets[k].escrow = parlays[id].maxPayout
      BY <1>3, <1>7, EscrowFields
    <3>3. usdc[a] \in Nat
      BY <2>1
    <3> QED
      BY <2>1, <3>1, <3>2, <3>3 DEF Escrow!Share
  <2>3. usdc' \in [Accounts -> Nat]
    BY <1>1, <2>1, PaysType
  <2> QED
    BY <2>2, <2>3 DEF Escrow!Release
<1>10. Tickets[k].verdict = "Open"
  BY <1>1, <1>3, EscrowFields
<1>11. Tickets' = [Tickets EXCEPT ![k] = [Tickets[k] EXCEPT !.verdict = "Dead", !.escrow = 0]]
  BY <1>3, <1>6 DEF Emptied
<1> QED
  BY <1>1, <1>8, <1>9, <1>10, <1>11 DEF Escrow!Die, k

\* A void ticket's premium goes to its holder, the rest to its funder.
LEMMA VoidIsRefund ==
  ASSUME EscrowsInv, TicketsKeyed, TicketsKeyed', NEW id \in Ids, ResolveVoid(id)
  PROVE  Escrow!Refund(events[id].quoteId)
<1> DEFINE k == events[id].quoteId
<1> USE DEF EscrowsInv, VerdictInv, QuoteInv
<1>1. /\ Ids' = Ids /\ UNCHANGED fraction
      /\ \A j \in Ids : parlays'[j] = IF j = id THEN [parlays[j] EXCEPT !.status = "Void"] ELSE parlays[j]
      /\ parlays[id].status = "Open" /\ ~Lost(id) /\ Fractional(id) /\ Burn(id)
  BY SetStatusEffect DEF ResolveVoid, Statuses, Ids, IsVoid
<1>2. usdc' = Pays(Pays(usdc, ownerOf[id], parlays[id].premium), parlays[id].writer,
                   parlays[id].maxPayout - parlays[id].premium)
  BY DEF ResolveVoid, Holder, Funder
<1>3. /\ ownerOf'[id] = NoAccount
      /\ \A j \in Ids : events'[j].quoteId = events[j].quoteId
      /\ \A j \in Ids : j # id => ownerOf'[j] = ownerOf[j]
  BY <1>1, BurnLogs, BurnEffect
<1>4. \A j \in Ids : j # id => Escrowed(j)' = Escrowed(j)
  BY <1>1, <1>3 DEF Escrowed, Owed
<1>5. /\ k \in DOMAIN Tickets
      /\ Tickets[k] = Escrowed(id)
      /\ Tickets' = [Tickets EXCEPT ![k] = Escrowed(id)']
  BY <1>1, <1>3, <1>4, EscrowChanges
<1>6. parlays[id] \in Parlay /\ parlays'[id] = [parlays[id] EXCEPT !.status = "Void"]
  BY <1>1, TicketTypes
<1>7. /\ parlays'[id].legs = parlays[id].legs /\ parlays'[id].writer = parlays[id].writer
      /\ parlays'[id].premium = parlays[id].premium /\ parlays'[id].status = "Void"
  BY <1>6 DEF Parlay
<1>8. Escrowed(id)' = Ended(Escrowed(id), "Void", NoAccount)
  <2>1. Owed(id)' = 0
    BY <1>3, <1>7 DEF Owed
  <2>2. Escrowed(id)' = EscrowRecord(parlays[id].legs, parlays[id].writer, NoAccount,
                                     parlays[id].premium, 0, "Void")
    BY <1>3, <1>7, <2>1 DEF Escrowed, EscrowRecord
  <2>3. Escrowed(id) = EscrowRecord(parlays[id].legs, parlays[id].writer, ownerOf[id],
                                    parlays[id].premium, Owed(id), parlays[id].status)
    BY DEF Escrowed, EscrowRecord
  <2> QED
    BY <2>2, <2>3, RecordChanges
<1>9. Owed(id) = parlays[id].maxPayout
  BY <1>1 DEF Owed
<1> HIDE DEF k
<1>10. /\ \E leg \in Escrow!LegsOf(k) : fraction[leg.vault] = "partial"
       /\ \A leg \in Escrow!LegsOf(k) : ~Escrow!Missed(leg)
  BY <1>1, <1>5, LegsSeen
<1>11. /\ Tickets[k].holder = ownerOf[id] /\ Tickets[k].funder = parlays[id].writer
       /\ Tickets[k].escrow = parlays[id].maxPayout /\ Tickets[k].premium = parlays[id].premium
       /\ Tickets[k].verdict = "Open"
  BY <1>1, <1>5, <1>9, EscrowFields
<1>12. Escrow!Release(k, Tickets[k].premium)
  <2> DEFINE m == parlays[id].premium
             n == parlays[id].maxPayout - parlays[id].premium
             mid == Pays(usdc, ownerOf[id], m)
  <2>1. m \in Nat /\ n \in Nat
    BY <1>6 DEF Parlay
  <2>2. usdc \in [Accounts -> Nat]
    BY DEF TypeOK
  <2>3. usdc' = Pays(mid, parlays[id].writer, n)
    BY <1>2
  <2>4. Tickets[k].premium = m /\ Tickets[k].escrow - Tickets[k].premium = n
    BY <1>11
  <2> HIDE DEF m, n
  <2>5. mid \in [Accounts -> Nat]
    BY <2>1, <2>2, PaysType
  <2>6. ASSUME NEW a \in Accounts
        PROVE  usdc'[a] = usdc[a] + Escrow!Share(a, Tickets[k].holder, m)
                          + Escrow!Share(a, Tickets[k].funder, n)
    <3>1. mid[a] = usdc[a] + Escrow!Share(a, Tickets[k].holder, m)
      BY <1>11, <2>1, <2>2, PaysAt DEF Escrow!Share
    <3> HIDE DEF mid
    <3>2. usdc'[a] = mid[a] + Escrow!Share(a, Tickets[k].funder, n)
      BY <1>11, <2>1, <2>3, <2>5, PaysAt DEF Escrow!Share
    <3> QED
      BY <3>1, <3>2
  <2> HIDE DEF mid
  <2>7. usdc' \in [Accounts -> Nat]
    BY <2>1, <2>3, <2>5, PaysType
  <2> QED
    BY <2>4, <2>6, <2>7 DEF Escrow!Release
<1>13. Tickets' = [Tickets EXCEPT ![k] = [Tickets[k] EXCEPT !.verdict = "Void", !.escrow = 0,
                                                        !.holder = NoAccount]]
  BY <1>5, <1>8 DEF Ended
<1> QED
  BY <1>1, <1>10, <1>11, <1>12, <1>13 DEF Escrow!Refund, k

\* A claim pays the whole escrow to the holder.
LEMMA ClaimIsPay ==
  ASSUME EscrowsInv, TicketsKeyed, TicketsKeyed', NEW id \in Ids, Claim(id)
  PROVE  Escrow!Pay(events[id].quoteId)
<1> DEFINE k == events[id].quoteId
<1> USE DEF EscrowsInv, VerdictInv, QuoteInv
<1>1. /\ Ids' = Ids /\ UNCHANGED fraction
      /\ \A j \in Ids : parlays'[j] = IF j = id THEN [parlays[j] EXCEPT !.status = "Won"] ELSE parlays[j]
      /\ parlays[id].status \in {"Open", "Won"} /\ Burn(id)
      /\ ownerOf[id] \in Accounts
      /\ usdc' = Pays(usdc, ownerOf[id], parlays[id].maxPayout)
  BY SetStatusEffect DEF Claim, Statuses, Ids
<1>2. IsWon(id)
  BY DEF Claim, VerdictsMatchLegs
<1>3. /\ ownerOf'[id] = NoAccount
      /\ \A j \in Ids : events'[j].quoteId = events[j].quoteId
      /\ \A j \in Ids : j # id => ownerOf'[j] = ownerOf[j]
  BY <1>1, BurnLogs, BurnEffect
<1>4. \A j \in Ids : j # id => Escrowed(j)' = Escrowed(j)
  BY <1>1, <1>3 DEF Escrowed, Owed
<1>5. /\ k \in DOMAIN Tickets
      /\ Tickets[k] = Escrowed(id)
      /\ Tickets' = [Tickets EXCEPT ![k] = Escrowed(id)']
  BY <1>1, <1>3, <1>4, EscrowChanges
<1>6. parlays[id] \in Parlay /\ parlays'[id] = [parlays[id] EXCEPT !.status = "Won"]
  BY <1>1, TicketTypes
<1>7. /\ parlays'[id].legs = parlays[id].legs /\ parlays'[id].writer = parlays[id].writer
      /\ parlays'[id].premium = parlays[id].premium /\ parlays'[id].status = "Won"
  BY <1>6 DEF Parlay
<1>8. Escrowed(id)' = Ended(Escrowed(id), "Won", NoAccount)
  <2>1. Owed(id)' = 0
    BY <1>3, <1>7 DEF Owed
  <2>2. Escrowed(id)' = EscrowRecord(parlays[id].legs, parlays[id].writer, NoAccount,
                                     parlays[id].premium, 0, "Won")
    BY <1>3, <1>7, <2>1 DEF Escrowed, EscrowRecord
  <2>3. Escrowed(id) = EscrowRecord(parlays[id].legs, parlays[id].writer, ownerOf[id],
                                    parlays[id].premium, Owed(id), parlays[id].status)
    BY DEF Escrowed, EscrowRecord
  <2> QED
    BY <2>2, <2>3, RecordChanges
<1>9. ownerOf[id] # NoAccount
  BY <1>1, ConstantsAssumption
<1>10. Owed(id) = parlays[id].maxPayout
  BY <1>1, <1>9 DEF Owed
<1> HIDE DEF k
<1>11. \A leg \in Escrow!LegsOf(k) : Escrow!Hit(leg)
  BY <1>2, <1>5, LegsSeen
<1>12. /\ Tickets[k].holder = ownerOf[id] /\ Tickets[k].escrow = parlays[id].maxPayout
       /\ Tickets[k].verdict \in {"Open", "Won"}
  BY <1>1, <1>5, <1>10, EscrowFields
<1>13. Escrow!Release(k, Tickets[k].escrow)
  <2> DEFINE n == parlays[id].maxPayout
  <2>1. n \in Nat /\ usdc \in [Accounts -> Nat]
    BY TicketTypes DEF TypeOK
  <2>2. usdc' = Pays(usdc, ownerOf[id], n) /\ Tickets[k].escrow = n
    BY <1>1, <1>12
  <2> HIDE DEF n
  <2>3. ASSUME NEW a \in Accounts
        PROVE  usdc'[a] = usdc[a] + Escrow!Share(a, Tickets[k].holder, n)
                          + Escrow!Share(a, Tickets[k].funder, n - n)
    <3>1. usdc'[a] = usdc[a] + Escrow!Share(a, Tickets[k].holder, n)
      BY <1>12, <2>1, <2>2, PaysAt DEF Escrow!Share
    <3>2. Escrow!Share(a, Tickets[k].funder, n - n) = 0
      BY <2>1 DEF Escrow!Share
    <3>3. usdc[a] \in Nat /\ Escrow!Share(a, Tickets[k].holder, n) \in Nat
      BY <2>1 DEF Escrow!Share
    <3> QED
      BY <3>1, <3>2, <3>3
  <2>4. usdc' \in [Accounts -> Nat]
    BY <2>1, <2>2, PaysType
  <2> QED
    BY <2>2, <2>3, <2>4 DEF Escrow!Release
<1>14. Tickets' = [Tickets EXCEPT ![k] = [Tickets[k] EXCEPT !.verdict = "Won", !.escrow = 0,
                                                        !.holder = NoAccount]]
  BY <1>5, <1>8 DEF Ended
<1>15. Tickets[k].holder # NoAccount
  BY <1>9, <1>12
<1> QED
  BY <1>1, <1>11, <1>12, <1>13, <1>14, <1>15 DEF Escrow!Pay, k

\* A won verdict decides the escrow and leaves it where it is.
LEMMA WonIsWin ==
  ASSUME EscrowsInv, OpenTicketsHeld, TicketsKeyed, TicketsKeyed', NEW id \in Ids, ResolveWon(id)
  PROVE  Escrow!Win(events[id].quoteId)
<1> DEFINE k == events[id].quoteId
<1> USE DEF EscrowsInv, VerdictInv, QuoteInv
<1>1. /\ Ids' = Ids /\ UNCHANGED <<ownerOf, events, fraction, usdc>>
      /\ \A j \in Ids : parlays'[j] = IF j = id THEN [parlays[j] EXCEPT !.status = "Won"] ELSE parlays[j]
      /\ parlays[id].status = "Open" /\ IsWon(id)
  BY SetStatusEffect DEF ResolveWon, Statuses, Ids, money
<1>2. \A j \in Ids : j # id => Escrowed(j)' = Escrowed(j)
  BY <1>1 DEF Escrowed, Owed
<1>3. /\ k \in DOMAIN Tickets
      /\ Tickets[k] = Escrowed(id)
      /\ Tickets' = [Tickets EXCEPT ![k] = Escrowed(id)']
  BY <1>1, <1>2, EscrowChanges
<1>4. parlays[id] \in Parlay /\ parlays'[id] = [parlays[id] EXCEPT !.status = "Won"]
  BY <1>1, TicketTypes
<1>5. /\ parlays'[id].legs = parlays[id].legs /\ parlays'[id].writer = parlays[id].writer
      /\ parlays'[id].premium = parlays[id].premium /\ parlays'[id].status = "Won"
      /\ parlays'[id].maxPayout = parlays[id].maxPayout
  BY <1>4 DEF Parlay
<1>6. Escrowed(id)' = Decided(Escrowed(id), "Won")
  <2>1. ownerOf[id] # NoAccount
    BY <1>1, ConstantsAssumption DEF OpenTicketsHeld
  <2>2. Owed(id)' = Owed(id)
    BY <1>1, <1>5, <2>1 DEF Owed
  <2>3. Escrowed(id)' = EscrowRecord(parlays[id].legs, parlays[id].writer, ownerOf[id],
                                     parlays[id].premium, Owed(id), "Won")
    BY <1>1, <1>5, <2>2 DEF Escrowed, EscrowRecord
  <2>4. Escrowed(id) = EscrowRecord(parlays[id].legs, parlays[id].writer, ownerOf[id],
                                    parlays[id].premium, Owed(id), parlays[id].status)
    BY DEF Escrowed, EscrowRecord
  <2> QED
    BY <2>3, <2>4, RecordChanges
<1> HIDE DEF k
<1>7. \A leg \in Escrow!LegsOf(k) : Escrow!Hit(leg)
  BY <1>1, <1>3, LegsSeen
<1>8. Tickets[k].verdict = "Open"
  BY <1>1, <1>3, EscrowFields
<1>9. Tickets' = [Tickets EXCEPT ![k].verdict = "Won"]
  BY <1>3, <1>6 DEF Decided
<1> QED
  BY <1>1, <1>7, <1>8, <1>9 DEF Escrow!Win, k

\* A transfer hands the ticket over, with what it is owed.
LEMMA TransferIsHandOver ==
  ASSUME EscrowsInv, TicketsKeyed, TicketsKeyed', NEW id \in Ids, NEW to \in Accounts,
         TransferTicket(id, to)
  PROVE  Escrow!HandOver(events[id].quoteId, to)
<1> DEFINE k == events[id].quoteId
<1> USE DEF EscrowsInv, VerdictInv, QuoteInv
<1>1. /\ UNCHANGED <<parlays, events, fraction, usdc>> /\ Ids' = Ids
      /\ ownerOf[id] \in Accounts /\ ownerOf' = [ownerOf EXCEPT ![id] = to]
  BY DEF TransferTicket, money, Ids
<1>2. /\ ownerOf'[id] = to
      /\ \A j \in Ids : j # id => ownerOf'[j] = ownerOf[j]
  <2>1. /\ ownerOf \in Seq(Accounts \union {NoAccount}) /\ Len(ownerOf) = Len(parlays)
        /\ to \in Accounts \union {NoAccount}
    BY DEF TypeOK
  <2> QED
    BY <1>1, <2>1, ExceptSeq DEF Ids
<1>3. \A j \in Ids : j # id => Escrowed(j)' = Escrowed(j)
  BY <1>1, <1>2 DEF Escrowed, Owed
<1>4. /\ k \in DOMAIN Tickets
      /\ Tickets[k] = Escrowed(id)
      /\ Tickets' = [Tickets EXCEPT ![k] = Escrowed(id)']
  BY <1>1, <1>3, EscrowChanges
<1>5. ownerOf[id] # NoAccount /\ to # NoAccount
  BY <1>1, ConstantsAssumption
<1>6. Escrowed(id)' = HandedTo(Escrowed(id), to)
  <2>1. Owed(id)' = Owed(id)
    BY <1>1, <1>2, <1>5 DEF Owed
  <2>2. Escrowed(id)' = EscrowRecord(parlays[id].legs, parlays[id].writer, to,
                                     parlays[id].premium, Owed(id), parlays[id].status)
    BY <1>1, <1>2, <2>1 DEF Escrowed, EscrowRecord
  <2>3. Escrowed(id) = EscrowRecord(parlays[id].legs, parlays[id].writer, ownerOf[id],
                                    parlays[id].premium, Owed(id), parlays[id].status)
    BY DEF Escrowed, EscrowRecord
  <2> QED
    BY <2>2, <2>3, RecordChanges
<1> HIDE DEF k
<1>7. Tickets[k].holder # NoAccount
  BY <1>4, <1>5, EscrowFields
<1>8. Tickets' = [Tickets EXCEPT ![k].holder = to]
  BY <1>4, <1>6 DEF HandedTo
<1> QED
  BY <1>1, <1>7, <1>8 DEF Escrow!HandOver, k

\* A mint fills a new escrow, for a quote that never had one, from the balances
\* of its taker and of the writer of that moment.
LEMMA MintIsSell ==
  ASSUME EscrowsInv, TicketsKeyed, TicketsKeyed', NEW q \in Quotes, Mint(q)
  PROVE  Escrow!Sell(q, writer)
<1> USE DEF EscrowsInv, VerdictInv, QuoteInv
<1>0. PICK n : n = Len(parlays) + 1
  OBVIOUS
<1>1. /\ \A j \in Ids : parlays'[j] = parlays[j] /\ ownerOf'[j] = ownerOf[j] /\ events'[j] = events[j]
      /\ parlays'[n] = [legs |-> q.legs, writer |-> writer, premium |-> q.premium,
                        maxPayout |-> q.maxPayout, status |-> "Open"]
      /\ ownerOf'[n] = q.taker
      /\ events'[n] = [taker |-> q.taker, quoteId |-> q.quoteId, payee |-> NoAccount]
      /\ Len(parlays') = n
      /\ q \in Quote /\ q.taker \in Accounts /\ writer \in Accounts
  BY <1>0, MintAppends DEF TypeOK
<1>2. Len(parlays) \in Nat
  BY LenProperties DEF TypeOK
<1>3. Ids' = Ids \union {n} /\ n \notin Ids
  BY <1>0, <1>1, <1>2 DEF Ids
<1>4. q.quoteId \notin QuoteIds
  BY DEF Mint, LiveQuote, FreshQuote, MintedQuotesUsed, QuoteIds
<1>5. QuoteIds' = QuoteIds \union {q.quoteId}
  BY <1>1, <1>3 DEF QuoteIds
<1>6. /\ DOMAIN Tickets = QuoteIds
      /\ Tickets' = [k \in QuoteIds' |-> Tickets'[k]]
  BY DEF TicketsKeyed
<1>7. ASSUME NEW k \in QuoteIds
      PROVE  Tickets'[k] = Tickets[k]
  <2>1. PICK j \in Ids : k = events[j].quoteId
    BY DEF QuoteIds
  <2>2. Tickets[k] = Escrowed(j)
    BY <2>1 DEF TicketsKeyed
  <2>3. j \in Ids' /\ k = events'[j].quoteId
    BY <1>1, <1>3, <2>1
  <2>4. Tickets'[k] = Escrowed(j)'
    BY <2>3 DEF TicketsKeyed
  <2>5. Escrowed(j)' = Escrowed(j)
    BY <1>1 DEF Escrowed, Owed
  <2> QED
    BY <2>2, <2>4, <2>5
<1>8. Tickets'[q.quoteId] = [legs |-> q.legs, funder |-> writer, holder |-> q.taker,
                             premium |-> q.premium, escrow |-> q.maxPayout, verdict |-> "Open"]
  <2>1. /\ n \in Ids' /\ events'[n].quoteId = q.quoteId /\ ownerOf'[n] = q.taker
        /\ parlays'[n].legs = q.legs /\ parlays'[n].writer = writer
        /\ parlays'[n].premium = q.premium /\ parlays'[n].maxPayout = q.maxPayout
        /\ parlays'[n].status = "Open"
    BY <1>1, <1>3
  <2>2. Tickets'[q.quoteId] = Escrowed(n)'
    BY <2>1 DEF TicketsKeyed
  <2>3. Owed(n)' = q.maxPayout
    BY <2>1 DEF Owed
  <2>4. Escrowed(n)' = [legs |-> q.legs, funder |-> writer, holder |-> q.taker,
                        premium |-> q.premium, escrow |-> q.maxPayout, verdict |-> "Open"]
    BY <2>1, <2>3 DEF Escrowed
  <2> QED
    BY <2>2, <2>4
<1>9. Tickets' = [k \in DOMAIN Tickets \union {q.quoteId} |->
                    IF k = q.quoteId
                    THEN [legs |-> q.legs, funder |-> writer, holder |-> q.taker,
                          premium |-> q.premium, escrow |-> q.maxPayout, verdict |-> "Open"]
                    ELSE Tickets[k]]
  BY <1>5, <1>6, <1>7, <1>8
<1>10. /\ q.premium \in Nat /\ q.maxPayout \in Nat /\ q.premium < q.maxPayout
       /\ HouseShare(q) = q.maxPayout - q.premium /\ HouseShare(q) \in Nat
  BY <1>1 DEF Mint, PriceAccepted, Quote, HouseShare
<1>11. \A i \in DOMAIN q.legs : fraction[q.legs[i].vault] = "unsettled"
  BY DEF Mint, LegsAccepted, Settled
<1>12. ASSUME NEW a \in Accounts
       PROVE  /\ Escrow!Stake(q, writer, a) <= usdc[a]
              /\ usdc'[a] = usdc[a] - Escrow!Stake(q, writer, a)
  <2> DEFINE p == q.premium
             s == HouseShare(q)
             mid == Pulled(usdc, q.taker, p)
  <2>1. usdc \in [Accounts -> Nat]
    BY DEF TypeOK
  <2>2. /\ usdc[q.taker] >= p /\ mid[writer] >= s
        /\ usdc' = Pulled(mid, writer, s)
    BY DEF Mint, CanPull
  <2>3. Escrow!Stake(q, writer, a) = (IF a = q.taker THEN p ELSE 0) + (IF a = writer THEN s ELSE 0)
    BY <1>10 DEF Escrow!Stake, Escrow!Share
  <2>4. p \in Nat /\ s \in Nat
    BY <1>10
  <2> HIDE DEF p, s
  <2>5. \A b \in Accounts : mid[b] = usdc[b] - (IF b = q.taker THEN p ELSE 0)
    BY <1>1, <2>1, <2>4 DEF Pulled
  <2>6. mid \in [Accounts -> Int]
    BY <1>1, <2>1, <2>4 DEF Pulled
  <2> HIDE DEF mid
  <2>7. usdc'[a] = mid[a] - (IF a = writer THEN s ELSE 0)
    BY <1>1, <2>2, <2>4, <2>6 DEF Pulled
  <2>8. usdc[a] \in Nat /\ mid[a] \in Int
    BY <2>1, <2>6
  <2> QED
    BY <1>1, <2>2, <2>3, <2>4, <2>5, <2>7, <2>8
<1>13. usdc' = [a \in Accounts |-> usdc[a] - Escrow!Stake(q, writer, a)]
  <2>1. usdc' \in [Accounts -> Nat]
    BY MintBalances
  <2> QED
    BY <1>12, <2>1
<1>14. q.quoteId \notin DOMAIN Tickets /\ UNCHANGED fraction
  BY <1>4, <1>6 DEF Mint
<1> QED
  BY <1>9, <1>10, <1>11, <1>12, <1>13, <1>14 DEF Escrow!Sell

\* Every transaction of the vault is one step of the escrows, or none.
LEMMA StepKeepsEscrows ==
  ASSUME EscrowsInv, EscrowsInv', OpenTicketsHeld, [Next]_vars
  PROVE  [Escrow!Next]_<<usdc, fraction, Tickets>>
<1>1. TicketsKeyed /\ TicketsKeyed'
  BY TicketsByQuote, PTL DEF EscrowsInv, QuoteInv
<1>2. ASSUME Ids' = Ids, events' = events, parlays' = parlays, ownerOf' = ownerOf
      PROVE  Tickets' = Tickets
  <2>1. \A j \in Ids : Escrowed(j)' = Escrowed(j)
    BY <1>2 DEF Escrowed, Owed
  <2> QED
    BY <1>1, <1>2, <2>1, EscrowsKept
<1>3. ASSUME UNCHANGED <<usdc, fraction, parlays, ownerOf, events>>
      PROVE  UNCHANGED <<usdc, fraction, Tickets>>
  BY <1>2, <1>3 DEF Ids
<1>4. ASSUME NEW caller \in Accounts, NEW x,
             \/ SetOwner(caller, x) \/ SetLegRegistrar(caller, x) \/ SetWriter(caller, x)
             \/ SetQuoteSigner(caller, x) \/ SetMinPremiumBps(caller, x) \/ AllowLeg(caller, x)
      PROVE  UNCHANGED <<usdc, fraction, Tickets>>
  BY <1>3, <1>4 DEF SetOwner, SetLegRegistrar, SetWriter, SetQuoteSigner,
                    SetMinPremiumBps, AllowLeg, tickets, money
<1>5. ASSUME NEW a, NEW n, Approve(a, n)
      PROVE  UNCHANGED <<usdc, fraction, Tickets>>
  BY <1>3, <1>5 DEF Approve, tickets
<1>6. ASSUME Tick \/ UNCHANGED vars
      PROVE  UNCHANGED <<usdc, fraction, Tickets>>
  BY <1>3, <1>6 DEF Tick, vars, tickets, money
<1>7. ASSUME Donate
      PROVE  Escrow!Next
  <2>1. /\ usdc[Donor] > 0 /\ usdc' = [usdc EXCEPT ![Donor] = @ - 1]
        /\ UNCHANGED <<fraction, parlays, ownerOf, events>>
    BY <1>7 DEF Donate, tickets
  <2>2. Tickets' = Tickets
    BY <1>2, <2>1 DEF Ids
  <2>3. Escrow!Give(Donor)
    BY <2>1, <2>2 DEF Escrow!Give
  <2> QED
    BY <2>3, ConstantsAssumption DEF Escrow!Next
<1>8. ASSUME NEW l \in Legs, NEW f \in Fractions, SettleLeg(l, f)
      PROVE  Escrow!Next
  <2>1. /\ fraction[l] = "unsettled" /\ fraction' = [fraction EXCEPT ![l] = f]
        /\ UNCHANGED <<usdc, parlays, ownerOf, events>>
    BY <1>8 DEF SettleLeg, tickets, money
  <2>2. Tickets' = Tickets
    BY <1>2, <2>1 DEF Ids
  <2>3. Escrow!Settle(l, f)
    BY <2>1, <2>2 DEF Escrow!Settle
  <2>4. l \in DOMAIN fraction
    BY DEF EscrowsInv, VerdictInv, TypeOK
  <2> QED
    BY <2>3, <2>4 DEF Escrow!Next, Fractions
<1>9. ASSUME NEW q \in Quotes, Mint(q)
      PROVE  Escrow!Next
  <2>1. Escrow!Sell(q, writer)
    BY <1>1, <1>9, MintIsSell
  <2>2. writer \in Accounts
    BY DEF EscrowsInv, VerdictInv, TypeOK
  <2> QED
    BY <2>1, <2>2 DEF Escrow!Next
<1>10. ASSUME NEW id \in Ids
       PROVE  events[id].quoteId \in DOMAIN Tickets
  BY <1>1 DEF TicketsKeyed, QuoteIds
<1>11. ASSUME NEW id \in Ids, NEW to \in Accounts, TransferTicket(id, to)
       PROVE  Escrow!Next
  <2>1. Escrow!HandOver(events[id].quoteId, to)
    BY <1>1, <1>11, TransferIsHandOver
  <2> QED
    BY <1>10, <2>1 DEF Escrow!Next
<1>12. ASSUME NEW id \in Ids,
              ResolveDead(id) \/ ResolveVoid(id) \/ ResolveWon(id) \/ Claim(id)
       PROVE  Escrow!Next
  <2>1. LET k == events[id].quoteId
        IN  Escrow!Die(k) \/ Escrow!Refund(k) \/ Escrow!Win(k) \/ Escrow!Pay(k)
    BY <1>1, <1>12, DeadIsDie, VoidIsRefund, WonIsWin, ClaimIsPay
  <2> QED
    BY <1>10, <2>1 DEF Escrow!Next
<1> QED
  BY <1>4, <1>5, <1>6, <1>7, <1>8, <1>9, <1>11, <1>12 DEF Next

\* The vault does with one pot, one allowance for each account and configuration that
\* changes at any time what a separate escrow for each quote would do (ParlayEscrow):
\* each is filled once and in full, by its taker and the writer of that moment, and
\* leaves once and whole, on a verdict that the legs support, to that writer or to
\* whoever holds the ticket by then (ParlayVault.sol, mint, resolveParlay and claim).
THEOREM EscrowsAreKept == Spec => KeepsEscrows
<1>1. Init => Escrow!Init
  <2> SUFFICES ASSUME Init
               PROVE  Escrow!Init
    OBVIOUS
  <2>1. Ids = {}
    BY DEF Init, Ids
  <2>2. DOMAIN Tickets = {}
    BY <2>1 DEF Tickets
  <2> QED
    BY <2>2 DEF Init, Escrow!Init
<1>2. EscrowsInv /\ EscrowsInv' /\ OpenTicketsHeld /\ [Next]_vars
        => [Escrow!Next]_<<usdc, fraction, Tickets>>
  BY StepKeepsEscrows
<1>3. VerdictInv /\ QuoteInv /\ EscrowInv => EscrowsInv /\ OpenTicketsHeld
  BY DEF EscrowsInv, EscrowInv
<1> QED
  BY <1>1, <1>2, <1>3, VerdictInvariant, QuoteInvariant, EscrowInvariant, PTL
  DEF Spec, KeepsEscrows, Escrow!Spec, Escrow!vars
=============================================================================
