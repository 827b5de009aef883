-------------------------- MODULE WriterBookProofs --------------------------
(***************************************************************************)
(* Theorems about WriterBook for any quotes, markets, clusters, caps and   *)
(* risks, in every interleaving of requests, mints, the poker and          *)
(* restarts: what the writer's caps promise of the tickets on the chain,   *)
(* and that the scan loses none of them;                                   *)
(* and about LivePrior, for any games and odds: what it serves is sound.   *)
(***************************************************************************)
EXTENDS WriterBook, LivePrior, FiniteSetTheorems, WellFoundedInduction, SequenceTheorems, TLAPS

(***************************************************************************)
(* Sums of risk.                                                           *)
(***************************************************************************)
Share(set, q) == IF q \in set THEN Risk[q] ELSE 0

\* sum is the running sum of set's risks over the first n quotes.
RunningSum(sum, set, n) ==
  sum = [q \in 0 .. n |-> IF q = 0 THEN 0 ELSE sum[q - 1] + Share(set, q)]

\* A set of naturals that holds 0, and the next of each, holds them all.
LEMMA SetInduction ==
  ASSUME NEW S, 0 \in S, \A n \in Nat : n \in S => n + 1 \in S
  PROVE  Nat \subseteq S
<1>1. SUFFICES ASSUME Nat \ S # {} PROVE FALSE
  OBVIOUS
<1>2. PICK R : R = OpToRel(<, Nat) /\ IsWellFoundedOn(R, Nat)
  BY NatLessThanWellFounded
<1>3. PICK x \in Nat \ S : \A y \in Nat \ S : ~(<<y, x>> \in R)
  BY <1>1, <1>2, WFMin
<1>4. x # 0 /\ x - 1 \in Nat
  BY <1>3
<1>5. x - 1 \notin S
  BY <1>3, <1>4
<1>6. <<x - 1, x>> \in R
  BY <1>2, <1>3, <1>4 DEF OpToRel
<1> QED
  BY <1>3, <1>4, <1>5, <1>6

LEMMA RunningSumExists ==
  ASSUME NEW set
  PROVE  \A n \in Nat : \E sum : RunningSum(sum, set, n)
<1> DEFINE S == {n \in Nat : \E sum : RunningSum(sum, set, n)}
<1>1. 0 \in S
  <2>1. RunningSum([q \in 0 .. 0 |-> 0], set, 0)
    BY DEF RunningSum
  <2> QED
    BY <2>1
<1>2. ASSUME NEW n \in Nat, n \in S
      PROVE  n + 1 \in S
  <2>1. PICK sum : RunningSum(sum, set, n)
    BY <1>2
  <2> DEFINE g == [q \in 0 .. n + 1 |-> IF q <= n THEN sum[q] ELSE sum[n] + Share(set, n + 1)]
             h == [q \in 0 .. n + 1 |-> IF q = 0 THEN 0 ELSE g[q - 1] + Share(set, q)]
  <2>2. \A q \in 0 .. n : sum[q] = IF q = 0 THEN 0 ELSE sum[q - 1] + Share(set, q)
    BY <2>1 DEF RunningSum
  <2>3. \A q \in 0 .. n + 1 : g[q] = h[q]
    <3> TAKE q \in 0 .. n + 1
    <3>1. CASE q = 0
      BY <2>2, <3>1
    <3>2. CASE q # 0 /\ q <= n
      <4>1. q \in 0 .. n /\ q - 1 \in 0 .. n + 1 /\ q - 1 <= n
        BY <3>2
      <4>2. g[q] = sum[q] /\ g[q - 1] = sum[q - 1] /\ h[q] = g[q - 1] + Share(set, q)
        BY <3>2, <4>1
      <4>3. sum[q] = sum[q - 1] + Share(set, q)
        BY <2>2, <3>2, <4>1
      <4> QED
        BY <4>2, <4>3
    <3>3. CASE q = n + 1
      BY <3>3
    <3> QED
      BY <3>1, <3>2, <3>3
  <2>4. g = h
    BY <2>3
  <2>5. RunningSum(g, set, n + 1)
    BY <2>4, Zenon DEF RunningSum
  <2> HIDE DEF g
  <2> QED
    BY <2>5
<1>3. Nat \subseteq S
  <2> HIDE DEF S
  <2> QED
    BY <1>1, <1>2, SetInduction
<1> QED
  BY <1>3

\* What RiskOf computes.
LEMMA RiskOfSums ==
  ASSUME NEW set
  PROVE  \E sum : /\ RiskOf(set) = sum[QuoteCount]
                  /\ sum[0] = 0
                  /\ \A q \in Quotes : sum[q] = sum[q - 1] + Share(set, q)
<1>1. QuoteCount \in Nat
  BY WriterAssumption
<1> DEFINE sum == CHOOSE sum : RunningSum(sum, set, QuoteCount)
<1>2. RunningSum(sum, set, QuoteCount)
  <2>1. \E f : RunningSum(f, set, QuoteCount)
    BY <1>1, RunningSumExists
  <2> QED
    BY <2>1, Zenon
<1>3. RiskOf(set) = sum[QuoteCount]
  BY DEF RiskOf, RunningSum, Share
<1> HIDE DEF sum
<1>4. \A q \in 0 .. QuoteCount : sum[q] = IF q = 0 THEN 0 ELSE sum[q - 1] + Share(set, q)
  BY <1>2 DEF RunningSum
<1>5. sum[0] = 0 /\ \A q \in Quotes : sum[q] = sum[q - 1] + Share(set, q)
  BY <1>1, <1>4 DEF Quotes
<1> QED
  BY <1>3, <1>5

\* A quote more adds at most its risk, and a smaller set has no more: T is S but for
\* q, or less.
LEMMA RiskAdds ==
  ASSUME NEW S, NEW T, NEW q \in Quotes, T \subseteq S \union {q}
  PROVE  RiskOf(S) \in Nat /\ RiskOf(T) \in Nat /\ RiskOf(T) <= RiskOf(S) + Risk[q]
<1>1. QuoteCount \in Nat /\ \A r \in Quotes : Risk[r] \in Nat
  BY WriterAssumption
<1>2. PICK s : /\ RiskOf(S) = s[QuoteCount]
               /\ s[0] = 0
               /\ \A r \in Quotes : s[r] = s[r - 1] + Share(S, r)
  BY RiskOfSums
<1>3. PICK t : /\ RiskOf(T) = t[QuoteCount]
               /\ t[0] = 0
               /\ \A r \in Quotes : t[r] = t[r - 1] + Share(T, r)
  BY RiskOfSums
<1> DEFINE Good(n) == /\ s[n] \in Nat /\ t[n] \in Nat
                      /\ t[n] <= s[n] + (IF q <= n THEN Risk[q] ELSE 0)
           P == {n \in Nat : n \in 0 .. QuoteCount => Good(n)}
<1>4. 0 \in P
  BY <1>1, <1>2, <1>3 DEF Quotes
<1>5. ASSUME NEW n \in Nat, n \in P
      PROVE  n + 1 \in P
  <2>1. SUFFICES ASSUME n + 1 \in 0 .. QuoteCount
                 PROVE  Good(n + 1)
    OBVIOUS
  <2>2. Good(n) /\ n + 1 \in Quotes
    BY <1>1, <1>5, <2>1 DEF Quotes
  <2>3. s[n + 1] = s[n] + Share(S, n + 1) /\ t[n + 1] = t[n] + Share(T, n + 1)
    BY <1>2, <1>3, <2>2
  <2>4. Risk[n + 1] \in Nat /\ Risk[q] \in Nat /\ q \in Int
    BY <1>1, <2>2 DEF Quotes
  <2>5. CASE n + 1 = q
    BY <2>2, <2>3, <2>4, <2>5 DEF Share
  <2>6. CASE n + 1 # q
    <3>1. Share(T, n + 1) <= Share(S, n + 1) /\ Share(S, n + 1) \in Nat /\ Share(T, n + 1) \in Nat
      BY <2>4, <2>6 DEF Share
    <3> QED
      BY <2>2, <2>3, <2>4, <2>6, <3>1
  <2> QED
    BY <2>5, <2>6
<1>6. Good(QuoteCount)
  <2> HIDE DEF P
  <2>1. QuoteCount \in P
    BY <1>1, <1>4, <1>5, SetInduction
  <2> QED
    BY <1>1, <2>1 DEF P
<1>7. q <= QuoteCount
  BY DEF Quotes
<1> QED
  BY <1>2, <1>3, <1>6, <1>7

LEMMA RiskGrows ==
  ASSUME NEW S, NEW T, T \subseteq S
  PROVE  RiskOf(S) \in Nat /\ RiskOf(T) \in Nat /\ RiskOf(T) <= RiskOf(S)
<1>1. QuoteCount \in Nat /\ \A r \in Quotes : Risk[r] \in Nat
  BY WriterAssumption
<1>2. PICK s : /\ RiskOf(S) = s[QuoteCount]
               /\ s[0] = 0
               /\ \A r \in Quotes : s[r] = s[r - 1] + Share(S, r)
  BY RiskOfSums
<1>3. PICK t : /\ RiskOf(T) = t[QuoteCount]
               /\ t[0] = 0
               /\ \A r \in Quotes : t[r] = t[r - 1] + Share(T, r)
  BY RiskOfSums
<1> DEFINE Good(n) == s[n] \in Nat /\ t[n] \in Nat /\ t[n] <= s[n]
           P == {n \in Nat : n \in 0 .. QuoteCount => Good(n)}
<1>4. 0 \in P
  BY <1>2, <1>3
<1>5. ASSUME NEW n \in Nat, n \in P
      PROVE  n + 1 \in P
  <2>1. SUFFICES ASSUME n + 1 \in 0 .. QuoteCount
                 PROVE  Good(n + 1)
    OBVIOUS
  <2>2. Good(n) /\ n + 1 \in Quotes
    BY <1>1, <1>5, <2>1 DEF Quotes
  <2>3. s[n + 1] = s[n] + Share(S, n + 1) /\ t[n + 1] = t[n] + Share(T, n + 1)
    BY <1>2, <1>3, <2>2
  <2>4. Share(T, n + 1) <= Share(S, n + 1) /\ Share(S, n + 1) \in Nat /\ Share(T, n + 1) \in Nat
    BY <1>1, <2>2 DEF Share
  <2> QED
    BY <2>2, <2>3, <2>4
<1>6. Good(QuoteCount)
  <2> HIDE DEF P
  <2>1. QuoteCount \in P
    BY <1>1, <1>4, <1>5, SetInduction
  <2> QED
    BY <1>1, <2>1 DEF P
<1> QED
  BY <1>2, <1>3, <1>6

-----------------------------------------------------------------------------
(***************************************************************************)
(* The invariant.  A quote that may still be minted has its reservation;   *)
(* a ticket is booked, or its reservation lasts until the poker books it;  *)
(* what is minted or may be minted, forgotten quotes apart, fits the caps. *)
(***************************************************************************)
\* The grace outlasts a mint at the last moment and the poll that finds it.
PolledInTime == Lag + PollDelay < Grace

Mintable(q) ==
  request[q] \in {"signing", "quoted"} /\ ticket[q] = "none" /\ now - Lag <= deadline[q]

\* Tickets come from quotes, logs from tickets, and prices are for a running writer.
ChainInv ==
  /\ \A q \in Quotes : ticket[q] # "none" => request[q] = "quoted"
  /\ \A q \in Quotes : ticket[q] = "open" => mintedAt[q] <= deadline[q] + Lag
  /\ \A i \in DOMAIN logs : /\ logs[i].kind = "minted" => ticket[logs[i].id] # "none"
                            /\ logs[i].kind = "resolved" => ticket[logs[i].id] = "resolved"
  /\ \A i \in batch.minted : logs[i].kind = "minted"
  /\ \A i \in batch.resolved : logs[i].kind = "resolved"
  /\ \A q \in Quotes : request[q] = "priced" => Seeded

BookInv ==
  /\ \A q \in Quotes : reservations[q] # None => reservations[q] = deadline[q]
  /\ \A q \in Quotes \ forgotten : Mintable(q) => reservations[q] # None
  /\ Seeded => \A q \in Quotes :
       ticket[q] = "open" /\ q \notin open => /\ now <= mintedAt[q] + PollDelay
                                              /\ q \notin forgotten => reservations[q] # None

Alive == {q \in Quotes \ forgotten : ticket[q] = "open" \/ Mintable(q)}
CapsInv ==
  /\ \A v \in Vaults : \E cap \in VaultCaps : RiskOf({q \in Alive : BetsOn(q, v)}) <= cap
  /\ \A c \in Clusters : RiskOf({q \in Alive : BetsIn(q, c)}) <= ClusterCap

IInv == TypeOK /\ ChainInv /\ BookInv /\ CapsInv

\* A live quote is in the book.
LEMMA LiveIsBooked ==
  ASSUME PolledInTime, TypeOK, ChainInv, BookInv, Seeded, NEW q \in Alive
  PROVE  Booked(q)
<1>1. /\ deadline[q] \in Nat /\ now \in Nat /\ mintedAt[q] \in Nat
      /\ {Grace, Lag, PollDelay} \subseteq Nat
  BY WriterAssumption DEF TypeOK, Alive
<1>2. CASE Mintable(q)
  <2>1. reservations[q] # None /\ reservations[q] = deadline[q] /\ now - Lag <= deadline[q]
    BY <1>2 DEF Alive, BookInv, Mintable
  <2> QED
    BY <1>1, <2>1 DEF Booked, Reserved, PolledInTime
<1>3. CASE ticket[q] = "open" /\ q \notin open
  <2>1. /\ reservations[q] # None /\ reservations[q] = deadline[q]
        /\ now <= mintedAt[q] + PollDelay /\ mintedAt[q] <= deadline[q] + Lag
    BY <1>3 DEF Alive, BookInv, ChainInv
  <2> QED
    BY <1>1, <2>1 DEF Booked, Reserved, PolledInTime
<1> QED
  BY <1>2, <1>3 DEF Alive, Booked

-----------------------------------------------------------------------------
(***************************************************************************)
(* Types.                                                                  *)
(***************************************************************************)
LEMMA InitType == Init => TypeOK
BY WriterAssumption DEF Init, TypeOK, NoBatch, None, Quotes

\* One more log: what pointed into the logs still does.
LEMMA LogGrows ==
  ASSUME TypeOK, NEW e \in Event, logs' = Append(logs, e),
         UNCHANGED <<nextBlock, batch, scannedTo>>
  PROVE  /\ logs' \in Seq(Event)
         /\ nextBlock' \in 0 .. Len(logs')
         /\ scannedTo' \in 0 .. Len(logs')
         /\ batch' \in [minted : SUBSET DOMAIN logs', resolved : SUBSET DOMAIN logs',
                        toBlock : 0 .. Len(logs')]
<1>1. logs' \in Seq(Event) /\ Len(logs') = Len(logs) + 1 /\ Len(logs) \in Nat
  BY DEF TypeOK
<1>2. DOMAIN logs = 1 .. Len(logs) /\ DOMAIN logs' = 1 .. Len(logs')
  BY <1>1 DEF TypeOK
<1>3. DOMAIN logs \subseteq DOMAIN logs' /\ 0 .. Len(logs) \subseteq 0 .. Len(logs')
  BY <1>1, <1>2
<1> QED
  BY <1>1, <1>3 DEF TypeOK

LEMMA TypeStep == TypeOK /\ [Next]_vars => TypeOK'
<1> SUFFICES ASSUME TypeOK, [Next]_vars PROVE TypeOK'
  OBVIOUS
<1>0. /\ Bankroll \in Nat /\ Ttl \in Nat /\ MaxTime \in Nat /\ MaxMishaps \in Nat
      /\ \A q \in Quotes : Risk[q] \in Nat
  BY WriterAssumption
<1> USE DEF TypeOK, chain, desk, poker
<1>m. ASSUME Mishap PROVE mishaps' \in 0 .. MaxMishaps
  BY <1>0, <1>m DEF Mishap
<1>1. ASSUME NEW q \in Quotes, Price(q) PROVE TypeOK'
  <2>1. /\ request' \in [Quotes -> {"new", "priced", "signing", "quoted", "rejected"}]
        /\ allowance' \in [Quotes -> 0 .. Bankroll]
    <3>1. CASE AllUnsettled(q)
      <4>1. request' = [request EXCEPT ![q] = "priced"] /\ allowance' = [allowance EXCEPT ![q] = room]
        BY <1>1, <3>1, Zenon DEF Price
      <4> QED
        BY <4>1
    <3>2. CASE ~AllUnsettled(q)
      BY <1>1, <3>2 DEF Price
    <3> QED
      BY <3>1, <3>2
  <2> QED
    BY <1>1, <2>1 DEF Price
<1>2. ASSUME NEW q \in Quotes, NEW cap \in VaultCaps, CheckAndReserve(q, cap) PROVE TypeOK'
  <2>1. now + Ttl \in 0 .. MaxTime + Ttl /\ 0 \in 0 .. Bankroll
    BY <1>0
  <2>2. /\ request' \in [Quotes -> {"new", "priced", "signing", "quoted", "rejected"}]
        /\ reservations' \in [Quotes -> {None} \union 0 .. MaxTime + Ttl]
        /\ deadline' \in [Quotes -> 0 .. MaxTime + Ttl]
    <3>1. CASE Fits(q, cap)
      <4>1. /\ request' = [request EXCEPT ![q] = "signing"]
            /\ reservations' = [reservations EXCEPT ![q] = now + Ttl]
            /\ deadline' = [deadline EXCEPT ![q] = now + Ttl]
        BY <1>2, <3>1, Zenon DEF CheckAndReserve, Reserve
      <4> QED
        BY <2>1, <4>1
    <3>2. CASE ~Fits(q, cap)
      BY <1>2, <3>2 DEF CheckAndReserve, Reserve
    <3> QED
      BY <3>1, <3>2
  <2>3. allowance' \in [Quotes -> 0 .. Bankroll]
    BY <1>2, <2>1 DEF CheckAndReserve, Reserve
  <2> QED
    BY <1>2, <2>2, <2>3 DEF CheckAndReserve, Reserve
<1>3. ASSUME NEW q \in Quotes, Deliver(q) PROVE TypeOK'
  BY <1>3 DEF Deliver
<1>4. ASSUME NEW q \in Quotes, FailQuote(q) PROVE TypeOK'
  BY <1>4, <1>m DEF FailQuote, Release
<1>5. ASSUME NEW q \in Quotes, Mint(q) PROVE TypeOK'
  <2>1. room' \in 0 .. Bankroll
    BY SMTT(40), <1>0, <1>5 DEF Mint, Funded
  <2>2. [kind |-> "minted", id |-> q] \in Event
    BY DEF Event
  <2>3. logs' = Append(logs, [kind |-> "minted", id |-> q]) /\ UNCHANGED <<nextBlock, batch, scannedTo>>
    BY <1>5 DEF Mint
  <2>4. /\ logs' \in Seq(Event)
        /\ nextBlock' \in 0 .. Len(logs')
        /\ scannedTo' \in 0 .. Len(logs')
        /\ batch' \in [minted : SUBSET DOMAIN logs', resolved : SUBSET DOMAIN logs',
                       toBlock : 0 .. Len(logs')]
    BY <2>2, <2>3, LogGrows
  <2>5. ticket' \in [Quotes -> {"none", "open", "resolved"}] /\ mintedAt' \in [Quotes -> 0 .. MaxTime]
    BY <1>5 DEF Mint
  <2> QED
    BY <1>5, <2>1, <2>4, <2>5 DEF Mint
<1>6. ASSUME NEW v \in Vaults, NEW f \in Outcomes[v], Settle(v, f) PROVE TypeOK'
  <2>1. f \in {"zero", "part", "one"}
    BY WriterAssumption
  <2> QED
    BY <1>6, <2>1 DEF Settle
<1>7. ASSUME NEW q \in Quotes, Resolved(q), UNCHANGED <<nextBlock, batch, scannedTo>>
      PROVE  /\ logs' \in Seq(Event)
             /\ nextBlock' \in 0 .. Len(logs')
             /\ scannedTo' \in 0 .. Len(logs')
             /\ batch' \in [minted : SUBSET DOMAIN logs', resolved : SUBSET DOMAIN logs',
                            toBlock : 0 .. Len(logs')]
             /\ ticket' \in [Quotes -> {"none", "open", "resolved"}]
  <2>1. [kind |-> "resolved", id |-> q] \in Event
    BY DEF Event
  <2>2. ticket' \in [Quotes -> {"none", "open", "resolved"}]
    BY <1>7 DEF Resolved
  <2>3. logs' = Append(logs, [kind |-> "resolved", id |-> q])
    BY <1>7 DEF Resolved
  <2> QED
    BY <1>7, <2>1, <2>2, <2>3, LogGrows
<1>8. ASSUME NEW q \in Quotes, PublicResolve(q) PROVE TypeOK'
  <2>1. Resolved(q) /\ UNCHANGED <<nextBlock, batch, scannedTo>>
    BY <1>8 DEF PublicResolve
  <2> QED
    BY <1>7, <1>8, <2>1 DEF PublicResolve
<1>9. CASE Tick
  <2>1. now' \in 0 .. MaxTime
    BY <1>0, <1>9 DEF Tick
  <2> QED
    BY <1>9, <2>1 DEF Tick
<1>10. ASSUME NEW toBlock \in nextBlock .. Len(logs), FetchEvents(toBlock) PROVE TypeOK'
  <2>1. Len(logs) \in Nat /\ DOMAIN logs = 1 .. Len(logs)
    OBVIOUS
  <2>2. \A kind : LogsOf(kind, toBlock) \subseteq DOMAIN logs
    BY <2>1 DEF LogsOf
  <2>3. toBlock \in 0 .. Len(logs)
    BY <2>1
  <2>4. batch' \in [minted : SUBSET DOMAIN logs, resolved : SUBSET DOMAIN logs, toBlock : 0 .. Len(logs)]
    BY <1>10, <2>2, <2>3 DEF FetchEvents
  <2>5. mishaps' \in 0 .. MaxMishaps
    BY <1>10, <1>m DEF FetchEvents
  <2> QED
    BY <1>10, <2>4, <2>5 DEF FetchEvents
<1>11. CASE BookMint
  <2>1. PICK i \in batch.minted : /\ batch' = [batch EXCEPT !.minted = @ \ {i}]
                                  /\ OnMinted(logs[i].id)
    BY <1>11 DEF BookMint
  <2>2. logs[i].id \in Quotes
    <3>1. logs[i] \in Event
      BY <2>1
    <3> QED
      BY <3>1 DEF Event
  <2>3. /\ open' \subseteq Quotes
        /\ reservations' \in [Quotes -> {None} \union 0 .. MaxTime + Ttl]
        /\ mintedAt' \in [Quotes -> 0 .. MaxTime]
    <3>1. 0 \in 0 .. MaxTime
      BY <1>0
    <3> QED
      BY <2>1, <2>2, <3>1 DEF OnMinted, Release
  <2>4. batch' \in [minted : SUBSET DOMAIN logs, resolved : SUBSET DOMAIN logs, toBlock : 0 .. Len(logs)]
    BY <2>1
  <2> QED
    BY <1>11, <2>3, <2>4 DEF BookMint
<1>12. CASE FinishBatch
  <2>1. NoBatch \in [minted : SUBSET DOMAIN logs, resolved : SUBSET DOMAIN logs, toBlock : 0 .. Len(logs)]
    BY DEF NoBatch
  <2>2. open' \subseteq Quotes /\ toPoke' \subseteq Quotes
    BY <1>12 DEF FinishBatch, SaveIndex, DropResolved
  <2>3. mishaps' \in 0 .. MaxMishaps /\ scannedTo' \in 0 .. Len(logs) /\ nextBlock' \in 0 .. Len(logs)
    BY <1>12, <1>m DEF FinishBatch, ScanEnd, SaveIndex
  <2>4. pc' \in {"down", "seeding", "idle", "booking", "poking"}
    BY <1>12 DEF FinishBatch, ScanEnd, SaveIndex
  <2> QED
    BY <1>12, <2>1, <2>2, <2>3, <2>4 DEF FinishBatch, ScanEnd, SaveIndex
<1>13. ASSUME NEW q \in Quotes, PokeDone(q)
       PROVE  toPoke' \subseteq Quotes /\ pc' \in {"down", "seeding", "idle", "booking", "poking"}
  BY <1>13 DEF PokeDone
<1>14. ASSUME NEW q \in Quotes, Poke(q) PROVE TypeOK'
  <2>1. PokeDone(q) /\ UNCHANGED mishaps
    BY <1>14 DEF Poke
  <2>2. CASE Resolved(q)
    <3>1. UNCHANGED <<nextBlock, batch, scannedTo>>
      BY <2>1 DEF PokeDone
    <3> QED
      BY <1>7, <1>13, <2>1, <2>2, <3>1 DEF PokeDone
  <2>3. CASE UNCHANGED <<ticket, logs>>
    BY <1>13, <2>1, <2>3 DEF PokeDone
  <2> QED
    BY <1>14, <2>2, <2>3 DEF Poke
<1>15. ASSUME NEW q \in Quotes, PokeFails(q) PROVE TypeOK'
  BY <1>13, <1>15, <1>m DEF PokeFails, PokeDone
<1>16. CASE TickFails
  BY <1>16, <1>m DEF TickFails, NoBatch
<1>17. CASE Crash
  <2>1. request' \in [Quotes -> {"new", "priced", "signing", "quoted", "rejected"}]
    BY <1>17 DEF Crash
  <2>2. reservations' \in [Quotes -> {None} \union 0 .. MaxTime + Ttl] /\ forgotten' \subseteq Quotes
    BY <1>17 DEF Crash
  <2> QED
    BY <1>17, <1>m, <2>1, <2>2 DEF Crash, NoBatch
<1>18. CASE SeedHead
  BY <1>18 DEF SeedHead
<1>19. CASE SeedOpen
  <2>1. mintedAt' \in [Quotes -> 0 .. MaxTime] /\ open' \subseteq Quotes
    BY <1>0, <1>19 DEF SeedOpen, OpenTickets
  <2> QED
    BY <1>19, <2>1 DEF SeedOpen
<1>20. CASE UNCHANGED vars
  BY <1>20 DEF vars
<1> HIDE DEF TypeOK, chain, desk, poker
<1>21. CASE Poker
  <2>1. nextBlock <= Len(logs) /\ Len(logs) \in nextBlock .. Len(logs)
    BY DEF TypeOK
  <2> QED
    BY <1>10, <1>11, <1>12, <1>14, <1>18, <1>19, <1>21, <2>1 DEF Poker
<1> QED
  BY <1>1, <1>2, <1>3, <1>4, <1>5, <1>6, <1>8, <1>9, <1>10, <1>15, <1>16, <1>17, <1>20, <1>21
  DEF Next, ReadTo

-----------------------------------------------------------------------------
(***************************************************************************)
(* The chain and the poker's view of it.                                   *)
(***************************************************************************)
LEMMA InitChain == Init => ChainInv
<1> SUFFICES ASSUME Init PROVE ChainInv
  OBVIOUS
<1>1. DOMAIN logs = {} /\ batch.minted = {} /\ batch.resolved = {}
  BY DEF Init, NoBatch
<1> QED
  BY <1>1 DEF Init, ChainInv

\* Tickets, logs and requests by parts.
TicketsOK ==
  /\ \A q \in Quotes : ticket[q] # "none" => request[q] = "quoted"
  /\ \A q \in Quotes : ticket[q] = "open" => mintedAt[q] <= deadline[q] + Lag
LogsOK ==
  \A i \in DOMAIN logs : /\ logs[i].kind = "minted" => ticket[logs[i].id] # "none"
                         /\ logs[i].kind = "resolved" => ticket[logs[i].id] = "resolved"
BatchOK ==
  /\ \A i \in batch.minted : logs[i].kind = "minted"
  /\ \A i \in batch.resolved : logs[i].kind = "resolved"
PricesOK == \A q \in Quotes : request[q] = "priced" => Seeded

LEMMA ChainParts == ChainInv <=> TicketsOK /\ LogsOK /\ BatchOK /\ PricesOK
BY DEF ChainInv, TicketsOK, LogsOK, BatchOK, PricesOK

\* A log of what just happened to q's ticket.
LEMMA LogFollows ==
  ASSUME TypeOK, LogsOK, BatchOK, NEW q \in Quotes, NEW e \in Event, e.id = q,
         logs' = Append(logs, e), UNCHANGED batch,
         e.kind = "minted" => ticket'[q] # "none",
         e.kind = "resolved" => ticket'[q] = "resolved",
         \A r \in Quotes : ticket'[r] = ticket[r] \/ (r = q /\ ticket[r] # "resolved" /\ ticket'[r] # "none")
  PROVE  LogsOK' /\ BatchOK'
<1>1. /\ DOMAIN logs' = 1 .. Len(logs) + 1 /\ DOMAIN logs = 1 .. Len(logs) /\ Len(logs) \in Nat
      /\ \A i \in DOMAIN logs : logs'[i] = logs[i]
      /\ logs'[Len(logs) + 1] = e
  BY DEF TypeOK
<1>2. \A i \in DOMAIN logs : logs[i] \in Event
  BY DEF TypeOK
<1>3. \A i \in DOMAIN logs : logs[i].id \in Quotes
  BY <1>2 DEF Event
<1>4. ASSUME NEW i \in DOMAIN logs'
      PROVE  /\ logs'[i].kind = "minted" => ticket'[logs'[i].id] # "none"
             /\ logs'[i].kind = "resolved" => ticket'[logs'[i].id] = "resolved"
  <2>1. CASE i \in DOMAIN logs
    <3>1. logs'[i] = logs[i] /\ logs[i].id \in Quotes
      BY <1>1, <1>3, <2>1
    <3>2. /\ logs[i].kind = "minted" => ticket[logs[i].id] # "none"
          /\ logs[i].kind = "resolved" => ticket[logs[i].id] = "resolved"
      BY <2>1 DEF LogsOK
    <3> QED
      BY <3>1, <3>2
  <2>2. CASE i = Len(logs) + 1
    BY <1>1, <2>2
  <2> QED
    BY <1>1, <1>4, <2>1, <2>2
<1>5. LogsOK'
  BY <1>4 DEF LogsOK
<1>6. batch.minted \subseteq DOMAIN logs /\ batch.resolved \subseteq DOMAIN logs
  BY DEF TypeOK
<1>7. BatchOK'
  BY <1>1, <1>6 DEF BatchOK
<1> QED
  BY <1>5, <1>7

LEMMA ChainStep ==
  ASSUME TypeOK, ChainInv, [Next]_vars
  PROVE  ChainInv'
<1>0. TicketsOK /\ LogsOK /\ BatchOK /\ PricesOK
  BY ChainParts
<1> SUFFICES TicketsOK' /\ LogsOK' /\ BatchOK' /\ PricesOK'
  BY DEF ChainInv, TicketsOK, LogsOK, BatchOK, PricesOK
<1>t. /\ request \in [Quotes -> {"new", "priced", "signing", "quoted", "rejected"}]
      /\ ticket \in [Quotes -> {"none", "open", "resolved"}]
      /\ Lag \in Nat /\ now \in Nat
      /\ \A q \in Quotes : deadline[q] \in Nat /\ mintedAt[q] \in Nat
  BY SMTT(40), WriterAssumption DEF TypeOK
<1>a. ASSUME UNCHANGED <<logs, ticket, batch>> PROVE LogsOK' /\ BatchOK'
  BY <1>0, <1>a DEF LogsOK, BatchOK
<1>b. ASSUME UNCHANGED <<ticket, request, mintedAt, deadline>> PROVE TicketsOK'
  BY <1>0, <1>b DEF TicketsOK
<1>c. ASSUME UNCHANGED <<request, pc>> PROVE PricesOK'
  BY <1>0, <1>c DEF PricesOK, Seeded
<1>d. ASSUME UNCHANGED <<logs, ticket>>, batch' = NoBatch PROVE LogsOK' /\ BatchOK'
  BY <1>0, <1>d DEF LogsOK, BatchOK, NoBatch
\* A request moves on, but does not leave "quoted".
<1>e. ASSUME NEW q \in Quotes, NEW to \in {"priced", "signing", "quoted", "rejected"},
             request[q] # "quoted", request' = [request EXCEPT ![q] = to],
             to = "priced" => Seeded, UNCHANGED <<ticket, mintedAt, pc>>,
             \A r \in Quotes : r # q => deadline'[r] = deadline[r]
      PROVE  TicketsOK' /\ PricesOK'
  BY <1>0, <1>t, <1>e DEF TicketsOK, PricesOK, Seeded
<1> USE DEF chain, desk, poker
<1>1. ASSUME NEW q \in Quotes, Price(q) PROVE TicketsOK' /\ LogsOK' /\ BatchOK' /\ PricesOK'
  <2>1. LogsOK' /\ BatchOK'
    BY <1>a, <1>1 DEF Price
  <2>2. \E to \in {"priced", "rejected"} : request' = [request EXCEPT ![q] = to]
    BY <1>1, Zenon DEF Price
  <2>3. request[q] # "quoted" /\ Seeded /\ UNCHANGED <<ticket, mintedAt, pc, deadline>>
    BY <1>1 DEF Price
  <2> QED
    BY <1>e, <2>1, <2>2, <2>3
<1>2. ASSUME NEW q \in Quotes, NEW cap \in VaultCaps, CheckAndReserve(q, cap)
      PROVE  TicketsOK' /\ LogsOK' /\ BatchOK' /\ PricesOK'
  <2>1. LogsOK' /\ BatchOK'
    BY <1>a, <1>2 DEF CheckAndReserve, Reserve
  <2>2. \E to \in {"signing", "rejected"} : request' = [request EXCEPT ![q] = to]
    BY <1>2, Zenon DEF CheckAndReserve, Reserve
  <2>3. \/ deadline' = [deadline EXCEPT ![q] = now + Ttl]
        \/ deadline' = deadline
    BY <1>2, Zenon DEF CheckAndReserve, Reserve
  <2>4. \A r \in Quotes : r # q => deadline'[r] = deadline[r]
    BY <2>3 DEF TypeOK
  <2>5. request[q] # "quoted" /\ UNCHANGED <<ticket, mintedAt, pc>>
    BY <1>2 DEF CheckAndReserve, Reserve
  <2> QED
    BY <1>e, <2>1, <2>2, <2>4, <2>5
<1>3. ASSUME NEW q \in Quotes, Deliver(q) PROVE TicketsOK' /\ LogsOK' /\ BatchOK' /\ PricesOK'
  BY <1>a, <1>e, <1>3 DEF Deliver
<1>4. ASSUME NEW q \in Quotes, FailQuote(q) PROVE TicketsOK' /\ LogsOK' /\ BatchOK' /\ PricesOK'
  BY <1>a, <1>e, <1>4 DEF FailQuote, Release
<1>5. ASSUME NEW q \in Quotes, Mint(q) PROVE TicketsOK' /\ LogsOK' /\ BatchOK' /\ PricesOK'
  <2>1. /\ ticket' = [ticket EXCEPT ![q] = "open"] /\ mintedAt' = [mintedAt EXCEPT ![q] = now]
        /\ request[q] = "quoted" /\ ticket[q] = "none" /\ now - Lag <= deadline[q]
        /\ UNCHANGED <<request, deadline, batch, pc>>
    BY <1>5 DEF Mint
  <2>2. TicketsOK'
    <3>1. mintedAt'[q] = now /\ ticket'[q] = "open"
          /\ \A r \in Quotes : r # q => mintedAt'[r] = mintedAt[r] /\ ticket'[r] = ticket[r]
      BY <1>t, <2>1 DEF TypeOK
    <3>2. now <= deadline[q] + Lag
      BY <1>t, <2>1
    <3> QED
      BY <1>0, <2>1, <3>1, <3>2 DEF TicketsOK
  <2> DEFINE e == [kind |-> "minted", id |-> q]
  <2>3. e \in Event /\ e.id = q /\ e.kind = "minted" /\ logs' = Append(logs, e)
    BY <1>5 DEF Mint, Event
  <2>4. \A r \in Quotes : ticket'[r] = ticket[r] \/ (r = q /\ ticket[r] # "resolved" /\ ticket'[r] # "none")
    BY <1>t, <2>1
  <2>5. ticket'[q] = "open"
    BY <1>t, <2>1
  <2> HIDE DEF e
  <2>6. LogsOK' /\ BatchOK'
    BY <1>0, <2>1, <2>3, <2>4, <2>5, LogFollows
  <2> QED
    BY <1>c, <2>1, <2>2, <2>6
<1>6. ASSUME NEW v \in Vaults, NEW f \in Outcomes[v], Settle(v, f)
      PROVE  TicketsOK' /\ LogsOK' /\ BatchOK' /\ PricesOK'
  BY <1>a, <1>b, <1>c, <1>6 DEF Settle
<1>7. ASSUME NEW q \in Quotes, Resolvable(q), Resolved(q), UNCHANGED <<request, mintedAt, deadline, batch>>
      PROVE  TicketsOK' /\ LogsOK' /\ BatchOK'
  <2>1. ticket' = [ticket EXCEPT ![q] = "resolved"] /\ ticket[q] = "open"
    BY <1>7 DEF Resolvable, Resolved
  <2>2. TicketsOK'
    BY <1>0, <1>t, <1>7, <2>1 DEF TicketsOK
  <2> DEFINE e == [kind |-> "resolved", id |-> q]
  <2>3. e \in Event /\ e.id = q /\ e.kind = "resolved" /\ logs' = Append(logs, e)
    BY <1>7 DEF Resolved, Event
  <2>4. \A r \in Quotes : ticket'[r] = ticket[r] \/ (r = q /\ ticket[r] # "resolved" /\ ticket'[r] # "none")
    BY <1>t, <2>1
  <2>5. ticket'[q] = "resolved"
    BY <1>t, <2>1
  <2> HIDE DEF e
  <2>6. LogsOK' /\ BatchOK'
    BY <1>0, <1>7, <2>3, <2>4, <2>5, LogFollows
  <2> QED
    BY <2>2, <2>6
<1>8. ASSUME NEW q \in Quotes, PublicResolve(q) PROVE TicketsOK' /\ LogsOK' /\ BatchOK' /\ PricesOK'
  BY <1>7, <1>c, <1>8 DEF PublicResolve
<1>9. CASE Tick
  BY <1>a, <1>b, <1>c, <1>9 DEF Tick
<1>10. ASSUME NEW toBlock \in nextBlock .. Len(logs), FetchEvents(toBlock)
       PROVE  TicketsOK' /\ LogsOK' /\ BatchOK' /\ PricesOK'
  <2>1. batch' = [minted |-> LogsOf("minted", toBlock), resolved |-> LogsOf("resolved", toBlock),
                  toBlock |-> toBlock] /\ UNCHANGED logs
    BY <1>10 DEF FetchEvents
  <2>2. BatchOK'
    BY <2>1 DEF BatchOK, LogsOf
  <2>3. LogsOK' /\ TicketsOK'
    BY <1>0, <1>b, <1>10 DEF FetchEvents, LogsOK
  <2>4. PricesOK'
    BY <1>0, <1>10 DEF FetchEvents, PricesOK, Seeded
  <2> QED
    BY <2>2, <2>3, <2>4
<1>11. CASE BookMint
  <2>1. PICK i \in batch.minted : /\ batch' = [batch EXCEPT !.minted = @ \ {i}]
                                  /\ OnMinted(logs[i].id)
    BY <1>11 DEF BookMint
  <2>2. mintedAt' = [mintedAt EXCEPT ![logs[i].id] = 0] /\ UNCHANGED <<logs, ticket, request, deadline, pc>>
    BY <1>11, <2>1 DEF BookMint, OnMinted, Release
  <2>3. TicketsOK'
    BY <1>0, <1>t, <2>2 DEF TicketsOK, TypeOK
  <2>4. LogsOK' /\ BatchOK'
    BY <1>0, <2>1, <2>2 DEF LogsOK, BatchOK, TypeOK
  <2> QED
    BY <1>c, <2>2, <2>3, <2>4
<1>12. CASE FinishBatch
  <2>1. TicketsOK' /\ LogsOK' /\ BatchOK'
    BY <1>b, <1>d, <1>12 DEF FinishBatch, SaveIndex
  <2>2. Seeded' /\ UNCHANGED request
    BY <1>12 DEF FinishBatch, SaveIndex, Seeded
  <2> QED
    BY <2>1, <2>2 DEF PricesOK
<1>13. ASSUME NEW q \in Quotes, PokeDone(q)
       PROVE  /\ Seeded' /\ UNCHANGED <<request, mintedAt, deadline, batch>>
              /\ PricesOK'
  BY <1>13 DEF PokeDone, Seeded, PricesOK
<1>14. ASSUME NEW q \in Quotes, Poke(q) PROVE TicketsOK' /\ LogsOK' /\ BatchOK' /\ PricesOK'
  <2>1. PokeDone(q)
    BY <1>14 DEF Poke
  <2>2. CASE Resolvable(q)
    <3>1. Resolved(q)
      BY <1>14, <2>2 DEF Poke
    <3> QED
      BY <1>7, <1>13, <2>1, <2>2, <3>1
  <2>3. CASE UNCHANGED <<ticket, logs>>
    BY <1>a, <1>b, <1>13, <2>1, <2>3
  <2> QED
    BY <1>14, <2>2, <2>3 DEF Poke
<1>15. ASSUME NEW q \in Quotes, PokeFails(q) PROVE TicketsOK' /\ LogsOK' /\ BatchOK' /\ PricesOK'
  BY <1>a, <1>b, <1>13, <1>15 DEF PokeFails
<1>16. CASE TickFails
  <2>1. TicketsOK' /\ LogsOK' /\ BatchOK'
    BY <1>b, <1>d, <1>16 DEF TickFails
  <2>2. Seeded' /\ UNCHANGED request
    BY <1>16 DEF TickFails, Seeded
  <2> QED
    BY <2>1, <2>2 DEF PricesOK
<1>17. CASE Crash
  <2>1. request' = [q \in Quotes |-> IF request[q] \in {"priced", "signing"} THEN "rejected" ELSE request[q]]
        /\ UNCHANGED <<ticket, mintedAt, deadline, logs>> /\ batch' = NoBatch
    BY <1>17 DEF Crash
  <2>2. TicketsOK'
    BY <1>0, <2>1 DEF TicketsOK
  <2>3. PricesOK'
    BY <2>1 DEF PricesOK
  <2> QED
    BY <1>d, <2>1, <2>2, <2>3
<1>18. CASE SeedHead
  <2>1. UNCHANGED request /\ ~Seeded
    BY <1>18 DEF SeedHead, Seeded
  <2>2. PricesOK'
    BY <1>0, <2>1 DEF PricesOK
  <2> QED
    BY <1>a, <1>b, <1>18, <2>2 DEF SeedHead
<1>19. CASE SeedOpen
  <2>1. mintedAt' = [q \in Quotes |-> 0] /\ UNCHANGED <<ticket, request, deadline>> /\ Seeded'
    BY <1>19 DEF SeedOpen, Seeded
  <2>2. TicketsOK' /\ PricesOK'
    BY <1>0, <1>t, <2>1 DEF TicketsOK, PricesOK
  <2> QED
    BY <1>a, <1>19, <2>2 DEF SeedOpen
<1>20. CASE UNCHANGED vars
  BY <1>a, <1>b, <1>c, <1>20 DEF vars
<1>21. CASE Poker
  <2>1. nextBlock <= Len(logs) /\ Len(logs) \in nextBlock .. Len(logs)
    BY DEF TypeOK
  <2> QED
    BY <1>10, <1>11, <1>12, <1>14, <1>18, <1>19, <1>21, <2>1 DEF Poker
<1> QED
  BY <1>1, <1>2, <1>3, <1>4, <1>5, <1>6, <1>8, <1>9, <1>10, <1>15, <1>16, <1>17, <1>20, <1>21
  DEF Next, ReadTo

-----------------------------------------------------------------------------
(***************************************************************************)
(* The book.                                                               *)
(***************************************************************************)
ReservedUntilDeadline == \A q \in Quotes : reservations[q] # None => reservations[q] = deadline[q]
MintableIsReserved == \A q \in Quotes \ forgotten : Mintable(q) => reservations[q] # None
UnbookedIsRecent ==
  Seeded => \A q \in Quotes :
    ticket[q] = "open" /\ q \notin open => /\ now <= mintedAt[q] + PollDelay
                                           /\ q \notin forgotten => reservations[q] # None

LEMMA BookStep ==
  ASSUME TypeOK, ChainInv, BookInv, [Next]_vars
  PROVE  BookInv'
<1>0. ReservedUntilDeadline /\ MintableIsReserved /\ UnbookedIsRecent
  BY DEF BookInv, ReservedUntilDeadline, MintableIsReserved, UnbookedIsRecent
<1> SUFFICES ReservedUntilDeadline' /\ MintableIsReserved' /\ UnbookedIsRecent'
  BY DEF BookInv, ReservedUntilDeadline, MintableIsReserved, UnbookedIsRecent
<1>t. /\ request \in [Quotes -> {"new", "priced", "signing", "quoted", "rejected"}]
      /\ ticket \in [Quotes -> {"none", "open", "resolved"}]
      /\ reservations \in [Quotes -> {None} \union 0 .. MaxTime + Ttl]
      /\ Lag \in Nat /\ now \in Nat /\ Ttl \in Nat /\ PollDelay \in Nat
      /\ \A q \in Quotes : deadline[q] \in Nat /\ mintedAt[q] \in Nat
      /\ \A q \in Quotes : ticket[q] # "none" => request[q] = "quoted"
  BY SMTT(40), WriterAssumption DEF TypeOK, ChainInv
<1>a. ASSUME UNCHANGED <<reservations, deadline>> PROVE ReservedUntilDeadline'
  BY <1>0, <1>a DEF ReservedUntilDeadline
<1>b. ASSUME UNCHANGED <<request, ticket, deadline, reservations, forgotten, now>> PROVE MintableIsReserved'
  BY <1>0, <1>b DEF MintableIsReserved, Mintable
<1>c. ASSUME UNCHANGED <<ticket, open, mintedAt, reservations, forgotten, now>>, Seeded' => Seeded
      PROVE  UnbookedIsRecent'
  BY <1>0, <1>c DEF UnbookedIsRecent
<1> USE DEF chain, desk, poker
<1>1. ASSUME NEW q \in Quotes, Price(q) PROVE ReservedUntilDeadline' /\ MintableIsReserved' /\ UnbookedIsRecent'
  <2>1. \E to \in {"priced", "rejected"} : request' = [request EXCEPT ![q] = to]
    BY <1>1, Zenon DEF Price
  <2>2. UNCHANGED <<reservations, deadline, ticket, forgotten, now, open, mintedAt, pc>>
    BY <1>1 DEF Price
  <2>3. MintableIsReserved'
    BY <1>0, <1>t, <2>1, <2>2 DEF MintableIsReserved, Mintable
  <2> QED
    BY <1>a, <1>c, <2>2, <2>3 DEF Seeded
<1>2. ASSUME NEW q \in Quotes, NEW cap \in VaultCaps, CheckAndReserve(q, cap)
      PROVE  ReservedUntilDeadline' /\ MintableIsReserved' /\ UnbookedIsRecent'
  <2>1. UNCHANGED <<ticket, forgotten, now, open, mintedAt, pc>> /\ request[q] = "priced"
    BY <1>2 DEF CheckAndReserve, Reserve
  <2>2. CASE Fits(q, cap)
    <3>1. /\ request' = [request EXCEPT ![q] = "signing"]
          /\ reservations' = [reservations EXCEPT ![q] = now + Ttl]
          /\ deadline' = [deadline EXCEPT ![q] = now + Ttl]
      BY <1>2, <2>2, Zenon DEF CheckAndReserve, Reserve
    <3>2. now + Ttl # None
      BY <1>t DEF None
    <3>3. \A r \in Quotes : /\ r # q => reservations'[r] = reservations[r] /\ deadline'[r] = deadline[r]
                                        /\ request'[r] = request[r]
                            /\ r = q => reservations'[r] = now + Ttl /\ deadline'[r] = now + Ttl
      BY <1>t, <3>1 DEF TypeOK
    <3>4. ReservedUntilDeadline'
      BY <1>0, <3>3 DEF ReservedUntilDeadline
    <3>5. MintableIsReserved'
      BY <1>0, <2>1, <3>2, <3>3 DEF MintableIsReserved, Mintable
    <3>6. UnbookedIsRecent'
      BY <1>0, <2>1, <3>2, <3>3 DEF UnbookedIsRecent, Seeded
    <3> QED
      BY <3>4, <3>5, <3>6
  <2>3. CASE ~Fits(q, cap)
    <3>1. request' = [request EXCEPT ![q] = "rejected"] /\ UNCHANGED <<reservations, deadline>>
      BY <1>2, <2>3, Zenon DEF CheckAndReserve, Reserve
    <3>2. MintableIsReserved'
      BY <1>0, <1>t, <2>1, <3>1 DEF MintableIsReserved, Mintable
    <3> QED
      BY <1>a, <1>c, <2>1, <3>1, <3>2 DEF Seeded
  <2> QED
    BY <2>2, <2>3
<1>3. ASSUME NEW q \in Quotes, Deliver(q) PROVE ReservedUntilDeadline' /\ MintableIsReserved' /\ UnbookedIsRecent'
  <2>1. request' = [request EXCEPT ![q] = "quoted"] /\ request[q] = "signing"
        /\ UNCHANGED <<reservations, deadline, ticket, forgotten, now, open, mintedAt, pc>>
    BY <1>3 DEF Deliver
  <2>2. MintableIsReserved'
    BY <1>0, <1>t, <2>1 DEF MintableIsReserved, Mintable
  <2> QED
    BY <1>a, <1>c, <2>1, <2>2 DEF Seeded
<1>4. ASSUME NEW q \in Quotes, FailQuote(q) PROVE ReservedUntilDeadline' /\ MintableIsReserved' /\ UnbookedIsRecent'
  <2>1. /\ request' = [request EXCEPT ![q] = "rejected"] /\ request[q] = "signing"
        /\ reservations' = [reservations EXCEPT ![q] = None]
        /\ UNCHANGED <<deadline, ticket, forgotten, now, open, mintedAt, pc>>
    BY <1>4 DEF FailQuote, Release
  <2>2. \A r \in Quotes : /\ r # q => reservations'[r] = reservations[r] /\ request'[r] = request[r]
                          /\ r = q => reservations'[r] = None /\ request'[r] = "rejected"
    BY <1>t, <2>1
  <2>3. ticket[q] = "none"
    BY <1>t, <2>1
  <2>4. ReservedUntilDeadline'
    BY <1>0, <2>1, <2>2 DEF ReservedUntilDeadline
  <2>5. MintableIsReserved'
    BY <1>0, <2>1, <2>2 DEF MintableIsReserved, Mintable
  <2>6. UnbookedIsRecent'
    BY <1>0, <2>1, <2>2, <2>3 DEF UnbookedIsRecent, Seeded
  <2> QED
    BY <2>4, <2>5, <2>6
<1>5. ASSUME NEW q \in Quotes, Mint(q) PROVE ReservedUntilDeadline' /\ MintableIsReserved' /\ UnbookedIsRecent'
  <2>1. /\ ticket' = [ticket EXCEPT ![q] = "open"] /\ mintedAt' = [mintedAt EXCEPT ![q] = now]
        /\ Mintable(q)
        /\ UNCHANGED <<reservations, deadline, request, forgotten, now, open, pc>>
    BY <1>5 DEF Mint, Mintable
  <2>2. \A r \in Quotes : /\ r # q => ticket'[r] = ticket[r] /\ mintedAt'[r] = mintedAt[r]
                          /\ r = q => ticket'[r] = "open" /\ mintedAt'[r] = now
    BY <1>t, <2>1 DEF TypeOK
  <2>3. MintableIsReserved'
    BY <1>0, <2>1, <2>2 DEF MintableIsReserved, Mintable
  <2>4. q \notin forgotten => reservations[q] # None
    BY <1>0, <2>1 DEF MintableIsReserved
  <2>5. UnbookedIsRecent'
    BY <1>0, <1>t, <2>1, <2>2, <2>4 DEF UnbookedIsRecent, Seeded
  <2> QED
    BY <1>a, <2>1, <2>3, <2>5
<1>6. ASSUME NEW v \in Vaults, NEW f \in Outcomes[v], Settle(v, f)
      PROVE  ReservedUntilDeadline' /\ MintableIsReserved' /\ UnbookedIsRecent'
  BY <1>a, <1>b, <1>c, <1>6 DEF Settle, Seeded
<1>7. ASSUME NEW q \in Quotes, Resolvable(q), Resolved(q),
             UNCHANGED <<request, mintedAt, deadline, reservations, forgotten, now, open>>,
             Seeded' => Seeded
      PROVE  ReservedUntilDeadline' /\ MintableIsReserved' /\ UnbookedIsRecent'
  <2>1. ticket' = [ticket EXCEPT ![q] = "resolved"] /\ ticket[q] = "open"
    BY <1>7 DEF Resolvable, Resolved
  <2>2. MintableIsReserved'
    BY <1>0, <1>t, <1>7, <2>1 DEF MintableIsReserved, Mintable
  <2>3. UnbookedIsRecent'
    BY <1>0, <1>t, <1>7, <2>1 DEF UnbookedIsRecent
  <2> QED
    BY <1>a, <1>7, <2>2, <2>3
<1>8. ASSUME NEW q \in Quotes, PublicResolve(q) PROVE ReservedUntilDeadline' /\ MintableIsReserved' /\ UnbookedIsRecent'
  BY <1>7, <1>8 DEF PublicResolve, Seeded
<1>9. CASE Tick
  <2>1. /\ now' = now + 1
        /\ Seeded => \A q \in Quotes : ticket[q] = "open" /\ q \notin open => now < mintedAt[q] + PollDelay
        /\ UNCHANGED <<request, ticket, mintedAt, deadline, reservations, forgotten, open, pc>>
    BY <1>9 DEF Tick
  <2>2. MintableIsReserved'
    <3>1. \A q \in Quotes : Mintable(q)' => Mintable(q)
      BY <1>t, <2>1 DEF Mintable
    <3> QED
      BY <1>0, <2>1, <3>1 DEF MintableIsReserved
  <2>3. UnbookedIsRecent'
    BY <1>0, <1>t, <2>1 DEF UnbookedIsRecent, Seeded
  <2> QED
    BY <1>a, <2>1, <2>2, <2>3
<1>10. ASSUME NEW toBlock \in nextBlock .. Len(logs), FetchEvents(toBlock)
       PROVE  ReservedUntilDeadline' /\ MintableIsReserved' /\ UnbookedIsRecent'
  BY <1>a, <1>b, <1>c, <1>10 DEF FetchEvents, Seeded
<1>11. CASE BookMint
  <2>1. PICK i \in batch.minted : OnMinted(logs[i].id)
    BY <1>11 DEF BookMint
  <2> DEFINE q == logs[i].id
  <2>2. i \in DOMAIN logs /\ logs[i].kind = "minted"
    BY DEF TypeOK, ChainInv
  <2>3. q \in Quotes /\ ticket[q] # "none"
    <3>1. logs[i] \in Event
      BY <2>2 DEF TypeOK
    <3> QED
      BY <2>2, <3>1 DEF Event, ChainInv
  <2>4. /\ open' = open \union {q}
        /\ reservations' = [reservations EXCEPT ![q] = None]
        /\ mintedAt' = [mintedAt EXCEPT ![q] = 0]
        /\ UNCHANGED <<request, ticket, deadline, forgotten, now, pc>>
    BY <1>11, <2>1 DEF BookMint, OnMinted, Release
  <2> HIDE DEF q
  <2>5. \A r \in Quotes : /\ r # q => reservations'[r] = reservations[r] /\ mintedAt'[r] = mintedAt[r]
                          /\ r = q => reservations'[r] = None
    BY <1>t, <2>3, <2>4 DEF TypeOK
  <2>6. ReservedUntilDeadline'
    BY <1>0, <2>4, <2>5 DEF ReservedUntilDeadline
  <2>7. MintableIsReserved'
    BY <1>0, <2>3, <2>4, <2>5 DEF MintableIsReserved, Mintable
  <2>8. UnbookedIsRecent'
    BY <1>0, <2>4, <2>5 DEF UnbookedIsRecent, Seeded
  <2> QED
    BY <2>6, <2>7, <2>8
<1>12. CASE FinishBatch
  <2>1. /\ open' = open \ {logs[i].id : i \in batch.resolved}
        /\ UNCHANGED <<request, ticket, mintedAt, deadline, reservations, forgotten, now>>
        /\ Seeded
    BY <1>12 DEF FinishBatch, SaveIndex, DropResolved, Seeded
  <2>2. \A i \in batch.resolved : ticket[logs[i].id] = "resolved"
    BY DEF TypeOK, ChainInv
  <2>3. \A q \in Quotes : ticket[q] = "open" /\ q \notin open' => q \notin open
    BY <2>1, <2>2
  <2>4. UnbookedIsRecent'
    BY <1>0, <2>1, <2>3 DEF UnbookedIsRecent
  <2> QED
    BY <1>a, <1>b, <2>1, <2>4
<1>13. ASSUME NEW q \in Quotes, PokeDone(q)
       PROVE  /\ UNCHANGED <<request, mintedAt, deadline, reservations, forgotten, now, open>>
  BY <1>13 DEF PokeDone
<1>14. ASSUME NEW q \in Quotes, Poke(q) PROVE ReservedUntilDeadline' /\ MintableIsReserved' /\ UnbookedIsRecent'
  <2>1. PokeDone(q) /\ Seeded
    BY <1>14 DEF Poke, Seeded
  <2>2. CASE Resolvable(q)
    <3>1. Resolved(q)
      BY <1>14, <2>2 DEF Poke
    <3> QED
      BY <1>7, <1>13, <2>1, <2>2, <3>1
  <2>3. CASE UNCHANGED <<ticket, logs>>
    BY <1>a, <1>b, <1>c, <1>13, <2>1, <2>3
  <2> QED
    BY <1>14, <2>2, <2>3 DEF Poke
<1>15. ASSUME NEW q \in Quotes, PokeFails(q) PROVE ReservedUntilDeadline' /\ MintableIsReserved' /\ UnbookedIsRecent'
  BY <1>a, <1>b, <1>c, <1>13, <1>15 DEF PokeFails, Seeded
<1>16. CASE TickFails
  BY <1>a, <1>b, <1>c, <1>16 DEF TickFails, Seeded
<1>17. CASE Crash
  <2>1. /\ request' = [q \in Quotes |-> IF request[q] \in {"priced", "signing"} THEN "rejected" ELSE request[q]]
        /\ reservations' = [q \in Quotes |-> None]
        /\ forgotten' = forgotten \union
             {q \in Quotes : request[q] = "quoted" /\ ticket[q] = "none" /\ now - Lag <= deadline[q]}
        /\ UNCHANGED <<ticket, deadline, now>> /\ ~Seeded'
    BY <1>17 DEF Crash, Seeded
  <2>2. \A q \in Quotes : Mintable(q)' => q \in forgotten'
    BY <2>1 DEF Mintable
  <2> QED
    BY <2>1, <2>2 DEF ReservedUntilDeadline, MintableIsReserved, UnbookedIsRecent
<1>18. CASE SeedHead
  BY <1>a, <1>b, <1>18 DEF SeedHead, UnbookedIsRecent, Seeded
<1>19. CASE SeedOpen
  <2>1. open' = OpenTickets /\ UNCHANGED <<request, ticket, deadline, reservations, forgotten, now>>
    BY <1>19 DEF SeedOpen
  <2>2. UnbookedIsRecent'
    BY <2>1 DEF UnbookedIsRecent, OpenTickets
  <2> QED
    BY <1>a, <1>b, <2>1, <2>2
<1>20. CASE UNCHANGED vars
  BY <1>a, <1>b, <1>c, <1>20 DEF vars, Seeded
<1>21. CASE Poker
  <2>1. nextBlock <= Len(logs) /\ Len(logs) \in nextBlock .. Len(logs)
    BY DEF TypeOK
  <2> QED
    BY <1>10, <1>11, <1>12, <1>14, <1>18, <1>19, <1>21, <2>1 DEF Poker
<1> QED
  BY <1>1, <1>2, <1>3, <1>4, <1>5, <1>6, <1>8, <1>9, <1>10, <1>15, <1>16, <1>17, <1>20, <1>21
  DEF Next, ReadTo

-----------------------------------------------------------------------------
(***************************************************************************)
(* The caps.  Only a reservation adds to what is live, and Fits has seen   *)
(* everything that is live in the book.                                    *)
(***************************************************************************)
LEMMA NothingAdded ==
  ASSUME CapsInv, Alive' \subseteq Alive
  PROVE  CapsInv'
<1>1. \A v \in Vaults : \E cap \in VaultCaps : RiskOf({q \in Alive' : BetsOn(q, v)}) <= cap
  <2> TAKE v \in Vaults
  <2>1. PICK cap \in VaultCaps : RiskOf({q \in Alive : BetsOn(q, v)}) <= cap
    BY DEF CapsInv
  <2>2. {q \in Alive' : BetsOn(q, v)} \subseteq {q \in Alive : BetsOn(q, v)}
    OBVIOUS
  <2>3. /\ RiskOf({q \in Alive : BetsOn(q, v)}) \in Nat
        /\ RiskOf({q \in Alive' : BetsOn(q, v)}) \in Nat
        /\ RiskOf({q \in Alive' : BetsOn(q, v)}) <= RiskOf({q \in Alive : BetsOn(q, v)})
    BY <2>2, RiskGrows
  <2>4. cap \in Nat
    BY WriterAssumption
  <2> QED
    BY <2>1, <2>3, <2>4
<1>2. \A c \in Clusters : RiskOf({q \in Alive' : BetsIn(q, c)}) <= ClusterCap
  <2> TAKE c \in Clusters
  <2>1. RiskOf({q \in Alive : BetsIn(q, c)}) <= ClusterCap
    BY DEF CapsInv
  <2>2. {q \in Alive' : BetsIn(q, c)} \subseteq {q \in Alive : BetsIn(q, c)}
    OBVIOUS
  <2>3. /\ RiskOf({q \in Alive : BetsIn(q, c)}) \in Nat
        /\ RiskOf({q \in Alive' : BetsIn(q, c)}) \in Nat
        /\ RiskOf({q \in Alive' : BetsIn(q, c)}) <= RiskOf({q \in Alive : BetsIn(q, c)})
    BY <2>2, RiskGrows
  <2>4. ClusterCap \in Nat
    BY WriterAssumption
  <2> QED
    BY <2>1, <2>3, <2>4
<1> QED
  BY <1>1, <1>2 DEF CapsInv, BetsOn, BetsIn

LEMMA ReservationFits ==
  ASSUME PolledInTime, TypeOK, ChainInv, BookInv, CapsInv,
         NEW q \in Quotes, NEW cap \in VaultCaps, Fits(q, cap), Seeded,
         Alive' \subseteq Alive \union {q}
  PROVE  CapsInv'
<1>0. cap \in Nat /\ ClusterCap \in Nat /\ Risk[q] \in Nat
  BY WriterAssumption
<1>1. \A r \in Alive : r \in Quotes /\ Booked(r)
  BY LiveIsBooked DEF Alive
<1>2. \A v \in Vaults : \E k \in VaultCaps : RiskOf({r \in Alive' : BetsOn(r, v)}) <= k
  <2> TAKE v \in Vaults
  <2>1. CASE BetsOn(q, v)
    <3> DEFINE B == {r \in Quotes : Booked(r) /\ BetsOn(r, v)}
               L == {r \in Alive' : BetsOn(r, v)}
    <3>1. Risk[q] <= cap - RiskOf(B)
      BY <2>1 DEF Fits, BetsOn
    <3>2. L \subseteq B \union {q}
      BY <1>1
    <3>3. RiskOf(B) \in Nat /\ RiskOf(L) \in Nat /\ RiskOf(L) <= RiskOf(B) + Risk[q]
      BY <3>2, RiskAdds
    <3> HIDE DEF B
    <3>4. RiskOf(L) <= cap
      <4> HIDE DEF L
      <4> QED
        BY <1>0, <3>1, <3>3
    <3> QED
      BY <3>4
  <2>2. CASE ~BetsOn(q, v)
    <3>1. PICK k \in VaultCaps : RiskOf({r \in Alive : BetsOn(r, v)}) <= k
      BY DEF CapsInv
    <3>2. {r \in Alive' : BetsOn(r, v)} \subseteq {r \in Alive : BetsOn(r, v)}
      BY <2>2
    <3>3. /\ RiskOf({r \in Alive : BetsOn(r, v)}) \in Nat
          /\ RiskOf({r \in Alive' : BetsOn(r, v)}) \in Nat
          /\ RiskOf({r \in Alive' : BetsOn(r, v)}) <= RiskOf({r \in Alive : BetsOn(r, v)})
      BY <3>2, RiskGrows
    <3>4. k \in Nat
      BY WriterAssumption
    <3> DEFINE before == RiskOf({r \in Alive : BetsOn(r, v)})
               after == RiskOf({r \in Alive' : BetsOn(r, v)})
    <3>5. before \in Nat /\ after \in Nat /\ after <= before /\ before <= k
      BY <3>1, <3>3
    <3> HIDE DEF before, after
    <3>6. after <= k
      BY <3>4, <3>5
    <3> QED
      BY <3>6 DEF after
  <2> QED
    BY <2>1, <2>2
<1>3. \A c \in Clusters : RiskOf({r \in Alive' : BetsIn(r, c)}) <= ClusterCap
  <2> TAKE c \in Clusters
  <2>1. CASE BetsIn(q, c)
    <3> DEFINE B == {r \in Quotes : Booked(r) /\ BetsIn(r, c)}
               L == {r \in Alive' : BetsIn(r, c)}
    <3>1. Risk[q] <= ClusterCap - RiskOf(B)
      BY <2>1 DEF Fits
    <3>2. L \subseteq B \union {q}
      BY <1>1
    <3>3. RiskOf(B) \in Nat /\ RiskOf(L) \in Nat /\ RiskOf(L) <= RiskOf(B) + Risk[q]
      BY <3>2, RiskAdds
    <3> HIDE DEF B
    <3>4. RiskOf(L) <= ClusterCap
      <4> HIDE DEF L
      <4> QED
        BY <1>0, <3>1, <3>3
    <3> QED
      BY <3>4
  <2>2. CASE ~BetsIn(q, c)
    <3>1. RiskOf({r \in Alive : BetsIn(r, c)}) <= ClusterCap
      BY DEF CapsInv
    <3>2. {r \in Alive' : BetsIn(r, c)} \subseteq {r \in Alive : BetsIn(r, c)}
      BY <2>2
    <3>3. /\ RiskOf({r \in Alive : BetsIn(r, c)}) \in Nat
          /\ RiskOf({r \in Alive' : BetsIn(r, c)}) \in Nat
          /\ RiskOf({r \in Alive' : BetsIn(r, c)}) <= RiskOf({r \in Alive : BetsIn(r, c)})
      BY <3>2, RiskGrows
    <3> QED
      BY <1>0, <3>1, <3>3
  <2> QED
    BY <2>1, <2>2
<1> QED
  BY <1>2, <1>3 DEF CapsInv, BetsOn, BetsIn

\* Nothing becomes live but by a reservation.
LEMMA LiveStep ==
  ASSUME TypeOK, ChainInv, [Next]_vars
  PROVE  \/ Alive' \subseteq Alive
         \/ \E q \in Quotes, cap \in VaultCaps :
              Fits(q, cap) /\ Seeded /\ Alive' \subseteq Alive \union {q}
<1>t. /\ request \in [Quotes -> {"new", "priced", "signing", "quoted", "rejected"}]
      /\ ticket \in [Quotes -> {"none", "open", "resolved"}]
      /\ Lag \in Nat /\ now \in Nat
      /\ \A q \in Quotes : deadline[q] \in Nat
      /\ \A q \in Quotes : request[q] = "priced" => Seeded
  BY SMTT(40), WriterAssumption DEF TypeOK, ChainInv
<1>a. ASSUME UNCHANGED <<request, ticket, deadline, forgotten, now>> PROVE Alive' \subseteq Alive
  BY <1>a DEF Alive, Mintable
<1>b. ASSUME NEW q \in Quotes, UNCHANGED <<ticket, deadline, forgotten, now>>,
             \E to \in {"priced", "quoted", "rejected"} :
               (request' = [request EXCEPT ![q] = to]) /\ (to = "quoted" => request[q] = "signing")
      PROVE  Alive' \subseteq Alive
  BY <1>b, <1>t DEF Alive, Mintable
<1> USE DEF chain, desk, poker
<1>1. ASSUME NEW q \in Quotes, Price(q) PROVE Alive' \subseteq Alive
  <2>1. \E to \in {"priced", "rejected"} : request' = [request EXCEPT ![q] = to]
    BY <1>1, Zenon DEF Price
  <2>2. UNCHANGED <<ticket, deadline, forgotten, now>>
    BY <1>1 DEF Price
  <2> QED
    BY <1>b, <2>1, <2>2
<1>2. ASSUME NEW q \in Quotes, NEW cap \in VaultCaps, CheckAndReserve(q, cap)
      PROVE  \/ Alive' \subseteq Alive
             \/ Fits(q, cap) /\ Seeded /\ Alive' \subseteq Alive \union {q}
  <2>1. UNCHANGED <<ticket, forgotten, now>> /\ Seeded
    BY <1>2, <1>t DEF CheckAndReserve, Reserve
  <2>2. CASE Fits(q, cap)
    <3>1. /\ request' = [request EXCEPT ![q] = "signing"]
          /\ deadline' = [deadline EXCEPT ![q] = now + Ttl]
      BY <1>2, <2>2, Zenon DEF CheckAndReserve, Reserve
    <3>2. \A r \in Quotes : r # q => request'[r] = request[r] /\ deadline'[r] = deadline[r]
      BY <3>1 DEF TypeOK
    <3>3. Alive' \subseteq Alive \union {q}
      BY <2>1, <3>2 DEF Alive, Mintable
    <3> QED
      BY <2>1, <2>2, <3>3
  <2>3. CASE ~Fits(q, cap)
    <3>1. request' = [request EXCEPT ![q] = "rejected"] /\ UNCHANGED deadline
      BY <1>2, <2>3, Zenon DEF CheckAndReserve, Reserve
    <3> QED
      BY <1>b, <2>1, <3>1
  <2> QED
    BY <2>2, <2>3
<1>3. ASSUME NEW q \in Quotes, Deliver(q) PROVE Alive' \subseteq Alive
  BY <1>b, <1>3 DEF Deliver
<1>4. ASSUME NEW q \in Quotes, FailQuote(q) PROVE Alive' \subseteq Alive
  BY <1>b, <1>4 DEF FailQuote, Release
<1>5. ASSUME NEW q \in Quotes, Mint(q) PROVE Alive' \subseteq Alive
  <2>1. /\ ticket' = [ticket EXCEPT ![q] = "open"] /\ Mintable(q)
        /\ UNCHANGED <<deadline, request, forgotten, now>>
    BY <1>5 DEF Mint, Mintable
  <2> QED
    BY <1>t, <2>1 DEF Alive, Mintable
<1>6. ASSUME NEW v \in Vaults, NEW f \in Outcomes[v], Settle(v, f) PROVE Alive' \subseteq Alive
  BY <1>a, <1>6 DEF Settle
<1>7. ASSUME NEW q \in Quotes, Resolved(q), UNCHANGED <<request, deadline, forgotten, now>>
      PROVE  Alive' \subseteq Alive
  BY <1>t, <1>7 DEF Resolved, Alive, Mintable
<1>8. ASSUME NEW q \in Quotes, PublicResolve(q) PROVE Alive' \subseteq Alive
  BY <1>7, <1>8 DEF PublicResolve
<1>9. CASE Tick
  BY <1>t, <1>9 DEF Tick, Alive, Mintable
<1>10. ASSUME NEW toBlock \in nextBlock .. Len(logs), FetchEvents(toBlock) PROVE Alive' \subseteq Alive
  BY <1>a, <1>10 DEF FetchEvents
<1>11. CASE BookMint
  BY <1>a, <1>11 DEF BookMint
<1>12. CASE FinishBatch
  BY <1>a, <1>12 DEF FinishBatch, SaveIndex
<1>13. ASSUME NEW q \in Quotes, Poke(q) PROVE Alive' \subseteq Alive
  <2>1. UNCHANGED <<request, deadline, forgotten, now>>
    BY <1>13 DEF Poke, PokeDone
  <2>2. Resolved(q) \/ UNCHANGED ticket
    BY <1>13, Zenon DEF Poke
  <2> QED
    BY <1>a, <1>7, <2>1, <2>2
<1>14. ASSUME NEW q \in Quotes, PokeFails(q) PROVE Alive' \subseteq Alive
  BY <1>a, <1>14 DEF PokeFails, PokeDone
<1>15. CASE TickFails
  BY <1>a, <1>15 DEF TickFails
<1>16. CASE Crash
  <2>1. /\ request' = [q \in Quotes |-> IF request[q] \in {"priced", "signing"} THEN "rejected" ELSE request[q]]
        /\ forgotten \subseteq forgotten' /\ UNCHANGED <<ticket, deadline, now>>
    BY <1>16 DEF Crash
  <2> QED
    BY <2>1 DEF Alive, Mintable
<1>17. CASE SeedHead
  BY <1>a, <1>17 DEF SeedHead
<1>18. CASE SeedOpen
  BY <1>a, <1>18 DEF SeedOpen
<1>19. CASE UNCHANGED vars
  BY <1>a, <1>19 DEF vars
<1>20. CASE Poker
  <2>1. nextBlock <= Len(logs) /\ Len(logs) \in nextBlock .. Len(logs)
    BY DEF TypeOK
  <2> QED
    BY <1>10, <1>11, <1>12, <1>13, <1>17, <1>18, <1>20, <2>1 DEF Poker
<1> QED
  BY <1>1, <1>2, <1>3, <1>4, <1>5, <1>6, <1>8, <1>9, <1>10, <1>14, <1>15, <1>16, <1>19, <1>20
  DEF Next, ReadTo

-----------------------------------------------------------------------------
(***************************************************************************)
(* The theorems.                                                           *)
(***************************************************************************)
LEMMA InitInv == Init => IInv
<1> SUFFICES ASSUME Init PROVE IInv
  OBVIOUS
<1>1. TypeOK /\ ChainInv
  BY InitType, InitChain
<1>2. BookInv
  BY DEF Init, BookInv, Mintable, Seeded
<1>3. Alive = {}
  BY DEF Init, Alive, Mintable
<1>4. RiskOf({}) = 0
  <2>1. PICK s : /\ RiskOf({}) = s[QuoteCount]
                 /\ s[0] = 0
                 /\ \A q \in Quotes : s[q] = s[q - 1] + Share({}, q)
    BY RiskOfSums
  <2>2. QuoteCount \in Nat
    BY WriterAssumption
  <2> DEFINE P == {n \in Nat : n \in 0 .. QuoteCount => s[n] = 0}
  <2>3. 0 \in P
    BY <2>1
  <2>4. ASSUME NEW n \in Nat, n \in P
        PROVE  n + 1 \in P
    BY <2>1, <2>2, <2>4 DEF Share, Quotes
  <2>5. Nat \subseteq P
    <3> HIDE DEF P
    <3> QED
      BY <2>3, <2>4, SetInduction
  <2> QED
    BY <2>1, <2>2, <2>5
<1>5. CapsInv
  <2>1. \A v \in Vaults : {q \in Alive : BetsOn(q, v)} = {}
    BY <1>3
  <2>2. \A c \in Clusters : {q \in Alive : BetsIn(q, c)} = {}
    BY <1>3
  <2>3. \E cap \in VaultCaps : 0 <= cap
    <3>1. PICK cap \in VaultCaps : TRUE
      BY WriterAssumption
    <3>2. cap \in Nat
      BY WriterAssumption
    <3>3. 0 <= cap
      BY <3>2
    <3> QED
      BY <3>3
  <2>4. 0 <= ClusterCap
    BY WriterAssumption
  <2> QED
    BY <1>4, <2>1, <2>2, <2>3, <2>4 DEF CapsInv
<1> QED
  BY <1>1, <1>2, <1>5 DEF IInv

LEMMA InvStep ==
  ASSUME PolledInTime
  PROVE  IInv /\ [Next]_vars => IInv'
<1> SUFFICES ASSUME IInv, [Next]_vars PROVE IInv'
  OBVIOUS
<1>1. TypeOK /\ ChainInv /\ BookInv /\ CapsInv
  BY DEF IInv
<1>2. TypeOK' /\ ChainInv' /\ BookInv'
  BY <1>1, TypeStep, ChainStep, BookStep
<1>3. CapsInv'
  BY <1>1, LiveStep, NothingAdded, ReservationFits
<1> QED
  BY <1>2, <1>3 DEF IInv

\* Every reachable state of the writer, the chain and the takers is well typed: the
\* wallet is never drawn below zero, and no scan position passes the chain's head.
THEOREM TypeCorrect == Spec => []TypeOK
<1>1. Init => TypeOK
  BY InitType
<1>2. TypeOK /\ [Next]_vars => TypeOK'
  BY TypeStep
<1> QED
  BY <1>1, <1>2, PTL DEF Spec

\* Provided that the grace is longer than the chain's lag and the poker's delay
\* together, what is minted on a market or a cluster stays within its cap, but for the
\* quotes that a restart forgot (server.ts, reserveAndSign).
THEOREM CapsAreKept ==
  ASSUME PolledInTime
  PROVE  Spec => []CapsHold
<1>1. Init => IInv
  BY InitInv
<1>2. IInv /\ [Next]_vars => IInv'
  BY InvStep
<1>3. IInv => CapsHold
  <2> SUFFICES ASSUME IInv PROVE CapsHold
    OBVIOUS
  <2>1. TypeOK /\ CapsInv
    BY DEF IInv
  <2>2. Minted \subseteq Alive
    BY DEF Minted, Alive
  <2>3. \A v \in Vaults : \E cap \in VaultCaps : RiskOf({q \in Minted : BetsOn(q, v)}) <= cap
    <3> TAKE v \in Vaults
    <3>1. PICK cap \in VaultCaps : RiskOf({q \in Alive : BetsOn(q, v)}) <= cap
      BY <2>1 DEF CapsInv
    <3>2. {q \in Minted : BetsOn(q, v)} \subseteq {q \in Alive : BetsOn(q, v)}
      BY <2>2
    <3>3. /\ RiskOf({q \in Alive : BetsOn(q, v)}) \in Nat
          /\ RiskOf({q \in Minted : BetsOn(q, v)}) \in Nat
          /\ RiskOf({q \in Minted : BetsOn(q, v)}) <= RiskOf({q \in Alive : BetsOn(q, v)})
      BY <3>2, RiskGrows
    <3>4. cap \in Nat
      BY WriterAssumption
    <3> QED
      BY <3>1, <3>3, <3>4
  <2>4. \A c \in Clusters : RiskOf({q \in Minted : BetsIn(q, c)}) <= ClusterCap
    <3> TAKE c \in Clusters
    <3>1. RiskOf({q \in Alive : BetsIn(q, c)}) <= ClusterCap
      BY <2>1 DEF CapsInv
    <3>2. {q \in Minted : BetsIn(q, c)} \subseteq {q \in Alive : BetsIn(q, c)}
      BY <2>2
    <3>3. /\ RiskOf({q \in Alive : BetsIn(q, c)}) \in Nat
          /\ RiskOf({q \in Minted : BetsIn(q, c)}) \in Nat
          /\ RiskOf({q \in Minted : BetsIn(q, c)}) <= RiskOf({q \in Alive : BetsIn(q, c)})
      BY <3>2, RiskGrows
    <3>4. ClusterCap \in Nat
      BY WriterAssumption
    <3> QED
      BY <3>1, <3>3, <3>4
  <2> QED
    BY <2>1, <2>3, <2>4 DEF CapsHold
<1> QED
  BY <1>1, <1>2, <1>3, PTL DEF Spec

-----------------------------------------------------------------------------
(***************************************************************************)
(* The scan.  Whether the poll is in time or not, an open ticket is        *)
(* booked or its mint is still ahead of the scan.                          *)
(***************************************************************************)
BookedOrAhead ==
  Seeded => \A q \in Quotes : ticket[q] = "open" => q \in open \/ Ahead(q)

LogsGrow ==
  /\ Len(logs') \in Nat /\ Len(logs') >= Len(logs)
  /\ \A i \in 1 .. Len(logs) : logs'[i] = logs[i]

\* The logs grow at their end, and the scan does not move.
LEMMA AheadStays ==
  ASSUME TypeOK, NEW q \in Quotes, Ahead(q), LogsGrow, nextBlock' = nextBlock,
         pc' # "booking" \/ (pc = "booking" /\ batch' = batch)
  PROVE  Ahead(q)'
<1>1. PICK i \in nextBlock + 1 .. Len(logs) :
        /\ logs[i] = [kind |-> "minted", id |-> q]
        /\ pc = "booking" => i \in batch.minted \/ i > batch.toBlock
  BY DEF Ahead
<1>2. Len(logs) \in Nat /\ nextBlock \in Nat /\ logs \in Seq(Event)
  BY DEF TypeOK
<1>3. Len(logs') \in Nat /\ Len(logs') >= Len(logs) /\ logs'[i] = logs[i]
  <2>1. i \in 1 .. Len(logs)
    BY <1>1, <1>2
  <2> QED
    BY <2>1 DEF LogsGrow
<1>4. i \in nextBlock' + 1 .. Len(logs')
  BY <1>1, <1>2, <1>3
<1>5. pc' = "booking" => i \in batch'.minted \/ i > batch'.toBlock
  BY <1>1
<1> QED
  BY <1>1, <1>3, <1>4, <1>5 DEF Ahead

\* A log more, or none.
LEMMA LogsGrowByOne ==
  ASSUME TypeOK, NEW e \in Event, logs' = logs \/ logs' = Append(logs, e)
  PROVE  LogsGrow
<1>1. logs \in Seq(Event) /\ Len(logs) \in Nat
  BY DEF TypeOK
<1>2. CASE logs' = logs
  BY <1>1, <1>2 DEF LogsGrow
<1>3. CASE logs' = Append(logs, e)
  <2>1. Len(logs') = Len(logs) + 1 /\ \A i \in 1 .. Len(logs) : logs'[i] = logs[i]
    BY <1>1, <1>3
  <2> QED
    BY <1>1, <2>1 DEF LogsGrow
<1> QED
  BY <1>2, <1>3

\* What the scan read is booked before the scan moves past it.
LEMMA AheadStep ==
  ASSUME TypeOK, ChainInv, BookedOrAhead, [Next]_vars
  PROVE  BookedOrAhead'
<1>t. /\ ticket \in [Quotes -> {"none", "open", "resolved"}]
      /\ Len(logs) \in Nat /\ nextBlock \in 0 .. Len(logs) /\ batch.toBlock \in 0 .. Len(logs)
      /\ DOMAIN logs = 1 .. Len(logs) /\ logs \in Seq(Event)
  BY DEF TypeOK
\* Nothing is minted, nothing leaves the book, and the scan does not move.
<1>a. ASSUME Seeded' => Seeded, open \subseteq open', nextBlock' = nextBlock,
             pc' # "booking" \/ (pc = "booking" /\ batch' = batch),
             LogsGrow, \A q \in Quotes : ticket'[q] = "open" => ticket[q] = "open"
      PROVE  BookedOrAhead'
  <2>1. ASSUME NEW q \in Quotes, Seeded', ticket'[q] = "open", q \notin open' PROVE Ahead(q)'
    <3>1. Ahead(q)
      BY <1>a, <2>1 DEF BookedOrAhead
    <3> QED
      BY <1>a, <3>1, AheadStays
  <2> QED
    BY <2>1 DEF BookedOrAhead
<1>b. ASSUME UNCHANGED <<ticket, logs, open, pc, nextBlock, batch>> PROVE BookedOrAhead'
  BY <1>b DEF BookedOrAhead, Seeded, Ahead
<1> USE DEF chain, desk, poker
<1>1. ASSUME NEW q \in Quotes, Price(q) PROVE BookedOrAhead'
  BY <1>b, <1>1 DEF Price
<1>2. ASSUME NEW q \in Quotes, NEW cap \in VaultCaps, CheckAndReserve(q, cap) PROVE BookedOrAhead'
  BY <1>b, <1>2 DEF CheckAndReserve
<1>3. ASSUME NEW q \in Quotes, Deliver(q) PROVE BookedOrAhead'
  BY <1>b, <1>3 DEF Deliver
<1>4. ASSUME NEW q \in Quotes, FailQuote(q) PROVE BookedOrAhead'
  BY <1>b, <1>4 DEF FailQuote
<1>5. ASSUME NEW q \in Quotes, Mint(q) PROVE BookedOrAhead'
  <2> DEFINE e == [kind |-> "minted", id |-> q]
  <2>1. e \in Event /\ logs' = Append(logs, e)
    BY <1>5 DEF Mint, Event
  <2>2. UNCHANGED <<open, pc, nextBlock, batch>> /\ ticket' = [ticket EXCEPT ![q] = "open"]
    BY <1>5 DEF Mint
  <2>3. Len(logs') = Len(logs) + 1 /\ logs'[Len(logs) + 1] = e
    BY <1>t, <2>1
  <2>4. Ahead(q)'
    <3>1. Len(logs) + 1 \in nextBlock' + 1 .. Len(logs') /\ Len(logs) + 1 > batch'.toBlock
      BY <1>t, <2>2, <2>3
    <3> QED
      BY <2>3, <3>1 DEF Ahead
  <2> HIDE DEF e
  <2>5. LogsGrow
    BY <2>1, LogsGrowByOne
  <2>6. ASSUME NEW r \in Quotes, r # q, Seeded', ticket'[r] = "open", r \notin open' PROVE Ahead(r)'
    <3>1. Ahead(r)
      BY <1>t, <2>2, <2>6 DEF BookedOrAhead, Seeded
    <3> QED
      BY <2>2, <2>5, <3>1, AheadStays
  <2> QED
    BY <2>4, <2>6 DEF BookedOrAhead
<1>6. ASSUME NEW v \in Vaults, NEW f \in Outcomes[v], Settle(v, f) PROVE BookedOrAhead'
  BY <1>b, <1>6 DEF Settle
<1>7. ASSUME NEW q \in Quotes, Resolvable(q), Resolved(q), UNCHANGED <<open, nextBlock, batch>>,
             Seeded' => Seeded, pc' = "booking" => pc = "booking"
      PROVE  BookedOrAhead'
  <2> DEFINE e == [kind |-> "resolved", id |-> q]
  <2>1. e \in Event /\ logs' = Append(logs, e) /\ ticket' = [ticket EXCEPT ![q] = "resolved"]
    BY <1>7 DEF Resolved, Event
  <2>2. \A r \in Quotes : ticket'[r] = "open" => ticket[r] = "open"
    BY <1>t, <2>1
  <2> HIDE DEF e
  <2>3. LogsGrow
    BY <2>1, LogsGrowByOne
  <2> QED
    BY <1>a, <1>7, <2>2, <2>3
<1>8. ASSUME NEW q \in Quotes, PublicResolve(q) PROVE BookedOrAhead'
  BY <1>7, <1>8 DEF PublicResolve, Seeded
<1>9. CASE Tick
  BY <1>b, <1>9 DEF Tick
<1>10. ASSUME NEW toBlock \in nextBlock .. Len(logs), FetchEvents(toBlock) PROVE BookedOrAhead'
  <2>1. /\ UNCHANGED <<ticket, logs, open, nextBlock>> /\ Seeded
        /\ batch' = [minted |-> LogsOf("minted", toBlock), resolved |-> LogsOf("resolved", toBlock),
                     toBlock |-> toBlock]
    BY <1>10 DEF FetchEvents, Seeded
  <2>2. ASSUME NEW q \in Quotes, ticket'[q] = "open", q \notin open' PROVE Ahead(q)'
    <3>1. Ahead(q)
      BY <2>1, <2>2 DEF BookedOrAhead
    <3>2. PICK i \in nextBlock + 1 .. Len(logs) : logs[i] = [kind |-> "minted", id |-> q]
      BY <3>1 DEF Ahead
    <3>3. i \in batch'.minted \/ i > batch'.toBlock
      BY <1>t, <2>1, <3>2 DEF LogsOf
    <3> QED
      BY <2>1, <3>2, <3>3 DEF Ahead
  <2> QED
    BY <2>2 DEF BookedOrAhead
<1>11. CASE BookMint
  <2>1. PICK i \in batch.minted : batch' = [batch EXCEPT !.minted = @ \ {i}] /\ OnMinted(logs[i].id)
    BY <1>11 DEF BookMint
  <2>2. /\ UNCHANGED <<ticket, logs, pc, nextBlock>> /\ pc = "booking"
        /\ open' = open \union {logs[i].id}
    BY <1>11, <2>1 DEF BookMint, OnMinted
  <2>3. batch'.minted = batch.minted \ {i} /\ batch'.toBlock = batch.toBlock
    BY <2>1 DEF TypeOK
  <2>4. ASSUME NEW q \in Quotes, ticket'[q] = "open", q \notin open' PROVE Ahead(q)'
    <3>1. Ahead(q)
      BY <2>2, <2>4 DEF BookedOrAhead, Seeded
    <3>2. PICK j \in nextBlock + 1 .. Len(logs) :
            logs[j] = [kind |-> "minted", id |-> q] /\ (j \in batch.minted \/ j > batch.toBlock)
      BY <2>2, <3>1 DEF Ahead
    <3>3. j # i
      BY <2>2, <2>4, <3>2
    <3> QED
      BY <2>2, <2>3, <3>2, <3>3 DEF Ahead
  <2> QED
    BY <2>4 DEF BookedOrAhead
<1>12. CASE FinishBatch
  <2>1. /\ open' = open \ {logs[i].id : i \in batch.resolved} /\ UNCHANGED <<ticket, logs>>
        /\ nextBlock' = batch.toBlock /\ batch.minted = {} /\ pc = "booking" /\ pc' # "booking"
    BY <1>12 DEF FinishBatch, ScanEnd, SaveIndex, DropResolved
  <2>2. \A i \in batch.resolved : ticket[logs[i].id] = "resolved"
    BY DEF TypeOK, ChainInv
  <2>3. ASSUME NEW q \in Quotes, ticket'[q] = "open", q \notin open' PROVE Ahead(q)'
    <3>1. q \notin open
      BY <2>1, <2>2, <2>3
    <3>2. Ahead(q)
      BY <2>1, <2>3, <3>1 DEF BookedOrAhead, Seeded
    <3>3. PICK i \in nextBlock + 1 .. Len(logs) :
            logs[i] = [kind |-> "minted", id |-> q] /\ i > batch.toBlock
      BY <2>1, <3>2 DEF Ahead
    <3>4. i \in nextBlock' + 1 .. Len(logs')
      BY <1>t, <2>1, <3>3
    <3> QED
      BY <2>1, <3>3, <3>4 DEF Ahead
  <2> QED
    BY <2>3 DEF BookedOrAhead
<1>13. ASSUME UNCHANGED <<ticket, logs, open, nextBlock>>, Seeded' => Seeded, pc' # "booking"
       PROVE  BookedOrAhead'
  <2>1. LogsGrow
    BY <1>t, <1>13 DEF LogsGrow
  <2> QED
    BY <1>a, <1>13, <2>1
<1>14. ASSUME NEW q \in Quotes, Poke(q) PROVE BookedOrAhead'
  <2>1. UNCHANGED <<open, nextBlock, batch>> /\ Seeded /\ pc' # "booking"
    BY <1>14 DEF Poke, PokeDone, Seeded
  <2>2. CASE Resolvable(q)
    <3>1. Resolved(q)
      BY <1>14, <2>2 DEF Poke
    <3> QED
      BY <1>7, <2>1, <2>2, <3>1
  <2>3. CASE UNCHANGED <<ticket, logs>>
    BY <1>13, <2>1, <2>3
  <2> QED
    BY <1>14, <2>2, <2>3 DEF Poke
<1>15. ASSUME NEW q \in Quotes, PokeFails(q) PROVE BookedOrAhead'
  BY <1>13, <1>15 DEF PokeFails, PokeDone, Seeded
<1>16. CASE TickFails
  BY <1>13, <1>16 DEF TickFails, Seeded
<1>17. CASE Crash
  BY <1>17 DEF Crash, BookedOrAhead, Seeded
<1>18. CASE SeedHead
  BY <1>18 DEF SeedHead, BookedOrAhead, Seeded
<1>19. CASE SeedOpen
  BY <1>19 DEF SeedOpen, BookedOrAhead, OpenTickets
<1>20. CASE UNCHANGED vars
  BY <1>b, <1>20 DEF vars
<1>21. CASE Poker
  BY <1>t, <1>10, <1>11, <1>12, <1>14, <1>18, <1>19, <1>21 DEF Poker
<1> QED
  BY <1>1, <1>2, <1>3, <1>4, <1>5, <1>6, <1>8, <1>9, <1>10, <1>15, <1>16, <1>17, <1>20, <1>21
  DEF Next, ReadTo

\* However long a poll lasts, whatever fails and whenever the writer restarts, every
\* open ticket is booked or ahead of the scan, and one that is not booked yet keeps
\* its exposure for the grace less the lag after its mint (poker.ts, seed and tick;
\* index.ts:36).
THEOREM MintsAreCounted == Spec => []MintsStayCounted
<1> DEFINE ScanInv == TypeOK /\ ChainInv /\ BookInv /\ BookedOrAhead
<1>1. Init => ScanInv
  BY InitInv DEF IInv, Init, BookedOrAhead, Seeded
<1>2. ScanInv /\ [Next]_vars => ScanInv'
  BY TypeStep, ChainStep, BookStep, AheadStep
<1>3. ScanInv => MintsStayCounted
  <2> SUFFICES ASSUME ScanInv, NEW q \in Quotes, Seeded, ticket[q] = "open", q \notin open
               PROVE  /\ Ahead(q)
                      /\ q \notin forgotten /\ now + Lag < mintedAt[q] + Grace => Reserved(q)
    BY DEF MintsStayCounted, Booked
  <2>1. Ahead(q)
    BY DEF BookedOrAhead
  <2>2. /\ deadline[q] \in Nat /\ now \in Nat /\ mintedAt[q] \in Nat
        /\ Grace \in Nat /\ Lag \in Nat
    BY WriterAssumption DEF TypeOK
  <2>3. mintedAt[q] <= deadline[q] + Lag
    BY DEF ChainInv
  <2>4. q \notin forgotten => reservations[q] # None /\ reservations[q] = deadline[q]
    BY DEF BookInv
  <2>5. q \notin forgotten /\ now + Lag < mintedAt[q] + Grace => Reserved(q)
    BY <2>2, <2>3, <2>4 DEF Reserved
  <2> QED
    BY <2>1, <2>5
<1> HIDE DEF ScanInv
<1> QED
  BY <1>1, <1>2, <1>3, PTL DEF Spec

-----------------------------------------------------------------------------
(***************************************************************************)
(* The live prior.  Sums over a finite set, as MapThenSumSet computes      *)
(* them: one element, the first, at a time.                                *)
(***************************************************************************)
First(s) == CHOOSE x \in s : TRUE

\* f[s] is the sum of w over s, for the subsets s of S.
Adds(f, S, w) ==
  f = [s \in SUBSET S |-> IF s = {} THEN 0 ELSE w[First(s)] + f[s \ {First(s)}]]

LEMMA FirstIsMember ==
  ASSUME NEW S, IsFiniteSet(S), NEW s \in SUBSET S, s # {}
  PROVE  /\ First(s) \in s /\ s \ {First(s)} \in SUBSET S
         /\ IsFiniteSet(s) /\ Cardinality(s) \in Nat \ {0}
         /\ Cardinality(s \ {First(s)}) \in Nat
         /\ Cardinality(s \ {First(s)}) = Cardinality(s) - 1
<1>1. First(s) \in s
  BY DEF First
<1>2. IsFiniteSet(s) /\ Cardinality(s) \in Nat
  BY FS_Subset, FS_CardinalityType
<1>3. Cardinality(s) # 0
  BY <1>2, FS_EmptySet
<1>4. Cardinality(s \ {First(s)}) = Cardinality(s) - 1
  BY <1>1, <1>2, FS_RemoveElement
<1> QED
  BY <1>1, <1>2, <1>3, <1>4

\* A family of subsets that has the empty set, and each set with all but its first
\* element, has them all.
LEMMA FirstInduction ==
  ASSUME NEW S, IsFiniteSet(S), NEW P, {} \in P,
         \A s \in SUBSET S : s # {} /\ s \ {First(s)} \in P => s \in P
  PROVE  SUBSET S \subseteq P
<1> DEFINE N == {n \in Nat : \A s \in SUBSET S : Cardinality(s) = n => s \in P}
<1>1. 0 \in N
  <2>1. \A s \in SUBSET S : Cardinality(s) = 0 => s = {}
    BY FS_Subset, FS_EmptySet
  <2> QED
    BY <2>1
<1>2. ASSUME NEW n \in Nat, n \in N
      PROVE  n + 1 \in N
  <2>1. ASSUME NEW s \in SUBSET S, Cardinality(s) = n + 1
        PROVE  s \in P
    <3>1. s # {}
      BY <2>1, FS_EmptySet
    <3>2. s \ {First(s)} \in SUBSET S /\ Cardinality(s \ {First(s)}) = n
      BY <2>1, <3>1, FirstIsMember
    <3>3. s \ {First(s)} \in P
      BY <1>2, <3>2
    <3> QED
      BY <3>1, <3>3
  <2> QED
    BY <2>1
<1>3. Nat \subseteq N
  <2> HIDE DEF N
  <2> QED
    BY <1>1, <1>2, SetInduction
<1>4. \A s \in SUBSET S : Cardinality(s) \in Nat
  BY FS_Subset, FS_CardinalityType
<1> QED
  BY <1>3, <1>4

\* Such a function exists: the first n + 1 sizes of sets follow from the first n.
LEMMA SumExists ==
  ASSUME NEW S, IsFiniteSet(S), NEW w
  PROVE  \E f : Adds(f, S, w)
<1> DEFINE Next1(f, s) == IF s = {} THEN 0 ELSE w[First(s)] + f[s \ {First(s)}]
           UpTo(f, n) == \A s \in SUBSET S : Cardinality(s) <= n => f[s] = Next1(f, s)
           N == {n \in Nat : \E f : UpTo(f, n)}
<1>1. 0 \in N
  <2>1. \A s \in SUBSET S : Cardinality(s) \in Nat /\ (Cardinality(s) = 0 => s = {})
    BY FS_Subset, FS_EmptySet, FS_CardinalityType
  <2> DEFINE f == [s \in SUBSET S |-> 0]
  <2>2. \A s \in SUBSET S : Cardinality(s) <= 0 => s = {}
    BY <2>1
  <2>3. UpTo(f, 0)
    BY <2>2
  <2> HIDE DEF f
  <2> QED
    BY <2>3
<1>2. ASSUME NEW n \in Nat, n \in N
      PROVE  n + 1 \in N
  <2>1. PICK f : UpTo(f, n)
    BY <1>2
  <2> DEFINE g == [s \in SUBSET S |-> IF Cardinality(s) <= n THEN f[s] ELSE Next1(f, s)]
  <2>2. ASSUME NEW s \in SUBSET S, Cardinality(s) <= n + 1
        PROVE  g[s] = Next1(g, s)
    <3>1. CASE s = {}
      <4>1. Cardinality(s) = 0
        BY <3>1, FS_EmptySet
      <4>2. Cardinality(s) <= n
        BY <4>1
      <4>3. f[s] = Next1(f, s)
        BY <2>1, <4>2
      <4>4. g[s] = f[s]
        BY <4>2
      <4> QED
        BY <3>1, <4>3, <4>4
    <3>2. CASE s # {}
      <4> DEFINE r == s \ {First(s)}
      <4>1. r \in SUBSET S /\ Cardinality(s) \in Nat /\ Cardinality(r) = Cardinality(s) - 1
        BY <3>2, FirstIsMember
      <4> HIDE DEF r
      <4>2. g[r] = f[r]
        BY <2>2, <4>1
      <4>3. g[s] = Next1(f, s)
        BY <2>1
      <4>4. Next1(f, s) = w[First(s)] + f[r] /\ Next1(g, s) = w[First(s)] + g[r]
        BY <3>2 DEF r
      <4> QED
        BY <4>2, <4>3, <4>4
    <3> QED
      BY <3>1, <3>2
  <2>3. UpTo(g, n + 1)
    BY <2>2
  <2> HIDE DEF g, Next1
  <2>4. \E x : UpTo(x, n + 1)
    BY <2>3, Zenon
  <2> QED
    BY <2>4
<1>3. Nat \subseteq N
  <2> HIDE DEF N
  <2> QED
    BY <1>1, <1>2, SetInduction
<1>4. Cardinality(S) \in Nat /\ \A s \in SUBSET S : Cardinality(s) <= Cardinality(S)
  BY FS_Subset, FS_CardinalityType
<1>5. PICK f : UpTo(f, Cardinality(S))
  BY <1>3, <1>4
<1> DEFINE h == [s \in SUBSET S |-> f[s]]
<1>6. \A s \in SUBSET S : f[s] = Next1(f, s)
  BY <1>4, <1>5
<1>7. \A s \in SUBSET S : s # {} => s \ {First(s)} \in SUBSET S
  OBVIOUS
<1>8. h = [s \in SUBSET S |-> IF s = {} THEN 0 ELSE w[First(s)] + h[s \ {First(s)}]]
  BY <1>6, <1>7
<1> QED
  BY <1>8 DEF Adds

LEMMA SumStep ==
  ASSUME NEW S, NEW w, NEW f, Adds(f, S, w)
  PROVE  /\ f[{}] = 0
         /\ \A s \in SUBSET S : s # {} => f[s] = w[First(s)] + f[s \ {First(s)}]
<1> DEFINE F(g) == [s \in SUBSET S |-> IF s = {} THEN 0 ELSE w[First(s)] + g[s \ {First(s)}]]
<1>1. f = F(f)
  BY DEF Adds
<1>2. \A s \in SUBSET S : F(f)[s] = IF s = {} THEN 0 ELSE w[First(s)] + f[s \ {First(s)}]
  OBVIOUS
<1> HIDE DEF F
<1>3. \A s \in SUBSET S : f[s] = IF s = {} THEN 0 ELSE w[First(s)] + f[s \ {First(s)}]
  BY <1>1, <1>2
<1> QED
  BY <1>3

\* The same terms have the same sum.
LEMMA SumIsUnique ==
  ASSUME NEW S, IsFiniteSet(S), NEW v, NEW w, \A x \in S : v[x] = w[x],
         NEW f, Adds(f, S, v), NEW g, Adds(g, S, w)
  PROVE  f[S] = g[S]
<1> DEFINE P == {s \in SUBSET S : f[s] = g[s]}
<1>1. {} \in P
  BY SumStep
<1>2. ASSUME NEW s \in SUBSET S, s # {}, s \ {First(s)} \in P
      PROVE  s \in P
  <2>1. First(s) \in S
    BY <1>2, FirstIsMember
  <2>2. f[s] = v[First(s)] + f[s \ {First(s)}] /\ g[s] = w[First(s)] + g[s \ {First(s)}]
    BY <1>2, SumStep
  <2> QED
    BY <1>2, <2>1, <2>2
<1>3. SUBSET S \subseteq P
  <2> HIDE DEF P
  <2> QED
    BY <1>1, <1>2, FirstInduction
<1> QED
  BY <1>3

\* A sum of naturals is one, and no less than each of its terms.
LEMMA SumOfNaturals ==
  ASSUME NEW S, IsFiniteSet(S), NEW w, \A x \in S : w[x] \in Nat,
         NEW f, Adds(f, S, w)
  PROVE  \A s \in SUBSET S : f[s] \in Nat /\ \A x \in s : w[x] <= f[s]
<1> DEFINE P == {s \in SUBSET S : f[s] \in Nat /\ \A x \in s : w[x] <= f[s]}
<1>1. {} \in P
  BY SumStep
<1>2. ASSUME NEW s \in SUBSET S, s # {}, s \ {First(s)} \in P
      PROVE  s \in P
  <2>1. First(s) \in s
    BY <1>2, FirstIsMember
  <2>2. f[s] = w[First(s)] + f[s \ {First(s)}]
    BY <1>2, SumStep
  <2> DEFINE r == s \ {First(s)}
  <2>3. f[r] \in Nat /\ w[First(s)] \in Nat /\ \A x \in r : w[x] <= f[r]
    BY <1>2, <2>1
  <2>4. \A x \in s : x = First(s) \/ x \in r
    OBVIOUS
  <2>5. f[s] \in Nat /\ w[First(s)] <= f[s] /\ f[r] <= f[s]
    BY <2>2, <2>3
  <2>6. \A x \in s : w[x] \in Nat
    BY <1>2
  <2> HIDE DEF r
  <2> QED
    BY <2>3, <2>4, <2>5, <2>6
<1>3. SUBSET S \subseteq P
  <2> HIDE DEF P
  <2> QED
    BY <1>1, <1>2, FirstInduction
<1> QED
  BY <1>3

\* Truncating division, without the operator.
LEMMA Quotient ==
  ASSUME NEW n \in Nat, NEW t \in Nat \ {0}
  PROVE  n \div t \in Nat /\ t * (n \div t) <= n /\ n < t * (n \div t) + t
OBVIOUS

\* One more term of a scaled sum: a and b are the sums so far, c what b has lost.
LEMMA ScaledStep ==
  ASSUME NEW t \in Nat \ {0}, NEW d \in Nat, NEW a \in Nat, NEW b \in Nat, NEW c \in Nat,
         t * b <= d * a, d * a <= t * b + (t - 1) * c,
         NEW x \in Nat, NEW y \in Nat, t * y <= x * d, x * d < t * y + t
  PROVE  t * (y + b) <= d * (x + a) /\ d * (x + a) <= t * (y + b) + (t - 1) * (c + 1)
<1>1. t * (y + b) = t * y + t * b /\ d * (x + a) = x * d + d * a
  OBVIOUS
<1>2. (t - 1) * (c + 1) = (t - 1) * c + (t - 1)
  OBVIOUS
<1>3. PICK ty \in Int, tb \in Int, xd \in Int, da \in Int, tc \in Int :
        ty = t * y /\ tb = t * b /\ xd = x * d /\ da = d * a /\ tc = (t - 1) * c
  OBVIOUS
<1> QED
  BY <1>1, <1>2, <1>3

\* Terms scaled by d over t, each rounded down: their sum is as much smaller as there
\* are terms, at most.
LEMMA ScaledSum ==
  ASSUME NEW S, IsFiniteSet(S), NEW t \in Nat \ {0}, NEW d \in Nat,
         NEW v, \A x \in S : v[x] \in Nat,
         NEW w, \A x \in S : w[x] = (v[x] * d) \div t,
         NEW f, Adds(f, S, v), NEW g, Adds(g, S, w)
  PROVE  /\ f[S] \in Nat /\ g[S] \in Nat
         /\ t * g[S] <= d * f[S] /\ d * f[S] <= t * g[S] + (t - 1) * Cardinality(S)
<1>1. \A x \in S : /\ w[x] \in Nat /\ t * w[x] <= v[x] * d /\ v[x] * d < t * w[x] + t
  <2> TAKE x \in S
  <2>1. v[x] * d \in Nat
    OBVIOUS
  <2> QED
    BY <2>1, Quotient
<1>2. \A s \in SUBSET S : f[s] \in Nat /\ g[s] \in Nat
  BY <1>1, SumOfNaturals
<1> DEFINE P == {s \in SUBSET S : /\ t * g[s] <= d * f[s]
                                  /\ d * f[s] <= t * g[s] + (t - 1) * Cardinality(s)}
<1>3. {} \in P
  <2>1. f[{}] = 0 /\ g[{}] = 0 /\ Cardinality({}) = 0
    BY SumStep, FS_EmptySet
  <2> QED
    BY <2>1
<1>4. ASSUME NEW s \in SUBSET S, s # {}, s \ {First(s)} \in P
      PROVE  s \in P
  <2> DEFINE r == s \ {First(s)}
             x == First(s)
  <2>1. /\ x \in S /\ r \in SUBSET S /\ Cardinality(s) \in Nat \ {0}
        /\ Cardinality(r) \in Nat /\ Cardinality(r) = Cardinality(s) - 1
    BY <1>4, FirstIsMember
  <2>2. f[s] = v[x] + f[r] /\ g[s] = w[x] + g[r]
    BY <1>4, SumStep
  <2>3. t * g[r] <= d * f[r] /\ d * f[r] <= t * g[r] + (t - 1) * Cardinality(r)
    BY <1>4
  <2> HIDE DEF r, x
  <2>4. f[r] \in Nat /\ g[r] \in Nat /\ v[x] \in Nat /\ w[x] \in Nat /\ Cardinality(r) \in Nat
    <3>1. f[r] \in Nat /\ g[r] \in Nat
      BY <1>2, <2>1
    <3>2. w[x] \in Nat /\ v[x] \in Nat
      BY <1>1, <2>1
    <3> QED
      BY <2>1, <3>1, <3>2
  <2>5. /\ t * (w[x] + g[r]) <= d * (v[x] + f[r])
        /\ d * (v[x] + f[r]) <= t * (w[x] + g[r]) + (t - 1) * (Cardinality(r) + 1)
    BY <1>1, <2>1, <2>3, <2>4, ScaledStep
  <2>6. Cardinality(r) + 1 = Cardinality(s)
    BY <2>1
  <2> QED
    BY <2>2, <2>5, <2>6
<1>5. SUBSET S \subseteq P
  <2> HIDE DEF P
  <2> QED
    BY <1>3, <1>4, FirstInduction
<1> QED
  BY <1>2, <1>5

\* Scaled to d by their own sum, they sum to d but for the rounding.
LEMMA ScaledToOne ==
  ASSUME NEW S, IsFiniteSet(S), S # {}, NEW d \in Nat,
         NEW v, \A x \in S : v[x] \in Nat \ {0},
         NEW f, Adds(f, S, v),
         NEW w, \A x \in S : w[x] = (v[x] * d) \div f[S],
         NEW g, Adds(g, S, w)
  PROVE  /\ \A x \in S : w[x] \in 0 .. d
         /\ g[S] \in Nat /\ g[S] <= d /\ g[S] > d - Cardinality(S)
<1>1. f[S] \in Nat \ {0} /\ \A x \in S : v[x] <= f[S]
  BY SumOfNaturals
<1>2. PICK t \in Nat \ {0} : t = f[S]
  BY <1>1
<1>3. Cardinality(S) \in Nat \ {0}
  BY FS_CardinalityType, FS_EmptySet
<1>4. PICK n \in Nat \ {0} : n = Cardinality(S)
  BY <1>3
<1>5. g[S] \in Nat /\ t * g[S] <= d * t /\ d * t <= t * g[S] + (t - 1) * n
  BY <1>1, <1>2, <1>4, ScaledSum
<1>6. ASSUME NEW b \in Nat, t * b <= d * t, d * t <= t * b + (t - 1) * n
      PROVE  b <= d /\ b > d - n
  <2>1. b <= d
    <3>1. SUFFICES ASSUME b >= d + 1 PROVE FALSE
      OBVIOUS
    <3>2. t * b >= t * (d + 1)
      BY <3>1
    <3> QED
      BY <1>6, <3>2
  <2>2. b > d - n
    <3>1. SUFFICES ASSUME d >= b + n PROVE FALSE
      OBVIOUS
    <3>2. t * d >= t * (b + n)
      BY <3>1
    <3>3. t * (b + n) = t * b + t * n /\ (t - 1) * n = t * n - n /\ t * d = d * t
      OBVIOUS
    <3> QED
      BY <1>6, <3>2, <3>3
  <2> QED
    BY <2>1, <2>2
<1>7. \A x \in S : w[x] \in 0 .. d
  <2> TAKE x \in S
  <2>1. PICK a \in Nat : a = v[x] /\ a <= t
    BY <1>1, <1>2
  <2>2. a * d \in Nat /\ w[x] = (a * d) \div t
    <3>1. w[x] = (v[x] * d) \div f[S]
      OBVIOUS
    <3>2. a * d \in Nat
      OBVIOUS
    <3> QED
      BY <1>2, <2>1, <3>1, <3>2, Zenon
  <2>3. w[x] \in Nat /\ t * w[x] <= a * d
    BY <2>2, Quotient
  <2>4. PICK b \in Nat : b = w[x]
    BY <2>3
  <2>5. a * d <= t * d
    BY <2>1
  <2>6. b <= d
    <3>1. SUFFICES ASSUME b >= d + 1 PROVE FALSE
      OBVIOUS
    <3>2. t * b >= t * (d + 1)
      BY <3>1
    <3> QED
      BY <2>3, <2>4, <2>5, <3>2
  <2> QED
    BY <2>4, <2>6
<1> QED
  BY <1>4, <1>5, <1>6, <1>7

-----------------------------------------------------------------------------
(* The prior's invariant *)

Lookup == [value : {"unresolved", "none", "token"}, retry : 0 .. Max({FailRetry, PmRetry})]

\* A suspension begins with the leap and ends when that is Suspend ago.
Balanced == \A m \in Markets : suspended[m] + leapt[m] = Suspend

PriorInv == PriorTypeOK /\ Balanced /\ QuestionSumsToOne

LEMMA PriorConstants ==
  /\ Jump \in Nat /\ Suspend \in Nat /\ Stale \in Nat /\ FailRetry \in Nat /\ PmRetry \in Nat
  /\ WAD \in Nat \ {0} /\ MaxFaults \in Nat
  /\ \A mid \in Mids : mid \in Nat \ {0} /\ mid \in 0 .. WAD /\ mid # Nothing /\ mid # Throws
BY PriorAssumption DEF Nothing, Throws

LEMMA LookupsOK ==
  /\ Unresolved \in Lookup /\ Found \in Lookup
  /\ NotFound(FailRetry) \in Lookup /\ NotFound(PmRetry) \in Lookup
  /\ \A r \in Lookup : [r EXCEPT !.retry = Less(@)] \in Lookup
<1> DEFINE S == {FailRetry, PmRetry}
<1>1. \E x \in S : \A y \in S : x >= y
  <2>1. CASE FailRetry >= PmRetry
    BY <2>1, PriorConstants
  <2>2. CASE PmRetry >= FailRetry
    BY <2>2, PriorConstants
  <2> QED
    BY <2>1, <2>2, PriorConstants
<1>2. Max(S) \in S /\ \A y \in S : Max(S) >= y
  BY <1>1 DEF Max
<1>3. Max(S) \in Nat /\ FailRetry \in 0 .. Max(S) /\ PmRetry \in 0 .. Max(S)
  BY <1>2, PriorConstants
<1>4. \A n \in 0 .. Max(S) : Less(n) \in 0 .. Max(S)
  BY <1>3 DEF Less
<1>5. PICK top \in Nat : top = Max(S)
  BY <1>3
<1> HIDE DEF S
<1>6. Lookup = [value : {"unresolved", "none", "token"}, retry : 0 .. top]
  BY <1>5 DEF Lookup, S
<1> QED
  BY <1>3, <1>4, <1>5, <1>6 DEF Unresolved, Found, NotFound

\* What Polymarket and mainnet leave and say.
LEMMA SourcesOK ==
  ASSUME PriorTypeOK
  PROVE  /\ \A m \in Markets : \A o \in PolymarketSays(m) \union PolymarketFails(m) :
              o.next \in Lookup /\ o.answer \in Mids \union {Nothing, Throws}
         /\ \A m \in Nfl : \A o \in MainnetSays(m) \union MainnetFails(m) :
              o.next \in Lookup /\ o.answer \in Mids \union {Nothing, Throws}
<1>1. pm \in [Markets -> Lookup] /\ mn \in [Nfl -> Lookup]
  BY DEF PriorTypeOK, Lookup
<1>2. ASSUME NEW m \in Markets, NEW o \in PolymarketSays(m) \union PolymarketFails(m)
      PROVE  o.next \in Lookup /\ o.answer \in Mids \union {Nothing, Throws}
  BY <1>1, <1>2, LookupsOK DEF PolymarketSays, PolymarketFails, Outcome
<1>3. ASSUME NEW m \in Nfl, NEW o \in MainnetSays(m) \union MainnetFails(m)
      PROVE  o.next \in Lookup /\ o.answer \in Mids \union {Nothing, Throws}
  BY <1>1, <1>3, LookupsOK DEF MainnetSays, MainnetFails, Outcome
<1> QED
  BY <1>2, <1>3

\* What a record of said leaves: samples of those it speaks of, and of the others
\* what there was.
Recorded(said) ==
  /\ sample' \in [Markets -> [yes : 0 .. WAD, age : 0 .. Stale + 1]]
  /\ suspended' \in [Markets -> 0 .. Suspend] /\ leapt' \in [Markets -> 0 .. Suspend]
  /\ \A m \in Markets : suspended'[m] + leapt'[m] = Suspend
  /\ \A m \in DOMAIN said : sample'[m].yes = said[m]
  /\ \A m \in Markets \ DOMAIN said : sample'[m].yes = sample[m].yes

LEMMA RecordOK ==
  ASSUME PriorTypeOK, Balanced, NEW said, DOMAIN said \subseteq Markets,
         \A m \in DOMAIN said : said[m] \in 0 .. WAD, Record(said)
  PROVE  Recorded(said)
<1>1. sample' \in [Markets -> [yes : 0 .. WAD, age : 0 .. Stale + 1]]
  BY PriorConstants DEF PriorTypeOK, Record
<1>2. /\ \A m \in DOMAIN said : sample'[m].yes = said[m]
      /\ \A m \in Markets \ DOMAIN said : sample'[m].yes = sample[m].yes
  BY DEF Record
<1>3. ASSUME NEW m \in Markets
      PROVE  /\ suspended'[m] \in 0 .. Suspend /\ leapt'[m] \in 0 .. Suspend
             /\ suspended'[m] + leapt'[m] = Suspend
  <2>1. /\ suspended[m] \in 0 .. Suspend /\ leapt[m] \in 0 .. Suspend
        /\ suspended[m] + leapt[m] = Suspend
    BY DEF PriorTypeOK, Balanced
  <2>2. \/ suspended'[m] = Suspend /\ leapt'[m] = 0
        \/ suspended'[m] = suspended[m] /\ leapt'[m] = leapt[m]
    BY DEF Record, SuspendedUntil
  <2> QED
    BY <2>1, <2>2, PriorConstants
<1>4. suspended' \in [Markets -> 0 .. Suspend] /\ leapt' \in [Markets -> 0 .. Suspend]
  <2>1. /\ suspended' = [m \in Markets |-> suspended'[m]]
        /\ leapt' = [m \in Markets |-> leapt'[m]]
    BY DEF Record
  <2> QED
    BY <1>3, <2>1
<1> QED
  BY <1>1, <1>2, <1>3, <1>4 DEF Recorded

\* A step that records, about m at most.
RecordedOf(m) ==
  \E said : DOMAIN said \subseteq {m} /\ Recorded(said)

LEMMA NothingRecorded ==
  ASSUME PriorTypeOK, Balanced, NEW m \in Markets,
         UNCHANGED sample, UNCHANGED suspended, UNCHANGED leapt
  PROVE  RecordedOf(m)
<1> DEFINE said == [x \in {} |-> 0]
<1>1. Recorded(said)
  BY DEF Recorded, PriorTypeOK, Balanced
<1>2. DOMAIN said \subseteq {m}
  OBVIOUS
<1> HIDE DEF said
<1> QED
  BY <1>1, <1>2 DEF RecordedOf

LEMMA OneRecorded ==
  ASSUME PriorTypeOK, Balanced, NEW m \in Markets, NEW mid \in Mids, Record([x \in {m} |-> mid])
  PROVE  RecordedOf(m)
<1> DEFINE said == [x \in {m} |-> mid]
<1>1. DOMAIN said = {m} /\ \A x \in DOMAIN said : said[x] \in 0 .. WAD
  BY PriorConstants
<1>2. Record(said)
  OBVIOUS
<1> HIDE DEF said
<1>3. Recorded(said)
  BY <1>1, <1>2, RecordOK
<1> QED
  BY <1>1, <1>3 DEF RecordedOf

LEMMA HearOK ==
  ASSUME PriorTypeOK, Balanced, NEW m \in Markets,
         NEW answer \in Mids \union {Nothing, Throws}, Hear(m, answer)
  PROVE  RecordedOf(m) /\ final' \in [Markets -> BOOLEAN]
<1>1. final \in [Markets -> BOOLEAN]
  BY DEF PriorTypeOK
<1>2. CASE answer = Nothing
  <2>1. Espn(m)
    BY <1>2 DEF Hear, Nothing, Throws
  <2>2. CASE UNCHANGED <<sample, suspended, leapt, final>>
    BY <1>1, <2>2, NothingRecorded
  <2>3. CASE (\E mid \in Mids : Record([x \in {m} |-> mid])) /\ UNCHANGED final
    BY <1>1, <2>3, OneRecorded
  <2>4. CASE final' = [final EXCEPT ![m] = TRUE] /\ UNCHANGED <<sample, suspended, leapt>>
    BY <1>1, <2>4, NothingRecorded
  <2> QED
    BY <2>1, <2>2, <2>3, <2>4 DEF Espn
<1>3. CASE answer = Throws
  <2>1. UNCHANGED <<sample, suspended, leapt, final>>
    BY <1>3 DEF Hear, Nothing, Throws
  <2> QED
    BY <1>1, <2>1, NothingRecorded
<1>4. CASE answer \in Mids
  <2>1. answer # Nothing /\ answer # Throws
    BY <1>4, PriorConstants
  <2>2. Record([x \in {m} |-> answer]) /\ UNCHANGED final
    BY <2>1 DEF Hear
  <2> QED
    BY <1>1, <1>4, <2>2, OneRecorded
<1> QED
  BY <1>2, <1>3, <1>4

-----------------------------------------------------------------------------
(* The question's sum *)

LEMMA MembersFinite == IsFiniteSet(Members) /\ Members \subseteq Soccer /\ Members \subseteq Markets
<1>1. Members \in SUBSET Soccer /\ Soccer \subseteq Markets
  BY DEF Members, Markets
<1> QED
  BY <1>1, PriorAssumption, FS_Subset

\* What the property sums is the sum of the samples, now and in the next state.
LEMMA SumNow ==
  ASSUME NEW w, \A m \in Members : w[m] = sample[m].yes
  PROVE  \E f : Adds(f, Members, w) /\ Certainty = f[Members]
<1> DEFINE Sums(f) == f = [s \in SUBSET Members |->
                            IF s = {} THEN 0 ELSE sample[First(s)].yes + f[s \ {First(s)}]]
<1>1. \A s \in SUBSET Members : s # {} => w[First(s)] = sample[First(s)].yes
  BY FirstIsMember, MembersFinite
<1>2. \A f : Adds(f, Members, w) <=> Sums(f)
  BY <1>1 DEF Adds
<1>3. Certainty = (CHOOSE f : Sums(f))[Members]
  BY DEF Certainty, MapThenSumSet, MapThenFoldSet, First
<1> HIDE DEF Sums
<1>4. \E f : Sums(f)
  BY <1>2, SumExists, MembersFinite
<1>5. Sums(CHOOSE f : Sums(f))
  BY <1>4, Zenon
<1> QED
  BY <1>2, <1>3, <1>5

LEMMA SumNext ==
  ASSUME UNCHANGED tracked, NEW w, \A m \in Members : w[m] = sample'[m].yes
  PROVE  \E f : Adds(f, Members, w) /\ Certainty' = f[Members]
<1> DEFINE Sums(f) == f = [s \in SUBSET Members |->
                            IF s = {} THEN 0 ELSE sample'[First(s)].yes + f[s \ {First(s)}]]
<1>1. \A s \in SUBSET Members : s # {} => w[First(s)] = sample'[First(s)].yes
  BY FirstIsMember, MembersFinite
<1>2. \A f : Adds(f, Members, w) <=> Sums(f)
  BY <1>1 DEF Adds
<1>3. Certainty' = (CHOOSE f : Sums(f))[Members]
  <2>1. Members' = Members
    BY DEF Members
  <2>2. Certainty' = (CHOOSE f : f = [s \in SUBSET Members' |->
                        IF s = {} THEN 0 ELSE sample'[First(s)].yes + f[s \ {First(s)}]])[Members']
    BY DEF Certainty, MapThenSumSet, MapThenFoldSet, First
  <2> QED
    BY <2>1, <2>2
<1> HIDE DEF Sums
<1>4. \E f : Sums(f)
  BY <1>2, SumExists, MembersFinite
<1>5. Sums(CHOOSE f : Sums(f))
  BY <1>4, Zenon
<1> QED
  BY <1>2, <1>3, <1>5

\* It holds on when no member's sample changes.
LEMMA SumStays ==
  ASSUME QuestionSumsToOne, UNCHANGED tracked, UNCHANGED whole,
         \A m \in Members : sample'[m].yes = sample[m].yes
  PROVE  QuestionSumsToOne'
<1> DEFINE w == [m \in Members |-> sample[m].yes]
<1>1. PICK f : Adds(f, Members, w) /\ Certainty = f[Members]
  BY SumNow
<1>2. PICK g : Adds(g, Members, w) /\ Certainty' = g[Members]
  BY SumNext
<1>3. f[Members] = g[Members]
  BY <1>1, <1>2, SumIsUnique, MembersFinite
<1>4. Members' = Members
  BY DEF Members
<1> QED
  BY <1>1, <1>2, <1>3, <1>4 DEF QuestionSumsToOne

-----------------------------------------------------------------------------
(* Every step of the prior *)

LEMMA PriorInitOK == PriorInit => PriorInv
<1> SUFFICES ASSUME PriorInit PROVE PriorInv
  OBVIOUS
<1>1. PriorTypeOK
  <2>1. pm \in [Markets -> Lookup] /\ mn \in [Nfl -> Lookup]
    BY LookupsOK DEF PriorInit
  <2>2. sample \in [Markets -> [yes : 0 .. WAD, age : 0 .. Stale + 1]]
    BY PriorConstants DEF PriorInit, NoSample
  <2>3. suspended \in [Markets -> 0 .. Suspend] /\ leapt \in [Markets -> 0 .. Suspend]
    BY PriorConstants DEF PriorInit
  <2>4. /\ tracked \in Lists /\ phase \in {"pregame", "play", "expiry"}
        /\ listed \subseteq Markets /\ faults \in 0 .. MaxFaults
    BY PriorConstants DEF PriorInit
  <2>5. final \in [Markets -> BOOLEAN] /\ whole \in BOOLEAN
    BY DEF PriorInit
  <2> QED
    BY <2>1, <2>2, <2>3, <2>4, <2>5 DEF PriorTypeOK, Lookup
<1>2. Balanced
  BY PriorConstants DEF PriorInit, Balanced
<1>3. QuestionSumsToOne
  BY DEF PriorInit, QuestionSumsToOne
<1> QED
  BY <1>1, <1>2, <1>3 DEF PriorInv

LEMMA FaultsOK ==
  ASSUME PriorTypeOK, Fault
  PROVE  faults' \in 0 .. MaxFaults
BY PriorConstants DEF PriorTypeOK, Fault

LEMMA AskOK ==
  ASSUME PriorTypeOK, Balanced, NEW m \in Markets, AskPolymarket(m)
  PROVE  /\ RecordedOf(m) /\ final' \in [Markets -> BOOLEAN]
         /\ pm' \in [Markets -> Lookup] /\ faults' \in 0 .. MaxFaults
<1>1. pm \in [Markets -> Lookup] /\ faults \in 0 .. MaxFaults
  BY DEF PriorTypeOK, Lookup
<1>2. PICK o \in PolymarketSays(m) \union PolymarketFails(m) :
        /\ pm' = [pm EXCEPT ![m] = o.next] /\ Hear(m, o.answer)
        /\ UNCHANGED faults \/ Fault
  BY DEF AskPolymarket
<1>3. o.next \in Lookup /\ o.answer \in Mids \union {Nothing, Throws}
  BY SourcesOK
<1>4. pm' \in [Markets -> Lookup]
  BY <1>1, <1>2, <1>3
<1>5. faults' \in 0 .. MaxFaults
  BY <1>1, <1>2, FaultsOK
<1> QED
  BY <1>2, <1>3, <1>4, <1>5, HearOK

LEMMA TurnOK ==
  ASSUME PriorInv, NEW m \in Nfl, Turn(m)
  PROVE  PriorInv'
<1> USE DEF PriorInv
<1>1. m \in Markets /\ m \notin Members
  BY PriorAssumption DEF Markets, Members
<1>2. /\ pm \in [Markets -> Lookup] /\ mn \in [Nfl -> Lookup]
      /\ final \in [Markets -> BOOLEAN] /\ faults \in 0 .. MaxFaults
  BY DEF PriorTypeOK, Lookup
<1>3. /\ RecordedOf(m) /\ final' \in [Markets -> BOOLEAN] /\ mn' \in [Nfl -> Lookup]
      /\ pm' \in [Markets -> Lookup] /\ faults' \in 0 .. MaxFaults
  <2>1. CASE \E o \in MainnetSays(m) :
               /\ mn' = [mn EXCEPT ![m] = o.next]
               /\ IF o.answer = Nothing THEN AskPolymarket(m)
                  ELSE Record([x \in {m} |-> o.answer]) /\ UNCHANGED <<pm, final, faults>>
    <3>1. PICK o \in MainnetSays(m) :
               /\ mn' = [mn EXCEPT ![m] = o.next]
               /\ IF o.answer = Nothing THEN AskPolymarket(m)
                  ELSE Record([x \in {m} |-> o.answer]) /\ UNCHANGED <<pm, final, faults>>
      BY <2>1
    <3>2. o.next \in Lookup /\ o.answer \in Mids \union {Nothing}
      BY SourcesOK DEF MainnetSays, Outcome
    <3>3. mn' \in [Nfl -> Lookup]
      BY <1>2, <3>1, <3>2
    <3>4. CASE o.answer = Nothing
      BY <1>1, <3>1, <3>3, <3>4, AskOK
    <3>5. CASE o.answer # Nothing
      <4>1. o.answer \in Mids
        BY <3>2, <3>5
      <4>2. Record([x \in {m} |-> o.answer]) /\ UNCHANGED pm /\ UNCHANGED final /\ UNCHANGED faults
        BY <3>1, <3>5
      <4>3. RecordedOf(m)
        BY <1>1, <4>1, <4>2, OneRecorded
      <4> QED
        BY <1>2, <3>3, <4>2, <4>3
    <3> QED
      BY <3>4, <3>5
  <2>2. CASE \E o \in MainnetFails(m) :
               /\ Fault /\ mn' = [mn EXCEPT ![m] = o.next]
               /\ UNCHANGED <<pm, sample, suspended, leapt, final>>
    <3>1. PICK o \in MainnetFails(m) :
               /\ Fault /\ mn' = [mn EXCEPT ![m] = o.next]
               /\ UNCHANGED pm /\ UNCHANGED sample /\ UNCHANGED suspended /\ UNCHANGED leapt
               /\ UNCHANGED final
      BY <2>2
    <3>2. o.next \in Lookup
      BY SourcesOK
    <3>3. RecordedOf(m) /\ faults' \in 0 .. MaxFaults
      BY <1>1, <3>1, NothingRecorded, FaultsOK
    <3> QED
      BY <1>2, <3>1, <3>2, <3>3
  <2> QED
    BY <2>1, <2>2 DEF Turn
<1>4. UNCHANGED tracked /\ UNCHANGED phase /\ UNCHANGED listed /\ UNCHANGED whole
  BY DEF Turn
<1>5. PICK said : DOMAIN said \subseteq {m} /\ Recorded(said)
  BY <1>3 DEF RecordedOf
<1>6. PriorTypeOK'
  BY <1>3, <1>4, <1>5 DEF PriorTypeOK, Lookup, Recorded
<1>7. Balanced'
  BY <1>5 DEF Balanced, Recorded
<1>8. QuestionSumsToOne'
  <2>1. \A x \in Members : x \in Markets \ DOMAIN said
    BY <1>1, <1>5, MembersFinite
  <2>2. \A x \in Members : sample'[x].yes = sample[x].yes
    BY <1>5, <2>1 DEF Recorded
  <2> QED
    BY <1>4, <2>2, SumStays
<1> QED
  BY <1>6, <1>7, <1>8

LEMMA RoundOK ==
  ASSUME PriorInv, Round
  PROVE  PriorInv'
<1> USE DEF PriorInv
<1>1. PICK failing \in SUBSET Members,
           o \in [Members -> UNION {PolymarketSays(m) \union PolymarketFails(m) : m \in Members}] :
        /\ \A m \in Members : o[m] \in IF m \in failing THEN PolymarketFails(m) ELSE PolymarketSays(m)
        /\ faults' = faults + Cardinality(failing) /\ faults' <= MaxFaults
        /\ pm' = [m \in Markets |-> IF m \in Members THEN o[m].next ELSE pm[m]]
        /\ LET spoke == {m \in Members : o[m].answer > 0}
           IN Record(Scaled([m \in spoke |-> o[m].answer])) /\ whole' = (spoke = Members)
  BY DEF Round
<1> DEFINE spoke == {m \in Members : o[m].answer > 0}
           said == [m \in spoke |-> o[m].answer]
           new == Scaled(said)
<1>2. /\ UNCHANGED tracked /\ UNCHANGED mn /\ UNCHANGED final /\ UNCHANGED phase
      /\ UNCHANGED listed /\ Members # {}
  BY DEF Round
<1>3. \A m \in Members : o[m].next \in Lookup /\ o[m].answer \in Mids \union {Nothing, Throws}
  <2> TAKE m \in Members
  <2>1. o[m] \in PolymarketSays(m) \union PolymarketFails(m) /\ m \in Markets
    BY <1>1, MembersFinite
  <2> QED
    BY <2>1, SourcesOK
<1>4. \A m \in spoke : said[m] \in Mids
  BY <1>3 DEF Nothing, Throws
<1>5. pm' \in [Markets -> Lookup]
  <2>1. pm \in [Markets -> Lookup]
    BY DEF PriorTypeOK, Lookup
  <2>2. pm' = [m \in Markets |-> IF m \in Members THEN o[m].next ELSE pm[m]]
    BY <1>1
  <2> QED
    BY <1>3, <2>1, <2>2
<1>6. faults' \in 0 .. MaxFaults
  <2>1. IsFiniteSet(failing) /\ Cardinality(failing) \in Nat
    BY MembersFinite, FS_Subset, FS_CardinalityType
  <2> QED
    BY <1>1, <2>1, PriorConstants DEF PriorTypeOK
<1>7. Record(new) /\ whole' = (spoke = Members)
  BY <1>1
<1>8. whole' \in BOOLEAN
  BY <1>7
<1> HIDE DEF spoke
<1>9. DOMAIN said = spoke /\ spoke \subseteq Members
  BY DEF spoke
<1>10. CASE spoke = Members
  <2> HIDE DEF said
  <2>1. PICK f : Adds(f, Members, said) /\ MapThenSumSet(LAMBDA m : said[m], Members) = f[Members]
    <3>1. MapThenSumSet(LAMBDA m : said[m], Members) = (CHOOSE f : Adds(f, Members, said))[Members]
      BY DEF MapThenSumSet, MapThenFoldSet, First, Adds
    <3>2. Adds(CHOOSE f : Adds(f, Members, said), Members, said)
      <4>1. \E f : Adds(f, Members, said)
        BY SumExists, MembersFinite
      <4> QED
        BY <4>1, Zenon
    <3> QED
      BY <3>1, <3>2
  <2>2. new = [m \in Members |-> (said[m] * WAD) \div f[Members]]
    BY <1>9, <1>10, <2>1 DEF Scaled
  <2> HIDE DEF new
  <2>3. \A m \in Members : new[m] = (said[m] * WAD) \div f[Members]
    BY <2>2
  <2>4. PICK h : Adds(h, Members, new)
    BY SumExists, MembersFinite
  <2>5. \A m \in Members : said[m] \in Nat \ {0}
    BY <1>4, <1>10, PriorConstants
  <2>6. /\ \A m \in Members : new[m] \in 0 .. WAD
        /\ h[Members] <= WAD /\ h[Members] > WAD - Cardinality(Members)
    BY <1>2, <2>1, <2>3, <2>4, <2>5, MembersFinite, PriorConstants, ScaledToOne
  <2>7. DOMAIN new = Members
    BY <2>2
  <2>8. Recorded(new)
    BY <1>7, <2>6, <2>7, MembersFinite, RecordOK
  <2>9. PriorTypeOK' /\ Balanced'
    BY <1>2, <1>5, <1>6, <1>8, <2>8 DEF PriorTypeOK, Lookup, Recorded, Balanced
  <2>10. \A m \in Members : new[m] = sample'[m].yes
    BY <2>7, <2>8 DEF Recorded
  <2>11. PICK g : Adds(g, Members, new) /\ Certainty' = g[Members]
    BY <1>2, <2>10, SumNext
  <2>12. g[Members] = h[Members]
    BY <2>4, <2>11, SumIsUnique, MembersFinite
  <2>13. Members' = Members
    BY <1>2 DEF Members
  <2> QED
    BY <2>6, <2>9, <2>11, <2>12, <2>13 DEF QuestionSumsToOne
<1>11. CASE spoke # Members
  <2>1. new = said
    BY <1>9, <1>11 DEF Scaled
  <2>2. \A m \in DOMAIN new : new[m] \in 0 .. WAD
    BY <1>4, <1>9, <2>1, PriorConstants
  <2>3. DOMAIN new \subseteq Markets
    BY <1>9, <2>1, MembersFinite
  <2> HIDE DEF new, said
  <2>4. Recorded(new)
    BY <1>7, <2>2, <2>3, RecordOK
  <2>5. PriorTypeOK' /\ Balanced'
    BY <1>2, <1>5, <1>6, <1>8, <2>4 DEF PriorTypeOK, Lookup, Recorded, Balanced
  <2>6. ~whole'
    BY <1>7, <1>11
  <2> QED
    BY <2>5, <2>6 DEF QuestionSumsToOne
<1> QED
  BY <1>10, <1>11

LEMMA PassOK ==
  ASSUME PriorInv, Pass
  PROVE  PriorInv'
<1> USE DEF PriorInv
<1>1. /\ UNCHANGED tracked /\ UNCHANGED final /\ UNCHANGED phase /\ UNCHANGED listed
      /\ UNCHANGED whole /\ UNCHANGED faults
  BY DEF Pass
<1>2. pm' \in [Markets -> Lookup] /\ mn' \in [Nfl -> Lookup]
  <2>1. pm \in [Markets -> Lookup] /\ mn \in [Nfl -> Lookup]
    BY DEF PriorTypeOK, Lookup
  <2>2. /\ pm' = [m \in Markets |-> [pm[m] EXCEPT !.retry = Less(@)]]
        /\ mn' = [m \in Nfl |-> [mn[m] EXCEPT !.retry = Less(@)]]
    BY DEF Pass
  <2> QED
    BY <2>1, <2>2, LookupsOK
<1>3. /\ sample' \in [Markets -> [yes : 0 .. WAD, age : 0 .. Stale + 1]]
      /\ \A m \in Markets : sample'[m].yes = sample[m].yes
  <2>1. \A m \in Markets : sample[m] \in [yes : 0 .. WAD, age : 0 .. Stale + 1]
    BY DEF PriorTypeOK
  <2>2. sample' = [m \in Markets |-> IF sample[m] = NoSample \/ sample[m].age > Stale THEN sample[m]
                                     ELSE [sample[m] EXCEPT !.age = @ + 1]]
    BY DEF Pass
  <2>3. ASSUME NEW m \in Markets
        PROVE  /\ sample'[m] \in [yes : 0 .. WAD, age : 0 .. Stale + 1]
               /\ sample'[m].yes = sample[m].yes
    <3>1. CASE sample[m] = NoSample \/ sample[m].age > Stale
      BY <2>1, <2>2, <3>1
    <3>2. CASE ~(sample[m] = NoSample \/ sample[m].age > Stale)
      <4>1. sample'[m] = [sample[m] EXCEPT !.age = @ + 1]
        BY <2>2, <3>2
      <4>2. sample[m].age + 1 \in 0 .. Stale + 1
        BY <2>1, <3>2, PriorConstants
      <4> QED
        BY <2>1, <4>1, <4>2
    <3> QED
      BY <3>1, <3>2
  <2> QED
    BY <2>2, <2>3
<1>4. /\ suspended' \in [Markets -> 0 .. Suspend] /\ leapt' \in [Markets -> 0 .. Suspend]
      /\ Balanced'
  <2>1. /\ suspended' = [m \in Markets |-> Less(suspended[m])]
        /\ leapt' = [m \in Markets |-> IF leapt[m] = Suspend THEN Suspend ELSE leapt[m] + 1]
    BY DEF Pass
  <2>2. \A m \in Markets : /\ suspended[m] \in 0 .. Suspend /\ leapt[m] \in 0 .. Suspend
                           /\ suspended[m] + leapt[m] = Suspend
    BY DEF PriorTypeOK, Balanced
  <2>3. ASSUME NEW m \in Markets
        PROVE  /\ suspended'[m] \in 0 .. Suspend /\ leapt'[m] \in 0 .. Suspend
               /\ suspended'[m] + leapt'[m] = Suspend
    BY <2>1, <2>2, PriorConstants DEF Less
  <2> QED
    BY <2>1, <2>3 DEF Balanced
<1>5. PriorTypeOK'
  BY <1>1, <1>2, <1>3, <1>4 DEF PriorTypeOK, Lookup
<1>6. QuestionSumsToOne'
  BY <1>1, <1>3, SumStays, MembersFinite
<1> QED
  BY <1>4, <1>5, <1>6

\* What only moves the games or their listings.
LEMMA MarketsStay ==
  ASSUME PriorInv, UNCHANGED <<tracked, market, leapt, whole, faults>>,
         phase' \in {"pregame", "play", "expiry"}, listed' \subseteq Markets
  PROVE  PriorInv'
<1> USE DEF PriorInv
<1>1. /\ UNCHANGED tracked /\ UNCHANGED pm /\ UNCHANGED mn /\ UNCHANGED sample
      /\ UNCHANGED suspended /\ UNCHANGED final /\ UNCHANGED leapt /\ UNCHANGED whole
      /\ UNCHANGED faults
  BY DEF market
<1>2. PriorTypeOK'
  BY <1>1 DEF PriorTypeOK
<1>3. Balanced'
  BY <1>1 DEF Balanced
<1>4. QuestionSumsToOne'
  BY <1>1, SumStays
<1> QED
  BY <1>2, <1>3, <1>4

LEMMA PriorStepOK == PriorInv /\ [PriorNext]_priorVars => PriorInv'
<1> SUFFICES ASSUME PriorInv, [PriorNext]_priorVars PROVE PriorInv'
  OBVIOUS
<1>1. ASSUME NEW m \in Nfl, Turn(m) PROVE PriorInv'
  BY <1>1, TurnOK
<1>2. CASE Round
  BY <1>2, RoundOK
<1>3. CASE Pass
  BY <1>3, PassOK
<1>4. listed \subseteq Markets /\ phase \in {"pregame", "play", "expiry"} /\ tracked \subseteq Markets
  BY PriorAssumption DEF PriorInv, PriorTypeOK
<1>5. CASE GamesMove
  BY <1>4, <1>5, MarketsStay DEF GamesMove
<1>6. ASSUME NEW m \in tracked, ListOrDelist(m) PROVE PriorInv'
  BY <1>4, <1>6, MarketsStay DEF ListOrDelist
<1>7. CASE UNCHANGED priorVars
  BY <1>4, <1>7, MarketsStay DEF priorVars
<1> QED
  BY <1>1, <1>2, <1>3, <1>5, <1>6, <1>7 DEF PriorNext

\* What the pricer is given is sound (livePrior.ts record, pollSoccer, pricedYes): a live
\* price is no jump's aftermath, and a question that was heard whole sums to one but for
\* the rounding, for any games, odds, thresholds and failures.
THEOREM PricesAreSound == PriorSpec => []PricesSound
<1>1. PriorInv => PricesSound
  <2> SUFFICES ASSUME PriorInv PROVE JumpsSuspend
    BY DEF PriorInv, PricesSound
  <2>1. \A m \in Markets : leapt[m] \in 0 .. Suspend /\ suspended[m] + leapt[m] = Suspend
    BY DEF PriorInv, PriorTypeOK, Balanced
  <2> QED
    BY <2>1, PriorConstants DEF JumpsSuspend, Live
<1> QED
  BY <1>1, PriorInitOK, PriorStepOK, PTL DEF PriorSpec

=============================================================================
