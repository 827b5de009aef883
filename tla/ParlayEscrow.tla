---------------------------- MODULE ParlayEscrow ----------------------------
(***************************************************************************)
(* What the parlay contract promises about money.  Every quote backs one   *)
(* ticket, and every ticket has an escrow of its own, which its taker and  *)
(* the writer of that day fill with its whole payout when it is sold.  The *)
(* escrow leaves once and whole: to the writer that paid into it when a    *)
(* leg is lost, to the holder when every leg has hit, to each the stake    *)
(* when a leg came in between.  No ticket, no writer, no time and no       *)
(* allowance of another reaches it.                                        *)
(***************************************************************************)
EXTENDS Naturals, Sequences

CONSTANTS
  Accounts,
  NoAccount,   \* the holder of a ticket that was paid
  Legs,
  Quotes,      \* [quoteId, taker, legs, premium, maxPayout] and what else they hold
  Initial      \* what each account starts with

VARIABLES
  balance,     \* account -> USDC
  result,      \* leg -> "unsettled", or its fraction: "zero", "partial" or "one"
  tickets      \* quoteId -> [legs, funder, holder, premium, escrow, verdict]

vars == <<balance, result, tickets>>

Init ==
  /\ balance = Initial
  /\ result = [l \in Legs |-> "unsettled"]
  /\ DOMAIN tickets = {}

Settle(l, f) ==
  /\ result[l] = "unsettled"
  /\ result' = [result EXCEPT ![l] = f]
  /\ UNCHANGED <<balance, tickets>>

\* An account sends USDC elsewhere.
Give(a) ==
  /\ balance[a] > 0
  /\ balance' = [balance EXCEPT ![a] = @ - 1]
  /\ UNCHANGED <<result, tickets>>

\* The share of account a in a payment of n to account b.
Share(a, b, n) == IF a = b THEN n ELSE 0
Stake(q, funder, a) == Share(a, q.taker, q.premium) + Share(a, funder, q.maxPayout - q.premium)

\* A quote is sold once, while its legs are open, to a taker and a funder that
\* have the stakes.
Sell(q, funder) ==
  /\ q.quoteId \notin DOMAIN tickets
  /\ q.premium < q.maxPayout
  /\ \A i \in DOMAIN q.legs : result[q.legs[i].vault] = "unsettled"
  /\ \A a \in Accounts : Stake(q, funder, a) <= balance[a]
  /\ balance' = [a \in Accounts |-> balance[a] - Stake(q, funder, a)]
  /\ tickets' = [k \in DOMAIN tickets \union {q.quoteId} |->
                   IF k = q.quoteId
                   THEN [legs |-> q.legs, funder |-> funder, holder |-> q.taker,
                         premium |-> q.premium, escrow |-> q.maxPayout, verdict |-> "Open"]
                   ELSE tickets[k]]
  /\ UNCHANGED result

HandOver(k, to) ==
  /\ tickets[k].holder # NoAccount
  /\ tickets' = [tickets EXCEPT ![k].holder = to]
  /\ UNCHANGED <<balance, result>>

Hit(leg) == result[leg.vault] = IF leg.isYes THEN "one" ELSE "zero"
Missed(leg) == result[leg.vault] = IF leg.isYes THEN "zero" ELSE "one"
LegsOf(k) == {tickets[k].legs[i] : i \in DOMAIN tickets[k].legs}

\* The whole escrow of ticket k leaves: toHolder of it to its holder, who gives the
\* ticket up, the rest to its funder.
Release(k, toHolder) ==
  balance' = [a \in Accounts |-> balance[a] + Share(a, tickets[k].holder, toHolder)
                                 + Share(a, tickets[k].funder, tickets[k].escrow - toHolder)]

\* A lost leg: the ticket stays as a receipt.
Die(k) ==
  /\ tickets[k].verdict = "Open"
  /\ \E leg \in LegsOf(k) : Missed(leg)
  /\ Release(k, 0)
  /\ tickets' = [tickets EXCEPT ![k] = [@ EXCEPT !.verdict = "Dead", !.escrow = 0]]
  /\ UNCHANGED result

\* A leg in between, and none lost yet.
Refund(k) ==
  /\ tickets[k].verdict = "Open"
  /\ \E leg \in LegsOf(k) : result[leg.vault] = "partial"
  /\ \A leg \in LegsOf(k) : ~Missed(leg)
  /\ Release(k, tickets[k].premium)
  /\ tickets' = [tickets EXCEPT ![k] = [@ EXCEPT !.verdict = "Void", !.escrow = 0,
                                            !.holder = NoAccount]]
  /\ UNCHANGED result

Win(k) ==
  /\ tickets[k].verdict = "Open"
  /\ \A leg \in LegsOf(k) : Hit(leg)
  /\ tickets' = [tickets EXCEPT ![k].verdict = "Won"]
  /\ UNCHANGED <<balance, result>>

\* Every leg has hit, and whoever holds the ticket takes it all.
Pay(k) ==
  /\ tickets[k].verdict \in {"Open", "Won"}
  /\ \A leg \in LegsOf(k) : Hit(leg)
  /\ tickets[k].holder # NoAccount
  /\ Release(k, tickets[k].escrow)
  /\ tickets' = [tickets EXCEPT ![k] = [@ EXCEPT !.verdict = "Won", !.escrow = 0,
                                            !.holder = NoAccount]]
  /\ UNCHANGED result

Next ==
  \/ \E l \in DOMAIN result, f \in {"zero", "partial", "one"} : Settle(l, f)
  \/ \E a \in Accounts : Give(a)
  \/ \E q \in Quotes, funder \in Accounts : Sell(q, funder)
  \/ \E k \in DOMAIN tickets :
       Die(k) \/ Refund(k) \/ Win(k) \/ Pay(k) \/ \E to \in Accounts : HandOver(k, to)

Spec == Init /\ [][Next]_vars
=============================================================================
