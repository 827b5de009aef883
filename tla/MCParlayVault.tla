--------------------------- MODULE MCParlayVault ---------------------------
(***************************************************************************)
(* A small instance of ParlayVault.  The house owns the contract, alice    *)
(* bets, and either may be the writer and the holder of a ticket.  The     *)
(* bettor's quote bets on both sides of a leg, and was signed again, by a  *)
(* second key and for longer, under the same id; the other has a leg in    *)
(* common with it and is refused under a raised floor.                     *)
(***************************************************************************)
EXTENDS ParlayVault, TLC

CONSTANTS house, alice, key, key2, l1, l2

Leg(l, yes) == [vault |-> l, isYes |-> yes]

Terms(id, legs, maxPayout, deadline, signer) ==
  [quoteId |-> id, signer |-> signer, taker |-> alice, legs |-> legs,
   premium |-> 1, maxPayout |-> maxPayout, deadline |-> deadline]

SignedQuotes == {Terms(1, <<Leg(l1, TRUE), Leg(l1, FALSE)>>, 2, 0, key),
                 Terms(1, <<Leg(l1, TRUE), Leg(l1, FALSE)>>, 2, 1, key2),
                 Terms(2, <<Leg(l1, FALSE), Leg(l2, TRUE)>>, 3, 1, key2)}
Usdc == (house :> 3) @@ (alice :> 2)
Allowances == {<<house, 3>>, <<alice, 2>>}
=============================================================================
