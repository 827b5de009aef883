---------------------------- MODULE MCLivePrior ----------------------------
(* A football game, or a soccer question: they share nothing but the tick. *)
EXTENDS LivePrior

Priors == [m \in Markets |-> 6]
OneOrTheOther == {Nfl, Soccer}
=============================================================================
