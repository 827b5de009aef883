---------------------------- MODULE MCWriterBook ----------------------------
(***************************************************************************)
(* Two games of one cluster.  The first two quotes compete for game a, the *)
(* last two for game b, the first and the last for the cluster.            *)
(***************************************************************************)
EXTENDS WriterBook, TLC

CONSTANTS a, b, ann, bob

QuoteLegs == <<a :> "yes", a :> "no" @@ b :> "yes", b :> "yes">>
QuoteRisk == <<2, 1, 2>>
QuoteUser == <<ann, bob, ann>>
Cluster == {{a, b}}
LosingOutcomes == [v \in {a, b} |-> {"zero"}]
VaultOutcomes == (a :> {"zero"}) @@ (b :> {"part"})

\* Two quotes on two games.
ApartLegs == <<a :> "yes", b :> "yes">>
ApartRisk == <<2, 2>>
=============================================================================
