------------------------- MODULE MCSettlementBridge -------------------------
(***************************************************************************)
(* Two markets, a and b, that settle to different fractions; Elysium legs  *)
(* for one or both.                                                        *)
(***************************************************************************)
EXTENDS SettlementBridge, TLC

CONSTANTS a, b, low, high

Order == <<a, b>>
Fractions == (a :> low) @@ (b :> high)
=============================================================================
