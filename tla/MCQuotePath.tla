---------------------------- MODULE MCQuotePath ----------------------------
(* Three markets: two of one game, two of one question.                    *)
EXTENDS QuotePath, TLC

Games == ("win" :> "x") @@ ("score" :> "x") @@ ("draw" :> "y")
Questions == ("win" :> 0) @@ ("score" :> 1) @@ ("draw" :> 1)
Expiries == ("win" :> 5) @@ ("score" :> 5) @@ ("draw" :> 6)
Ladders == {<<<<35, 1>>, <<55, 3>>>>, <<<<45, 1>>>>}
=============================================================================
