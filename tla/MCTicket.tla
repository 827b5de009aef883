------------------------------ MODULE MCTicket ------------------------------
(* Two markets of one question and one of another.                          *)
EXTENDS Ticket, TLC

Groups == ("home" :> "match") @@ ("draw" :> "match") @@ ("over" :> "score")
=============================================================================
