---------------------------- MODULE MCWaitlist ----------------------------
(* The accounts share an email, as when it was moved from the one to the   *)
(* other.                                                                  *)
EXTENDS Waitlist, TLC

Mailboxes == ("ann" :> {"a@x", "b@x"}) @@ ("bob" :> {"a@x"})
=============================================================================
