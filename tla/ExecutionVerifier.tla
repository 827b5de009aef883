------------------------- MODULE ExecutionVerifier -------------------------
(***************************************************************************)
(* IExecutionVerifier.sol: what an OutcomeVault relies on when it asks     *)
(* whether a queued Core action executed.  An operation gets at most one   *)
(* verdict; its status is that verdict or, at any time, Pending.           *)
(***************************************************************************)
CONSTANTS OpKeys

VARIABLES
  verdict,   \* what was decided about each operation, "none" before that
  status     \* what statusOf returns for it

Verdicts == {"Executed", "Failed"}
Statuses == Verdicts \union {"Pending"}

VerifierTypeOK ==
  /\ verdict \in [OpKeys -> Verdicts \union {"none"}]
  /\ status \in [OpKeys -> Statuses]

Init ==
  /\ verdict = [k \in OpKeys |-> "none"]
  /\ status = [k \in OpKeys |-> "Pending"]

Decide(k, v) ==
  /\ verdict[k] = "none"
  /\ verdict' = [verdict EXCEPT ![k] = v]
  /\ status' \in [OpKeys -> Statuses]
  /\ \A j \in OpKeys : status'[j] \in {"Pending", verdict'[j]}

\* Verdicts mature, and may be held back again.
Report ==
  /\ status' \in [OpKeys -> Statuses]
  /\ \A j \in OpKeys : status'[j] \in {"Pending", verdict[j]}
  /\ UNCHANGED verdict

Next == Report \/ \E k \in OpKeys, v \in Verdicts : Decide(k, v)

Spec == Init /\ [][Next]_<<verdict, status>>
=============================================================================
