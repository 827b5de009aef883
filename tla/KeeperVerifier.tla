--------------------------- MODULE KeeperVerifier ---------------------------
(***************************************************************************)
(* KeeperVerifier.sol: the keeper attests once per operation; the verdict  *)
(* shows after minDelay, in which the owner can still pause the contract.  *)
(***************************************************************************)
EXTENDS Integers

CONSTANTS
  Accounts,    \* callers
  OpKeys,      \* keccak256(vault, opId)
  Delays,      \* delays the owner may set
  FirstDelay,  \* minDelay at deployment (10 minutes)
  MaxTime      \* bound: the clock stops there

ASSUME DelaysAssumption ==
  /\ Delays \subseteq Nat
  /\ FirstDelay \in Delays
  /\ MaxTime \in Nat

VARIABLES owner, keeper, minDelay, paused, attestations, now

verifierVars == <<owner, keeper, minDelay, paused, attestations, now>>

Attestation == [attested : BOOLEAN, executed : BOOLEAN, timestamp : 0 .. MaxTime]
Unattested == [attested |-> FALSE, executed |-> FALSE, timestamp |-> 0]

VerifierTypeOK ==
  /\ owner \in Accounts
  /\ keeper \in Accounts
  /\ minDelay \in Delays
  /\ paused \in BOOLEAN
  /\ attestations \in [OpKeys -> Attestation]
  /\ now \in 0 .. MaxTime

VerifierInit ==
  /\ owner \in Accounts
  /\ keeper \in Accounts
  /\ minDelay = FirstDelay
  /\ paused = FALSE
  /\ attestations = [k \in OpKeys |-> Unattested]
  /\ now = 0

Attestable(k) == ~attestations[k].attested

Attest(caller, k, executed) ==
  /\ caller = keeper
  /\ Attestable(k)
  /\ attestations' = [attestations EXCEPT ![k] =
                        [attested |-> TRUE, executed |-> executed, timestamp |-> now]]
  /\ UNCHANGED <<owner, keeper, minDelay, paused, now>>

\* Mutant: what was never attested reads Failed once the delay has passed.
StatusOfAnything(k) ==
  IF paused \/ now < attestations[k].timestamp + minDelay
  THEN "Pending"
  ELSE IF attestations[k].executed THEN "Executed" ELSE "Failed"
StatusOf(k) ==
  IF paused \/ ~attestations[k].attested \/ now < attestations[k].timestamp + minDelay
  THEN "Pending"
  ELSE IF attestations[k].executed THEN "Executed" ELSE "Failed"

SetKeeper(caller, a) ==
  /\ caller = owner
  /\ keeper' = a
  /\ UNCHANGED <<owner, minDelay, paused, attestations, now>>

SetMinDelay(caller, d) ==
  /\ caller = owner
  /\ minDelay' = d
  /\ UNCHANGED <<owner, keeper, paused, attestations, now>>

Pause(caller) ==
  /\ caller = owner
  /\ paused' = TRUE
  /\ UNCHANGED <<owner, keeper, minDelay, attestations, now>>

Unpause(caller) ==
  /\ caller = owner
  /\ paused' = FALSE
  /\ UNCHANGED <<owner, keeper, minDelay, attestations, now>>

Tick ==
  /\ now < MaxTime
  /\ now' = now + 1
  /\ UNCHANGED <<owner, keeper, minDelay, paused, attestations>>

VerifierNext ==
  \/ \E caller \in Accounts :
       \/ \E k \in OpKeys, executed \in BOOLEAN : Attest(caller, k, executed)
       \/ \E a \in Accounts : SetKeeper(caller, a)
       \/ \E d \in Delays : SetMinDelay(caller, d)
       \/ Pause(caller)
       \/ Unpause(caller)
  \/ Tick

VerifierSpec == VerifierInit /\ [][VerifierNext]_verifierVars

-----------------------------------------------------------------------------
VerdictOf(k) ==
  IF ~attestations[k].attested THEN "none"
  ELSE IF attestations[k].executed THEN "Executed" ELSE "Failed"

\* KeeperVerifier keeps the promise of IExecutionVerifier: whatever the keepers
\* attest, the owner pauses, resumes or re-delays, and however time passes, an
\* operation that once read Executed never reads Failed, nor the reverse, and
\* none gets a status without an attestation.
V == INSTANCE ExecutionVerifier WITH
       verdict <- [k \in OpKeys |-> VerdictOf(k)],
       status <- [k \in OpKeys |-> StatusOf(k)]
ImplementsVerifier == V!Spec
=============================================================================
