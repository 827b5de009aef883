--------------------------- MODULE KeeperBalance ---------------------------
(***************************************************************************)
(* The keeper's balance loop (keeper/src/balance.ts): how it finds out     *)
(* what Core did with a vault's operation and attests it.  Core says       *)
(* nothing about an operation it drops, so the keeper compares the vault's *)
(* outcome balance with a sample taken before the operation's block, and   *)
(* takes no change for a drop only if it has such a sample.                *)
(*                                                                         *)
(* One vault and its KeeperVerifier, whose owner replaces the keeper, sets *)
(* the delay and pauses.  Steps end at awaits: the tick and the handlers of*)
(* OpQueued logs interleave, calls fail, answers come late, transactions   *)
(* mine late, the keeper restarts with nothing but the chain to go by.     *)
(***************************************************************************)
EXTENDS KeeperVerifier, SequencesExt

CONSTANTS
  Bot,           \* the account that this keeper signs with
  Wei,           \* outcome amounts of an operation
  Skew,          \* how far the keeper's clock is behind the chain's
  Margin,        \* CLOCK_SKEW_MARGIN_MS
  MaxAge,        \* MAX_SAMPLE_AGE_MS
  Timeout,       \* BALANCE_TIMEOUT_MS
  HistoryLimit,  \* HISTORY_LIMIT
  CoreLatency,   \* within this time of its block Core executes or drops an action
  ReadLatency,   \* within this time a balance that was read is in the keeper's hands
  ReceiptWait,   \* within this time of the read attest() answers (RECEIPT_TIMEOUT_MS)
  MaxOps,        \* bound on operations
  MaxRestarts,   \* bound on restarts
  MaxChanges     \* bound on what the verifier's owner does

ASSUME TimingAssumption ==
  /\ Wei \subseteq Nat \ {0}
  /\ Bot \in Accounts /\ OpKeys = 1 .. MaxOps
  /\ {Skew, Margin, MaxAge, Timeout, CoreLatency, ReadLatency, ReceiptWait} \subseteq Nat
  /\ HistoryLimit \in Nat \ {0}
  /\ {MaxOps, MaxRestarts, MaxChanges} \subseteq Nat
  /\ Skew <= Margin
  /\ \A d \in Delays : Margin <= d
  /\ CoreLatency + ReadLatency <= Timeout

VARIABLES
  ops,          \* the operations queued so far; the keeper knows them by index
  slot,         \* the operation in the vault's slot, 0 for none
  result,       \* what Core did with each operation
  yes,          \* 0x801: the vault's outcome balance
  inFlight,     \* attest() transactions not yet mined
  logs,         \* operations whose OpQueued log the watcher has yet to deliver
  pc,           \* the tick: "down", "seeded", "idle", "read", "attest"
  current,      \* the balance the tick read, and when it was read
  samples,      \* balanceHistory
  tracked,      \* pendingOps, NoOp if empty
  resolving,    \* for each operation, the await its log handler is at
  restarts,
  changes

vault == <<ops, slot, result, yes>>
bounds == <<restarts, changes>>
loop == <<pc, current, samples, tracked, resolving>>
vars == <<verifierVars, vault, inFlight, logs, loop, bounds>>

Op == [delta : {w : w \in Wei} \union {-w : w \in Wei}, at : 0 .. MaxTime]
NoOp == [op |-> 0, baseline |-> 0, known |-> FALSE, since |-> 0, confident |-> FALSE]
Tracked == [op : 1 .. MaxOps, baseline : Int, known : BOOLEAN, since : Int,
            confident : BOOLEAN]
Tx == [op : 1 .. MaxOps, executed : BOOLEAN]

TypeOK ==
  /\ VerifierTypeOK
  /\ ops \in Seq(Op) /\ Len(ops) <= MaxOps
  /\ slot \in 0 .. Len(ops)
  /\ result \in [1 .. MaxOps -> {"none", "queued", "executed", "dropped"}]
  /\ yes \in Int
  /\ inFlight \subseteq Tx
  /\ logs \subseteq 1 .. Len(ops)
  /\ pc \in {"down", "seeded", "idle", "read", "attest"}
  /\ current \in [balance : Int, at : 0 .. MaxTime]
  /\ samples \in Seq([readAt : Int, balance : Int]) /\ Len(samples) <= HistoryLimit
  /\ tracked \in Tracked \union {NoOp}
  /\ resolving \in [1 .. MaxOps -> {"no", "block", "balance"}]
  /\ restarts \in 0 .. MaxRestarts /\ changes \in 0 .. MaxChanges

Init ==
  /\ VerifierInit /\ keeper = Bot /\ owner # Bot
  /\ ops = << >>
  /\ slot = 0
  /\ result = [op \in 1 .. MaxOps |-> "none"]
  /\ yes = 0
  /\ inFlight = {}
  /\ logs = {}
  /\ pc = "down"
  /\ current = [balance |-> 0, at |-> 0]
  /\ samples = << >>
  /\ tracked = NoOp
  /\ resolving = [op \in 1 .. MaxOps |-> "no"]
  /\ restarts = 0 /\ changes = 0

Clock == now - Skew   \* Date.now()
Watching == pc \in {"idle", "read", "attest"}
HasVerdict(op) == attestations[op].attested

-----------------------------------------------------------------------------
(***************************************************************************)
(* The vault, its verifier and Core.                                       *)
(***************************************************************************)
\* A deposit's split or a redeem's merge; a merge burns what is there.
Queue(delta) ==
  /\ slot = 0
  /\ Len(ops) < MaxOps
  /\ yes + delta >= 0
  /\ ops' = Append(ops, [delta |-> delta, at |-> now])
  /\ slot' = Len(ops) + 1
  /\ result' = [result EXCEPT ![Len(ops) + 1] = "queued"]
  /\ logs' = IF Watching THEN logs \union {Len(ops) + 1} ELSE logs
  /\ UNCHANGED <<verifierVars, yes, inFlight, loop, bounds>>

\* Core executes an action after the block that queued it.
Execute(op) ==
  /\ result[op] = "queued"
  /\ now > ops[op].at
  /\ result' = [result EXCEPT ![op] = "executed"]
  /\ yes' = yes + ops[op].delta
  /\ UNCHANGED <<verifierVars, ops, slot, inFlight, logs, loop, bounds>>

Drop(op) ==
  /\ result[op] = "queued"
  /\ result' = [result EXCEPT ![op] = "dropped"]
  /\ UNCHANGED <<verifierVars, ops, slot, yes, inFlight, logs, loop, bounds>>

\* attest() is mined: it reverts if the account is no longer the keeper's, or if
\* there is a verdict.
MineAttest(tx) ==
  /\ inFlight' = inFlight \ {tx}
  /\ IF keeper = Bot /\ Attestable(tx.op) THEN Attest(Bot, tx.op, tx.executed)
     ELSE UNCHANGED verifierVars
  /\ UNCHANGED <<vault, logs, loop, bounds>>

\* What the owner does to the verifier
Govern ==
  /\ changes < MaxChanges /\ changes' = changes + 1
  /\ \/ \E a \in Accounts : SetKeeper(owner, a)
     \/ \E d \in Delays : SetMinDelay(owner, d)
     \/ Pause(owner)
     \/ Unpause(owner)
  /\ UNCHANGED <<vault, inFlight, logs, loop, restarts>>

\* claimDeposit, cancelDeposit, claimRedeem or cancelRedeem, by the user.
EndOp ==
  /\ slot # 0
  /\ StatusOf(slot) # "Pending"
  /\ slot' = 0
  /\ UNCHANGED <<verifierVars, ops, result, yes, inFlight, logs, loop, bounds>>

\* Time passes, but no further than Core, a read and the wait for a receipt take.
Elapse ==
  /\ Tick
  /\ \A op \in DOMAIN ops : result[op] = "queued" => now < ops[op].at + CoreLatency
  /\ pc = "read" => now < current.at + ReadLatency
  /\ pc = "attest" => now < current.at + ReceiptWait
  /\ UNCHANGED <<vault, inFlight, logs, loop, bounds>>

-----------------------------------------------------------------------------
(***************************************************************************)
(* Tracking an operation.                                                  *)
(***************************************************************************)
\* newestSampleBefore(block timestamp).  Mutant: no margin for the clock.
NoMargin(op) ==
  {s \in ToSet(samples) : s.readAt <= ops[op].at /\ s.readAt >= ops[op].at - MaxAge}
Usable(op) ==
  {s \in ToSet(samples) : /\ s.readAt <= ops[op].at - Margin
                          /\ s.readAt >= ops[op].at - Margin - MaxAge}
Newest(set) == {s \in set : \A t \in set : t.readAt <= s.readAt}

Track(op, baseline, known, confident) ==
  tracked' = IF tracked # NoOp THEN tracked
             ELSE [op |-> op, baseline |-> baseline, known |-> known, since |-> Clock,
                   confident |-> confident]

\* onLogs: a log that arrives while an operation is tracked is discarded.
OnLog(op) ==
  /\ op \in logs
  /\ Watching
  /\ logs' = logs \ {op}
  /\ resolving' = IF tracked # NoOp THEN resolving ELSE [resolving EXCEPT ![op] = "block"]
  /\ UNCHANGED <<verifierVars, vault, inFlight, pc, current, samples, tracked, bounds>>

\* resolveLiveBaseline, after getBlock: among equally recent samples the first.
GotBlock(op) ==
  /\ resolving[op] = "block"
  /\ \E s \in Newest(Usable(op)) : Track(op, s.balance, TRUE, TRUE)
  /\ resolving' = [resolving EXCEPT ![op] = "no"]
  /\ UNCHANGED <<verifierVars, vault, inFlight, logs, pc, current, samples, bounds>>

\* getBlock failed, or no sample is usable.
NoProvenance(op) ==
  /\ resolving[op] = "block"
  /\ resolving' = [resolving EXCEPT ![op] = "balance"]
  /\ UNCHANGED <<verifierVars, vault, inFlight, logs, pc, current, samples, tracked, bounds>>

\* The balance of now, which may be from after the execution, or none.  Mutant: it
\* is as good as a sample.
ConfidentFallback(op) == Track(op, yes, TRUE, TRUE)
TrackUnsure(op) == Track(op, yes, TRUE, FALSE)

Fallback(op) ==
  /\ resolving[op] = "balance"
  /\ TrackUnsure(op) \/ Track(op, 0, FALSE, FALSE)
  /\ resolving' = [resolving EXCEPT ![op] = "no"]
  /\ UNCHANGED <<verifierVars, vault, inFlight, logs, pc, current, samples, bounds>>

-----------------------------------------------------------------------------
(***************************************************************************)
(* The tick.                                                               *)
(***************************************************************************)
\* every(): a poll interval, a unit of time or more, lies between two ticks.
ReadBalance ==
  /\ pc = "idle"
  /\ \A s \in ToSet(samples) : s.readAt < Clock
  /\ pc' = "read"
  /\ current' = [balance |-> yes, at |-> now]
  /\ UNCHANGED <<verifierVars, vault, inFlight, logs, samples, tracked, resolving, bounds>>

ReadFails ==
  /\ pc = "read"
  /\ pc' = "idle"
  /\ UNCHANGED <<verifierVars, vault, inFlight, logs, current, samples, tracked, resolving, bounds>>

\* The oldest sample makes room.  Mutant: it does not.
KeepAll == samples' = Append(samples, [readAt |-> Clock, balance |-> current.balance])
RecordSample ==
  samples' = LET more == Append(samples, [readAt |-> Clock, balance |-> current.balance])
             IN  IF Len(more) > HistoryLimit THEN Tail(more) ELSE more

DeltaMatches == current.balance - tracked.baseline = ops[tracked.op].delta
TimedOut == Clock - tracked.since > Timeout

\* resolveBalanceCheck.  Mutant: a timeout is a drop, sample or no sample.
AnyTimeout == ~DeltaMatches /\ TimedOut
AttestTrue == DeltaMatches
AttestFalse == ~DeltaMatches /\ TimedOut /\ tracked.confident

\* attest(): an operation that has a verdict is dropped from tracking.
SendAttest(executed) ==
  \/ /\ keeper = Bot /\ ~Attestable(tracked.op)
     /\ pc' = "idle" /\ tracked' = NoOp
     /\ UNCHANGED inFlight
  \/ /\ keeper # Bot
     /\ pc' = "idle"
     /\ UNCHANGED <<inFlight, tracked>>
  \/ /\ keeper = Bot /\ Attestable(tracked.op)
     /\ pc' = "attest"
     /\ inFlight' = inFlight \union {[op |-> tracked.op, executed |-> executed]}
     /\ UNCHANGED tracked

Evaluate ==
  /\ pc = "read"
  /\ RecordSample
  /\ \/ /\ tracked = NoOp
        /\ pc' = "idle"
        /\ UNCHANGED <<inFlight, tracked>>
     \/ /\ tracked # NoOp
        /\ ~tracked.known
        /\ tracked' = [tracked EXCEPT !.baseline = current.balance, !.known = TRUE]
        /\ pc' = "idle"
        /\ UNCHANGED inFlight
     \/ /\ tracked # NoOp
        /\ tracked.known
        /\ \/ AttestTrue /\ SendAttest(TRUE)
           \/ AttestFalse /\ SendAttest(FALSE)
           \/ /\ ~AttestTrue /\ ~AttestFalse
              /\ pc' = "idle"
              /\ UNCHANGED <<inFlight, tracked>>
  /\ UNCHANGED <<verifierVars, vault, logs, current, resolving, bounds>>

\* The transaction is mined with this verdict, or the wait ends without that.
Receipt ==
  /\ pc = "attest"
  /\ pc' = "idle"
  /\ \/ /\ HasVerdict(tracked.op)
        /\ tracked' = NoOp
     \/ UNCHANGED tracked
  /\ UNCHANGED <<verifierVars, vault, inFlight, logs, current, samples, resolving, bounds>>

-----------------------------------------------------------------------------
(***************************************************************************)
(* Restarts.                                                               *)
(***************************************************************************)
Crash ==
  /\ pc # "down"
  /\ restarts < MaxRestarts
  /\ restarts' = restarts + 1
  /\ pc' = "down"
  /\ logs' = {}
  /\ samples' = << >>
  /\ tracked' = NoOp
  /\ resolving' = [op \in 1 .. MaxOps |-> "no"]
  /\ UNCHANGED <<verifierVars, vault, inFlight, current, changes>>

\* seedPendingOps: what the vault's slot holds, if its status is still Pending.
Seed ==
  /\ pc = "down"
  /\ pc' = "seeded"
  /\ IF slot # 0 /\ StatusOf(slot) = "Pending" THEN Track(slot, 0, FALSE, FALSE) ELSE UNCHANGED tracked
  /\ UNCHANGED <<verifierVars, vault, inFlight, logs, current, samples, resolving, bounds>>

\* watchOpQueued: logs of operations queued from here on arrive.
Watch ==
  /\ pc = "seeded"
  /\ pc' = "idle"
  /\ UNCHANGED <<verifierVars, vault, inFlight, logs, current, samples, tracked, resolving, bounds>>

Next ==
  \/ \E w \in Wei : Queue(w) \/ Queue(-w)
  \/ \E op \in 1 .. MaxOps : Execute(op) \/ Drop(op)
  \/ \E tx \in inFlight : MineAttest(tx)
  \/ EndOp \/ Govern \/ Elapse
  \/ \E op \in 1 .. MaxOps : OnLog(op) \/ GotBlock(op) \/ NoProvenance(op) \/ Fallback(op)
  \/ ReadBalance \/ ReadFails \/ Evaluate \/ Receipt
  \/ Crash \/ Seed \/ Watch

Spec == Init /\ [][Next]_vars

-----------------------------------------------------------------------------
\* A verdict is what Core did: Executed only for what it executed, Failed only
\* for what it dropped, whatever was sampled, delayed, lost or restarted when
\* (resolveBalanceCheck, "attest-false only with a confident baseline").
AttestationsTrue ==
  TypeOK /\ \A op \in 1 .. MaxOps :
    HasVerdict(op) => result[op] = IF attestations[op].executed THEN "executed" ELSE "dropped"

\* While its operation holds the slot, a baseline that counts as confident is the
\* balance just before the operation: no await and no clock error lets a sample
\* in that the operation, or one before it that was still to execute, would
\* change (newestSampleBefore).
ConfidentIsPreOp ==
  tracked # NoOp /\ tracked.confident /\ tracked.op = slot =>
    yes - tracked.baseline \in
      IF result[tracked.op] = "executed" THEN {ops[tracked.op].delta} ELSE {0}

\* A log that is discarded because an operation is tracked is that operation's
\* ("_requireIdle guarantees at most one; ignore a stray duplicate", track).
DiscardedLogsAreDuplicates ==
  [][\A op \in logs : tracked # NoOp /\ op \notin logs' /\ pc' # "down" => tracked.op = op]_vars
=============================================================================
