------------------------- MODULE KeeperBalanceProofs -------------------------
(***************************************************************************)
(* The verifier keeps its promise for any callers, operations and delays,  *)
(* and the keeper attests the truth, for any vault amounts, clock skew,    *)
(* latencies, history and delays that keep the assumptions.                *)
(***************************************************************************)
EXTENDS KeeperBalance, SequenceTheorems, TLAPS

\* The times that the loop is set to.
LEMMA TimesAreNatural ==
  /\ Skew \in Nat /\ Margin \in Nat /\ MaxAge \in Nat /\ Timeout \in Nat
  /\ CoreLatency \in Nat /\ ReadLatency \in Nat
BY TimingAssumption

-----------------------------------------------------------------------------
(***************************************************************************)
(* The verifier.                                                           *)
(***************************************************************************)
LEMMA VerifierInitType == VerifierInit => VerifierTypeOK
<1>1. Unattested \in Attestation /\ 0 \in 0 .. MaxTime
  BY DelaysAssumption DEF Attestation, Unattested
<1> QED
  BY <1>1, DelaysAssumption DEF VerifierInit, VerifierTypeOK

LEMMA VerifierNextType ==
  ASSUME VerifierTypeOK, [VerifierNext]_verifierVars
  PROVE  VerifierTypeOK'
<1>1. ASSUME NEW caller \in Accounts, NEW k \in OpKeys, NEW executed \in BOOLEAN,
             Attest(caller, k, executed)
      PROVE  VerifierTypeOK'
  BY <1>1 DEF Attest, VerifierTypeOK, Attestation
<1>2. ASSUME NEW caller \in Accounts, NEW a \in Accounts, SetKeeper(caller, a)
      PROVE  VerifierTypeOK'
  BY <1>2 DEF SetKeeper, VerifierTypeOK
<1>3. ASSUME NEW caller \in Accounts, NEW d \in Delays, SetMinDelay(caller, d)
      PROVE  VerifierTypeOK'
  BY <1>3 DEF SetMinDelay, VerifierTypeOK
<1>4. ASSUME NEW caller \in Accounts, Pause(caller) \/ Unpause(caller)
      PROVE  VerifierTypeOK'
  BY <1>4 DEF Pause, Unpause, VerifierTypeOK
<1>5. CASE Tick
  BY <1>5, DelaysAssumption DEF Tick, VerifierTypeOK
<1>6. CASE UNCHANGED verifierVars
  BY <1>6 DEF verifierVars, VerifierTypeOK
<1> QED
  BY <1>1, <1>2, <1>3, <1>4, <1>5, <1>6 DEF VerifierNext

\* The contract implements the interface's promise: one verdict per operation,
\* never revised by a later attestation, a new keeper, a pause or a new delay.
THEOREM VerifierImplemented == VerifierSpec => ImplementsVerifier
<1> DEFINE verdictBar == [k \in OpKeys |-> VerdictOf(k)]
           statusBar == [k \in OpKeys |-> StatusOf(k)]
<1>1. VerifierInit => V!Init
  BY DEF VerifierInit, V!Init, Unattested, VerdictOf, StatusOf
<1>2. VerifierTypeOK /\ [VerifierNext]_verifierVars => [V!Next]_<<verdictBar, statusBar>>
  <2> SUFFICES ASSUME VerifierTypeOK, [VerifierNext]_verifierVars
               PROVE  V!Next
    OBVIOUS
  <2>1. /\ statusBar' \in [OpKeys -> V!Statuses]
        /\ \A k \in OpKeys : statusBar'[k] \in {"Pending", verdictBar'[k]}
    <3>1. \A k \in OpKeys : /\ StatusOf(k)' \in {"Pending", VerdictOf(k)'}
                            /\ StatusOf(k)' \in {"Pending", "Executed", "Failed"}
      BY DEF StatusOf, VerdictOf
    <3> QED
      BY <3>1 DEF V!Statuses, V!Verdicts
  <2>2. ASSUME NEW caller \in Accounts, NEW k \in OpKeys, NEW executed \in BOOLEAN,
               Attest(caller, k, executed)
        PROVE  V!Next
    <3> DEFINE v == IF executed THEN "Executed" ELSE "Failed"
    <3>1. v \in V!Verdicts
      BY DEF V!Verdicts
    <3>2. verdictBar[k] = "none"
      BY <2>2 DEF Attest, Attestable, VerdictOf
    <3>3. verdictBar' = [verdictBar EXCEPT ![k] = v]
      BY <2>2 DEF Attest, VerdictOf, VerifierTypeOK
    <3>4. V!Decide(k, v)
      BY <2>1, <3>2, <3>3 DEF V!Decide
    <3> QED
      BY <3>1, <3>4 DEF V!Next
  <2>3. ASSUME attestations' = attestations
        PROVE  V!Next
    <3>1. verdictBar' = verdictBar
      BY <2>3 DEF VerdictOf
    <3> QED
      BY <2>1, <3>1 DEF V!Next, V!Report
  <2> QED
    BY <2>2, <2>3 DEF VerifierNext, SetKeeper, SetMinDelay, Pause, Unpause, Tick, verifierVars
<1>3. VerifierInit => VerifierTypeOK
  BY VerifierInitType
<1>4. VerifierTypeOK /\ [VerifierNext]_verifierVars => VerifierTypeOK'
  BY VerifierNextType
<1> QED
  BY <1>1, <1>2, <1>3, <1>4, PTL DEF VerifierSpec, ImplementsVerifier, V!Spec
-----------------------------------------------------------------------------
(***************************************************************************)
(* Types of the keeper's loop.                                             *)
(***************************************************************************)
Sample == [readAt : Int, balance : Int]
Results == {"none", "queued", "executed", "dropped"}

VaultOK ==
  /\ ops \in Seq(Op) /\ Len(ops) <= MaxOps
  /\ slot \in 0 .. Len(ops)
  /\ result \in [1 .. MaxOps -> Results]
  /\ yes \in Int
FlightOK == inFlight \subseteq Tx /\ logs \subseteq 1 .. Len(ops)
TickOK ==
  /\ pc \in {"down", "seeded", "idle", "read", "attest"}
  /\ current \in [balance : Int, at : 0 .. MaxTime]
SamplesOK == samples \in Seq(Sample) /\ Len(samples) <= HistoryLimit
TrackingOK ==
  /\ tracked \in Tracked \union {NoOp}
  /\ resolving \in [1 .. MaxOps -> {"no", "block", "balance"}]
BoundsOK == restarts \in 0 .. MaxRestarts /\ changes \in 0 .. MaxChanges

\* Core knows no operation that was not queued.
OpsKnown == \A op \in 1 .. MaxOps : op > Len(ops) => result[op] = "none"
TypeInv == TypeOK /\ OpsKnown

LEMMA TypeGroups ==
  TypeInv <=> /\ VerifierTypeOK /\ VaultOK /\ OpsKnown /\ FlightOK /\ TickOK /\ SamplesOK
              /\ TrackingOK /\ BoundsOK
BY Zenon DEF TypeInv, TypeOK, VaultOK, FlightOK, TickOK, SamplesOK, TrackingOK, BoundsOK,
   Sample, Results

\* A group whose variables keep their values keeps its types.
LEMMA TypeStep ==
  ASSUME TypeInv,
         VerifierTypeOK' \/ UNCHANGED verifierVars,
         (VaultOK' /\ OpsKnown') \/ UNCHANGED vault,
         FlightOK' \/ UNCHANGED <<inFlight, logs, ops>>,
         TickOK' \/ UNCHANGED <<pc, current>>,
         SamplesOK' \/ UNCHANGED samples,
         TrackingOK' \/ UNCHANGED <<tracked, resolving>>,
         BoundsOK' \/ UNCHANGED bounds
  PROVE  TypeInv'
<1>1. VerifierTypeOK /\ UNCHANGED verifierVars => VerifierTypeOK'
  BY DEF VerifierTypeOK, verifierVars
<1>2. VaultOK /\ OpsKnown /\ UNCHANGED vault => VaultOK' /\ OpsKnown'
  BY DEF VaultOK, vault, OpsKnown
<1>3. FlightOK /\ UNCHANGED <<inFlight, logs, ops>> => FlightOK'
  BY DEF FlightOK
<1>4. TickOK /\ UNCHANGED <<pc, current>> => TickOK'
  BY DEF TickOK
<1>5. SamplesOK /\ UNCHANGED samples => SamplesOK'
  BY DEF SamplesOK
<1>6. TrackingOK /\ UNCHANGED <<tracked, resolving>> => TrackingOK'
  BY DEF TrackingOK
<1>7. BoundsOK /\ UNCHANGED bounds => BoundsOK'
  BY DEF BoundsOK, bounds
<1>8. /\ VerifierTypeOK /\ VaultOK /\ OpsKnown /\ FlightOK /\ TickOK /\ SamplesOK
      /\ TrackingOK /\ BoundsOK
  BY TypeGroups
<1>9. /\ VerifierTypeOK' /\ VaultOK' /\ OpsKnown' /\ FlightOK' /\ TickOK' /\ SamplesOK'
      /\ TrackingOK' /\ BoundsOK'
  BY <1>1, <1>2, <1>3, <1>4, <1>5, <1>6, <1>7, <1>8
<1> QED
  BY <1>9, Zenon DEF TypeInv, TypeOK, VaultOK, FlightOK, TickOK, SamplesOK, TrackingOK,
     BoundsOK, Sample, Results

\* The verifier of the vault is a KeeperVerifier.
LEMMA VerifierSteps ==
  ASSUME TypeInv, [Next]_vars
  PROVE  [VerifierNext]_verifierVars
<1>1. Bot \in Accounts /\ OpKeys = 1 .. MaxOps
  BY TimingAssumption
<1>2. ASSUME NEW tx \in inFlight, MineAttest(tx)
      PROVE  [VerifierNext]_verifierVars
  <2>1. tx.op \in OpKeys /\ tx.executed \in BOOLEAN
    BY <1>1, <1>2, TypeGroups DEF FlightOK, Tx
  <2> QED
    BY <1>1, <1>2, <2>1 DEF MineAttest, VerifierNext
<1>3. CASE Govern
  <2>1. owner \in Accounts
    BY TypeGroups DEF VerifierTypeOK
  <2> QED
    BY <1>3, <2>1 DEF Govern, VerifierNext
<1>4. CASE Elapse
  BY <1>4 DEF Elapse, VerifierNext
<1>5. ASSUME NEW w, Queue(w)
      PROVE  [VerifierNext]_verifierVars
  BY <1>5 DEF Queue
<1>6. ASSUME NEW op, \/ Execute(op) \/ Drop(op)
                     \/ OnLog(op) \/ GotBlock(op) \/ NoProvenance(op) \/ Fallback(op)
      PROVE  [VerifierNext]_verifierVars
  BY <1>6 DEF Execute, Drop, OnLog, GotBlock, NoProvenance, Fallback
<1>7. CASE EndOp \/ ReadBalance \/ ReadFails \/ Evaluate \/ Receipt \/ Crash \/ Seed \/ Watch
  BY <1>7 DEF EndOp, ReadBalance, ReadFails, Evaluate, Receipt, Crash, Seed, Watch
<1>8. CASE UNCHANGED vars
  BY <1>8 DEF vars
<1> QED
  BY <1>2, <1>3, <1>4, <1>5, <1>6, <1>7, <1>8 DEF Next


LEMMA InitType == Init => TypeInv
<1> SUFFICES ASSUME Init PROVE TypeInv
  OBVIOUS
<1>1. VerifierTypeOK
  BY VerifierInitType DEF Init
<1>2. Len(ops) = 0 /\ Len(samples) = 0 /\ ops \in Seq(Op) /\ samples \in Seq(Sample)
  BY DEF Init
<1>3. /\ MaxOps \in Nat /\ MaxRestarts \in Nat /\ MaxChanges \in Nat /\ HistoryLimit \in Nat
      /\ MaxTime \in Nat
  BY TimingAssumption, DelaysAssumption
<1>4. VaultOK /\ OpsKnown
  BY <1>2, <1>3 DEF Init, VaultOK, OpsKnown, Results
<1>5. FlightOK /\ TickOK
  BY <1>3 DEF Init, FlightOK, TickOK
<1>6. SamplesOK /\ TrackingOK /\ BoundsOK
  BY <1>2, <1>3 DEF Init, SamplesOK, TrackingOK, BoundsOK
<1> QED
  BY <1>1, <1>4, <1>5, <1>6, TypeGroups

\* An operation that Core has heard of is in the list.
LEMMA OpTypes ==
  ASSUME TypeInv, NEW op \in 1 .. MaxOps, result[op] # "none"
  PROVE  /\ op \in 1 .. Len(ops) /\ Len(ops) \in Nat
         /\ ops[op].delta \in Int /\ ops[op].delta # 0 /\ ops[op].at \in Nat
<1>1. ops \in Seq(Op) /\ Len(ops) \in Nat /\ MaxOps \in Nat
  BY TypeGroups, TimingAssumption DEF VaultOK
<1>2. op \in 1 .. Len(ops)
  BY <1>1, TypeGroups DEF OpsKnown
<1>3. ops[op] \in Op
  BY <1>1, <1>2
<1>4. Wei \subseteq Nat \ {0} /\ MaxTime \in Nat
  BY TimingAssumption, DelaysAssumption
<1>5. /\ ops[op].delta \in {w : w \in Wei} \union {-w : w \in Wei}
      /\ ops[op].at \in 0 .. MaxTime
  BY <1>3 DEF Op
<1>6. \A w \in Wei : w \in Int /\ -w \in Int /\ w # 0 /\ -w # 0
  BY <1>4
<1>7. ops[op].delta \in Int /\ ops[op].delta # 0
  BY <1>5, <1>6
<1>8. ops[op].at \in Nat
  BY <1>4, <1>5
<1> QED
  BY <1>1, <1>2, <1>7, <1>8

\* The vault and Core.
LEMMA VaultTypes ==
  ASSUME TypeInv,
         \/ \E w \in Wei : Queue(w) \/ Queue(-w)
         \/ \E op \in 1 .. MaxOps : Execute(op) \/ Drop(op)
         \/ EndOp
  PROVE  TypeInv'
<1>1. VaultOK /\ OpsKnown /\ FlightOK /\ VerifierTypeOK
  BY TypeGroups
<1>2. MaxOps \in Nat /\ Wei \subseteq Nat
  BY TimingAssumption
<1>3. ASSUME NEW d \in {w : w \in Wei} \union {-w : w \in Wei}, Queue(d)
      PROVE  TypeInv'
  <2> DEFINE o == [delta |-> d, at |-> now]
  <2>1. o \in Op
    BY <1>1 DEF Op, VerifierTypeOK
  <2>2. ops \in Seq(Op) /\ Len(ops) \in Nat /\ Len(ops) < MaxOps
    BY <1>1, <1>3 DEF VaultOK, Queue
  <2>3. /\ ops' \in Seq(Op) /\ Len(ops') = Len(ops) + 1
    BY <2>1, <2>2, <1>3, AppendProperties DEF Queue
  <2>4. Len(ops) + 1 \in 1 .. MaxOps
    BY <1>2, <2>2
  <2>5. VaultOK' /\ OpsKnown'
    BY <1>1, <1>2, <1>3, <2>2, <2>3, <2>4 DEF VaultOK, OpsKnown, Queue, Results
  <2>6. FlightOK'
    <3>1. inFlight' \subseteq Tx /\ logs' \subseteq logs \union {Len(ops) + 1}
      BY <1>1, <1>3 DEF FlightOK, Queue
    <3>2. logs \subseteq 1 .. Len(ops)
      BY <1>1 DEF FlightOK
    <3>3. logs' \subseteq 1 .. Len(ops')
      BY <2>2, <2>3, <3>1, <3>2
    <3> QED
      BY <3>1, <3>3 DEF FlightOK
  <2> QED
    BY <1>3, <2>5, <2>6, TypeStep DEF Queue, loop
<1>4. ASSUME NEW w \in Wei, Queue(w) \/ Queue(-w)
      PROVE  TypeInv'
  BY <1>3, <1>4
<1>5. ASSUME NEW op \in 1 .. MaxOps, Execute(op) \/ Drop(op)
      PROVE  TypeInv'
  <2>1. /\ op \in 1 .. Len(ops) /\ Len(ops) \in Nat /\ ops[op].delta \in Int
    BY <1>5, OpTypes DEF Execute, Drop
  <2>2. UNCHANGED <<ops, slot, logs, inFlight, verifierVars, loop, bounds>>
    BY <1>5 DEF Execute, Drop
  <2>3. PICK r \in Results : result' = [result EXCEPT ![op] = r]
    BY <1>5 DEF Execute, Drop, Results
  <2>4. yes' \in Int
    BY <1>1, <1>5, <2>1 DEF VaultOK, Execute, Drop
  <2>5. result \in [1 .. MaxOps -> Results]
    BY <1>1 DEF VaultOK
  <2>6. VaultOK'
    BY <1>1, <2>2, <2>3, <2>4, <2>5 DEF VaultOK
  <2>7. OpsKnown'
    BY <1>1, <2>1, <2>2, <2>3, <2>5 DEF OpsKnown
  <2> QED
    BY <2>2, <2>6, <2>7, TypeStep DEF loop
<1>6. CASE EndOp
  <2>1. VaultOK' /\ OpsKnown'
    BY <1>1, <1>6 DEF VaultOK, OpsKnown, EndOp
  <2> QED
    BY <1>6, <2>1, TypeStep DEF EndOp, loop
<1> QED
  BY <1>4, <1>5, <1>6

LEMMA MineType ==
  ASSUME TypeInv, NEW tx \in inFlight, MineAttest(tx)
  PROVE  TypeInv'
<1>1. VerifierTypeOK' \/ UNCHANGED verifierVars
  BY VerifierSteps, VerifierNextType, TypeGroups DEF Next
<1>2. FlightOK'
  BY TypeGroups DEF FlightOK, MineAttest, vault
<1> QED
  BY <1>1, <1>2, TypeStep DEF MineAttest, loop

LEMMA GovernType ==
  ASSUME TypeInv, Govern \/ Elapse
  PROVE  TypeInv'
<1>1. VerifierTypeOK'
  BY VerifierSteps, VerifierNextType, TypeGroups DEF Next
<1>2. BoundsOK' \/ UNCHANGED bounds
  <2>1. BoundsOK /\ MaxChanges \in Nat
    BY TypeGroups, TimingAssumption
  <2> QED
    BY <2>1 DEF BoundsOK, Govern, Elapse
<1>3. UNCHANGED <<vault, inFlight, logs, loop>>
  BY DEF Govern, Elapse
<1> QED
  BY <1>1, <1>2, <1>3, TypeStep DEF loop, vault

LEMMA SampleTypes ==
  ASSUME TypeInv
  PROVE  /\ samples \in Seq(Sample) /\ Len(samples) \in Nat /\ DOMAIN samples = 1 .. Len(samples)
         /\ ToSet(samples) = {samples[i] : i \in 1 .. Len(samples)}
         /\ \A s \in ToSet(samples) : s \in Sample /\ s.readAt \in Int /\ s.balance \in Int
<1>1. samples \in Seq(Sample)
  BY TypeGroups DEF SamplesOK
<1>2. Len(samples) \in Nat /\ DOMAIN samples = 1 .. Len(samples)
  BY <1>1
<1>3. ToSet(samples) = {samples[i] : i \in 1 .. Len(samples)}
  BY <1>2 DEF ToSet
<1>4. \A i \in 1 .. Len(samples) : samples[i] \in Sample
  BY <1>1
<1>5. \A s \in ToSet(samples) : s \in Sample
  BY <1>3, <1>4
<1> QED
  BY <1>1, <1>2, <1>3, <1>5 DEF Sample

LEMMA TrackTypes ==
  ASSUME TypeInv, NEW op \in 1 .. MaxOps, NEW b \in Int, NEW k \in BOOLEAN, NEW c \in BOOLEAN,
         Track(op, b, k, c)
  PROVE  tracked' \in Tracked \union {NoOp}
<1>1. Clock \in Int
  BY TypeGroups, TimingAssumption DEF Clock, VerifierTypeOK
<1> QED
  BY <1>1, TypeGroups DEF Track, Tracked, TrackingOK

\* The keeper's log handlers and restarts.
LEMMA HandlerTypes ==
  ASSUME TypeInv,
         \/ \E op \in 1 .. MaxOps : OnLog(op) \/ GotBlock(op) \/ NoProvenance(op) \/ Fallback(op)
         \/ Crash \/ Seed \/ Watch
  PROVE  TypeInv'
<1>1. /\ FlightOK /\ TickOK /\ SamplesOK /\ TrackingOK /\ BoundsOK /\ VaultOK
  BY TypeGroups
<1>2. ASSUME NEW op \in 1 .. MaxOps, OnLog(op) \/ NoProvenance(op)
      PROVE  TypeInv'
  <2>1. FlightOK' /\ TrackingOK'
    BY <1>1, <1>2 DEF FlightOK, TrackingOK, OnLog, NoProvenance, vault
  <2> QED
    BY <1>2, <2>1, TypeStep DEF OnLog, NoProvenance, vault
<1>3. ASSUME NEW op \in 1 .. MaxOps, GotBlock(op) \/ Fallback(op)
      PROVE  TypeInv'
  <2>1. \A s \in ToSet(samples) : s.balance \in Int
    BY SampleTypes
  <2>2. yes \in Int
    BY <1>1 DEF VaultOK
  <2>3. tracked' \in Tracked \union {NoOp}
    <3>1. CASE GotBlock(op)
      <4>1. PICK s \in ToSet(samples) : Track(op, s.balance, TRUE, TRUE)
        BY <3>1 DEF GotBlock, Newest, Usable
      <4> QED
        BY <2>1, <4>1, TrackTypes
    <3>2. CASE Fallback(op)
      <4>1. Track(op, yes, TRUE, FALSE) \/ Track(op, 0, FALSE, FALSE)
        BY <3>2 DEF Fallback, TrackUnsure
      <4>2. 0 \in Int
        OBVIOUS
      <4> QED
        BY <2>2, <4>1, <4>2, TrackTypes
    <3> QED
      BY <1>3, <3>1, <3>2
  <2>4. TrackingOK'
    BY <1>1, <1>3, <2>3 DEF TrackingOK, GotBlock, Fallback
  <2>5. UNCHANGED <<verifierVars, vault, inFlight, logs, pc, current, samples, bounds>>
    BY <1>3 DEF GotBlock, Fallback
  <2> QED
    BY <2>4, <2>5, TypeStep DEF vault
<1>4. CASE Crash
  <2>1. FlightOK' /\ TickOK' /\ SamplesOK' /\ TrackingOK' /\ BoundsOK'
    BY SMTT(40), <1>1, <1>4, TimingAssumption
       DEF Crash, FlightOK, TickOK, SamplesOK, TrackingOK, BoundsOK, vault
  <2> QED
    BY <1>4, <2>1, TypeStep DEF Crash
<1>5. CASE Seed
  <2>1. TickOK'
    BY <1>1, <1>5 DEF TickOK, Seed
  <2>2. tracked' \in Tracked \union {NoOp}
    <3>1. CASE slot # 0 /\ StatusOf(slot) = "Pending"
      <4>1. slot \in 1 .. MaxOps
        BY <1>1, <3>1, TimingAssumption DEF VaultOK
      <4>2. Track(slot, 0, FALSE, FALSE)
        BY <1>5, <3>1, Zenon DEF Seed
      <4>3. 0 \in Int
        OBVIOUS
      <4> QED
        BY <4>1, <4>2, <4>3, TrackTypes
    <3>2. CASE ~(slot # 0 /\ StatusOf(slot) = "Pending")
      BY <1>1, <1>5, <3>2 DEF Seed, TrackingOK
    <3> QED
      BY <3>1, <3>2
  <2>3. TrackingOK'
    BY <1>1, <1>5, <2>2 DEF TrackingOK, Seed
  <2> QED
    BY <1>5, <2>1, <2>3, TypeStep DEF Seed, vault
<1>6. CASE Watch
  <2>1. TickOK'
    BY <1>1, <1>6 DEF TickOK, Watch
  <2> QED
    BY <1>6, <2>1, TypeStep DEF Watch, vault
<1> QED
  BY <1>2, <1>3, <1>4, <1>5, <1>6

-----------------------------------------------------------------------------
(***************************************************************************)
(* balanceHistory is sorted by time; a new sample takes its place at the   *)
(* end, and only the oldest is dropped.                                    *)
(***************************************************************************)
Sorted == \A i, j \in 1 .. Len(samples) : i < j => samples[i].readAt < samples[j].readAt

LEMMA Shifted ==
  ASSUME TypeInv, RecordSample,
         NEW new, new = [readAt |-> Clock, balance |-> current.balance],
         NEW n, n = Len(samples)
  PROVE  /\ n \in Nat /\ new \in Sample
         /\ \E k \in {0, 1} :
              /\ samples' \in Seq(Sample) /\ Len(samples') = n + 1 - k
              /\ Len(samples') <= HistoryLimit /\ n + 1 - k > 0
              /\ \A i \in 1 .. n + 1 - k :
                   samples'[i] = IF i + k = n + 1 THEN new ELSE samples[i + k]
<1> DEFINE more == Append(samples, new)
<1>1. new \in Sample
  BY TypeGroups, TimingAssumption DEF Clock, VerifierTypeOK, TickOK, Sample
<1>2. samples \in Seq(Sample) /\ n \in Nat /\ n <= HistoryLimit /\ HistoryLimit \in Nat \ {0}
  BY TypeGroups, TimingAssumption DEF SamplesOK
<1>3. /\ more \in Seq(Sample) /\ Len(more) = n + 1 /\ more[n + 1] = new
      /\ \A i \in 1 .. n : more[i] = samples[i]
  BY <1>1, <1>2, AppendProperties
<1>4. samples' = IF Len(more) > HistoryLimit THEN Tail(more) ELSE more
  BY DEF RecordSample
<1> HIDE DEF more
<1>5. PICK k \in {0, 1} : /\ samples' \in Seq(Sample) /\ Len(samples') = n + 1 - k
                         /\ Len(samples') <= HistoryLimit /\ n + 1 - k > 0
                         /\ \A i \in 1 .. n + 1 - k : samples'[i] = more[i + k]
  <2>2. CASE Len(more) > HistoryLimit
    <3>1. more # << >>
      BY <1>2, <1>3
    <3>2. /\ Tail(more) \in Seq(Sample) /\ Len(Tail(more)) = n + 1 - 1
          /\ \A i \in 1 .. Len(more) - 1 : Tail(more)[i] = more[i + 1]
      BY <1>2, <1>3, <3>1, HeadTailProperties
    <3> QED
      BY <1>2, <1>3, <1>4, <2>2, <3>2
  <2>3. CASE ~(Len(more) > HistoryLimit)
    BY <1>2, <1>3, <1>4, <2>3
  <2> QED
    BY <2>2, <2>3
<1>6. \A i \in 1 .. n + 1 - k : samples'[i] = IF i + k = n + 1 THEN new ELSE samples[i + k]
  BY <1>2, <1>3, <1>5
<1> QED
  BY <1>1, <1>2, <1>5, <1>6

LEMMA Recorded ==
  ASSUME TypeInv, Sorted, \A s \in ToSet(samples) : s.readAt < Clock, RecordSample
  PROVE  /\ Sorted'
         /\ [readAt |-> Clock, balance |-> current.balance] \in ToSet(samples')
         /\ ToSet(samples') \subseteq
              ToSet(samples) \union {[readAt |-> Clock, balance |-> current.balance]}
         /\ \A s \in ToSet(samples'), t \in ToSet(samples) :
              s.readAt < t.readAt => t \in ToSet(samples')
<1>1. PICK new, n : new = [readAt |-> Clock, balance |-> current.balance] /\ n = Len(samples)
  OBVIOUS
<1>2. n \in Nat /\ new \in Sample /\ Clock \in Int
  BY <1>1, Shifted, TypeGroups, TimingAssumption DEF Clock, VerifierTypeOK
<1>3. \A i \in 1 .. n : samples[i] \in Sample /\ samples[i].readAt \in Int
  <2>1. \A i \in 1 .. n : samples[i] \in Sample
    BY <1>1, SampleTypes
  <2> QED
    BY <2>1 DEF Sample
<1>4. \A i \in 1 .. n : samples[i].readAt < Clock
  BY <1>1, SampleTypes
<1>5. PICK k \in {0, 1} :
        /\ samples' \in Seq(Sample) /\ Len(samples') = n + 1 - k
        /\ Len(samples') <= HistoryLimit /\ n + 1 - k > 0
        /\ \A i \in 1 .. n + 1 - k :
             samples'[i] = IF i + k = n + 1 THEN new ELSE samples[i + k]
  BY <1>1, Shifted
<1>6. \A i \in 1 .. n + 1 - k :
        \/ i + k = n + 1 /\ samples'[i] = new
        \/ i + k \in 1 .. n /\ samples'[i] = samples[i + k]
  BY <1>2, <1>5
<1>7. ToSet(samples') = {samples'[i] : i \in 1 .. n + 1 - k}
  BY <1>5 DEF ToSet
<1>8. ToSet(samples) = {samples[i] : i \in 1 .. n}
  BY <1>1, SampleTypes
<1>9. Sorted'
  <2> SUFFICES ASSUME NEW i \in 1 .. n + 1 - k, NEW j \in 1 .. n + 1 - k, i < j
               PROVE  samples'[i].readAt < samples'[j].readAt
    BY <1>5 DEF Sorted
  <2>1. samples'[i] = samples[i + k] /\ i + k \in 1 .. n
    BY <1>2, <1>5, <1>6
  <2>2. CASE j + k = n + 1
    <3>1. samples'[j] = new /\ new.readAt = Clock
      BY <1>1, <1>5, <2>2
    <3> QED
      BY <1>4, <2>1, <3>1
  <2>3. CASE j + k # n + 1
    <3>1. samples'[j] = samples[j + k] /\ j + k \in 1 .. n /\ i + k < j + k
      BY <1>2, <1>5, <1>6, <2>3
    <3> QED
      BY <1>1, <2>1, <3>1 DEF Sorted
  <2> QED
    BY <2>2, <2>3
<1>10. new \in ToSet(samples')
  <2>1. n + 1 - k \in 1 .. n + 1 - k /\ (n + 1 - k) + k = n + 1
    BY <1>2, <1>5
  <2>2. samples'[n + 1 - k] = new
    BY <1>5, <2>1
  <2> QED
    BY <1>7, <2>1, <2>2
<1>11. ToSet(samples') \subseteq ToSet(samples) \union {new}
  <2> SUFFICES ASSUME NEW i \in 1 .. n + 1 - k, samples'[i] # new
               PROVE  samples'[i] \in ToSet(samples)
    BY <1>7
  <2> QED
    BY <1>6, <1>8
<1>12. ASSUME NEW s \in ToSet(samples'), NEW t \in ToSet(samples), s.readAt < t.readAt
       PROVE  t \in ToSet(samples')
  <2>1. PICK j \in 1 .. n : t = samples[j]
    BY <1>8
  <2>2. PICK i \in 1 .. n + 1 - k : s = samples'[i]
    BY <1>7
  <2>3. i + k # n + 1
    <3>1. t.readAt < Clock /\ t.readAt \in Int
      BY <1>3, <1>4, <2>1
    <3>2. s # new
      BY <1>1, <1>2, <1>12, <3>1
    <3> QED
      BY <1>5, <2>2, <3>2
  <2>4. s = samples[i + k] /\ i + k \in 1 .. n
    BY <1>6, <2>2, <2>3
  <2>5. ~(j < i + k)
    <3>1. j < i + k => t.readAt < s.readAt
      BY <1>1, <2>1, <2>4 DEF Sorted
    <3>2. t.readAt \in Int /\ s.readAt \in Int
      BY <1>3, <2>1, <2>4
    <3> QED
      BY <1>12, <3>1, <3>2
  <2>6. j - k \in 1 .. n + 1 - k /\ (j - k) + k = j /\ j # n + 1
    BY <1>2, <2>2, <2>4, <2>5
  <2>7. samples'[j - k] = t
    BY <1>5, <2>1, <2>6
  <2> QED
    BY <1>7, <2>6, <2>7
<1> QED
  BY <1>1, <1>9, <1>10, <1>11, <1>12

\* The tick.
LEMMA SendTypes ==
  ASSUME TypeInv, tracked # NoOp, NEW executed \in BOOLEAN, SendAttest(executed)
  PROVE  /\ inFlight' \subseteq Tx /\ tracked' \in Tracked \union {NoOp}
         /\ pc' \in {"idle", "attest"}
<1>1. tracked \in Tracked /\ inFlight \subseteq Tx
  BY TypeGroups DEF TrackingOK, FlightOK
<1>2. [op |-> tracked.op, executed |-> executed] \in Tx
  BY <1>1 DEF Tracked, Tx
<1> QED
  BY <1>1, <1>2 DEF SendAttest

LEMMA EvaluateType ==
  ASSUME TypeInv, Evaluate
  PROVE  TypeInv'
<1>1. SamplesOK'
  BY Shifted DEF Evaluate, SamplesOK
<1>2. FlightOK /\ TickOK /\ TrackingOK
  BY TypeGroups
<1>3. current.balance \in Int /\ UNCHANGED <<verifierVars, vault, logs, current, resolving, bounds>>
  BY <1>2 DEF Evaluate, TickOK
<1>4. /\ inFlight' \subseteq Tx /\ tracked' \in Tracked \union {NoOp}
      /\ pc' \in {"idle", "attest"}
  <2> DEFINE Goal == /\ inFlight' \subseteq Tx /\ tracked' \in Tracked \union {NoOp}
                     /\ pc' \in {"idle", "attest"}
  <2>1. ASSUME pc' = "idle", UNCHANGED inFlight, UNCHANGED tracked
        PROVE  Goal
    BY <1>2, <2>1 DEF FlightOK, TrackingOK
  <2>2. ASSUME pc' = "idle", UNCHANGED inFlight, tracked # NoOp,
               tracked' = [tracked EXCEPT !.baseline = current.balance, !.known = TRUE]
        PROVE  Goal
    BY <1>2, <1>3, <2>2 DEF FlightOK, TrackingOK, Tracked
  <2>3. ASSUME tracked # NoOp, NEW executed \in BOOLEAN, SendAttest(executed)
        PROVE  Goal
    BY <2>3, SendTypes
  <2> HIDE DEF Goal
  <2>4. Goal
    BY <2>1, <2>2, <2>3 DEF Evaluate
  <2> QED
    BY <2>4 DEF Goal
<1>5. FlightOK'
  BY <1>2, <1>3, <1>4 DEF FlightOK, vault
<1>6. TickOK'
  BY <1>2, <1>3, <1>4 DEF TickOK
<1>7. TrackingOK'
  BY <1>2, <1>3, <1>4 DEF TrackingOK
<1> QED
  BY <1>1, <1>3, <1>5, <1>6, <1>7, TypeStep

LEMMA TickTypes ==
  ASSUME TypeInv, ReadBalance \/ ReadFails \/ Receipt
  PROVE  TypeInv'
<1>1. TickOK /\ TrackingOK /\ yes \in Int /\ now \in 0 .. MaxTime
  BY TypeGroups DEF VaultOK, VerifierTypeOK
<1>2. TickOK'
  BY <1>1 DEF TickOK, ReadBalance, ReadFails, Receipt
<1>3. TrackingOK'
  BY <1>1 DEF TrackingOK, ReadBalance, ReadFails, Receipt
<1>4. UNCHANGED <<verifierVars, vault, inFlight, logs, samples, bounds>>
  BY DEF ReadBalance, ReadFails, Receipt
<1> QED
  BY <1>2, <1>3, <1>4, TypeStep DEF vault

LEMMA NextType ==
  ASSUME TypeInv, [Next]_vars
  PROVE  TypeInv'
<1>1. CASE \/ \E w \in Wei : Queue(w) \/ Queue(-w)
           \/ \E op \in 1 .. MaxOps : Execute(op) \/ Drop(op)
           \/ EndOp
  BY <1>1, VaultTypes
<1>2. CASE \E tx \in inFlight : MineAttest(tx)
  BY <1>2, MineType
<1>3. CASE Govern \/ Elapse
  BY <1>3, GovernType
<1>4. CASE \/ \E op \in 1 .. MaxOps : OnLog(op) \/ GotBlock(op) \/ NoProvenance(op) \/ Fallback(op)
           \/ Crash \/ Seed \/ Watch
  BY <1>4, HandlerTypes
<1>5. CASE Evaluate
  BY <1>5, EvaluateType
<1>6. CASE ReadBalance \/ ReadFails \/ Receipt
  BY <1>6, TickTypes
<1>7. CASE UNCHANGED vars
  BY <1>7, TypeStep DEF vars, loop, vault
<1> QED
  BY <1>1, <1>2, <1>3, <1>4, <1>5, <1>6, <1>7 DEF Next

\* Every state of the keeper, its vault and the verifier has its type, for any
\* amounts, latencies and clock skew.
THEOREM TypeCorrect == Spec => []TypeOK
<1>1. TypeInv => TypeOK
  BY DEF TypeInv
<1> QED
  BY <1>1, InitType, NextType, PTL DEF Spec

\* With the keeper, its delays and restarts in front of it the verifier still
\* gives one verdict per operation and never revises it.
THEOREM VerdictsAreFinal == Spec => ImplementsVerifier
<1>1. Init => VerifierInit
  BY DEF Init
<1>2. TypeInv /\ [Next]_vars => [VerifierNext]_verifierVars
  BY VerifierSteps
<1>3. Spec => VerifierSpec
  BY <1>1, <1>2, InitType, NextType, PTL DEF Spec, VerifierSpec
<1> QED
  BY <1>3, VerifierImplemented

-----------------------------------------------------------------------------
(***************************************************************************)
(* Why the verdicts are true.                                              *)
(*                                                                         *)
(* Base is the vault's balance without the operation in its slot.  Samples *)
(* that show anything else are followed by one that shows it: before the   *)
(* margin of the operation's block, as SettledBy says, for the baseline of *)
(* a log, and from the attestation on, as Settled says, for the operations *)
(* to come.  The verifier's delay is what lets the second become the first.*)
(***************************************************************************)
Base == IF slot # 0 /\ result[slot] = "executed" THEN yes - ops[slot].delta ELSE yes
Truth(op, executed) == result[op] = IF executed THEN "executed" ELSE "dropped"
Sent(op) == \E tx \in inFlight : tx.op = op
Held == ToSet(samples)

\* Samples of other balances than b are older than one of b from before the limit.
Settled(S, b, limit) ==
  \A s \in S : \/ s.balance = b
               \/ \E t \in S : s.readAt < t.readAt /\ t.readAt <= limit /\ t.balance = b
SettledBy(S, b, limit) ==
  \A s \in S : s.readAt <= limit =>
    \/ s.balance = b
    \/ \E t \in S : s.readAt < t.readAt /\ t.readAt <= limit /\ t.balance = b

OpsInv ==
  /\ slot \in {0, Len(ops)}
  /\ \A op \in 1 .. MaxOps : op <= Len(ops) => result[op] # "none"
  /\ \A op \in 1 .. Len(ops) : HasVerdict(op) \/ op = slot
  /\ \A op \in 1 .. Len(ops) : ops[op].at <= now
  /\ \A op \in 1 .. Len(ops) : result[op] = "queued" => now <= ops[op].at + CoreLatency
  /\ slot # 0 /\ result[slot] = "executed" => ops[slot].at < now

VerdictInv == \A op \in 1 .. MaxOps : HasVerdict(op) => Truth(op, attestations[op].executed)
TxInv == \A tx \in inFlight : Truth(tx.op, tx.executed)

\* A balance that was read is the vault's, or its operation was executed since.
Overtaken ==
  /\ slot # 0 /\ result[slot] = "executed" /\ current.balance = Base
  /\ ~HasVerdict(slot) /\ ~Sent(slot)
  /\ current.at <= ops[slot].at + CoreLatency
ReadInv ==
  pc = "read" =>
    /\ current.at <= now /\ now <= current.at + ReadLatency
    /\ \A s \in Held : s.readAt < Clock
    /\ current.balance = yes \/ Overtaken

HistoryInv ==
  /\ slot = 0 => Settled(Held, yes, now - Margin)
  /\ slot # 0 => SettledBy(Held, Base, ops[slot].at - Margin)
  /\ slot # 0 /\ HasVerdict(slot) => Settled(Held, yes, attestations[slot].timestamp)
  /\ Sent(slot) => Settled(Held, yes, now)
SampleInv == Sorted /\ (\A s \in Held : s.readAt <= Clock) /\ HistoryInv

TrackInv ==
  tracked # NoOp =>
    /\ tracked.op <= Len(ops)
    /\ tracked.since >= ops[tracked.op].at - Skew
    /\ tracked.confident => tracked.known
    /\ tracked.op = slot /\ tracked.confident => tracked.baseline = Base
    /\ tracked.op = slot /\ tracked.known => tracked.baseline \in {Base, yes}

ResolveInv == \A op \in 1 .. MaxOps : resolving[op] # "no" => op <= Len(ops)

KeeperInv ==
  /\ TypeInv /\ OpsInv /\ VerdictInv /\ TxInv /\ ReadInv /\ SampleInv /\ TrackInv
  /\ ResolveInv

\* What the samples settle on.
LEMMA SettledLater ==
  ASSUME NEW S, \A s \in S : s.readAt \in Int, NEW b, NEW l \in Int, NEW m \in Int, l <= m,
         Settled(S, b, l)
  PROVE  Settled(S, b, m)
BY DEF Settled

LEMMA SettledIsSettledBy ==
  ASSUME NEW S, NEW b, NEW l \in Int, Settled(S, b, l)
  PROVE  SettledBy(S, b, l)
BY DEF Settled, SettledBy

\* The newest sample that is old enough shows what the samples settle on.
LEMMA NewestIsSettled ==
  ASSUME NEW S, \A s \in S : s.readAt \in Int, NEW b, NEW l \in Int, SettledBy(S, b, l),
         NEW s \in S, s.readAt <= l, \A t \in S : t.readAt <= l => t.readAt <= s.readAt
  PROVE  s.balance = b
BY DEF SettledBy

\* A later sample keeps what they settle on if it shows the same, or is past the limit.
LEMMA SampleSettles ==
  ASSUME NEW S, NEW T, NEW new \in T, NEW b, NEW l \in Int,
         \A s \in S : s.readAt \in Int /\ s.readAt < new.readAt, new.readAt \in Int,
         T \subseteq S \union {new},
         \A s \in T, t \in S : s.readAt < t.readAt => t \in T
  PROVE  /\ Settled(S, b, l) /\ new.balance = b => Settled(T, b, l)
         /\ new.readAt <= l /\ new.balance = b => Settled(T, b, l)
         /\ SettledBy(S, b, l) /\ (new.balance = b \/ l < new.readAt) => SettledBy(T, b, l)
<1>1. ASSUME Settled(S, b, l), new.balance = b
      PROVE  Settled(T, b, l)
  BY <1>1 DEF Settled
<1>2. ASSUME new.readAt <= l, new.balance = b
      PROVE  Settled(T, b, l)
  BY <1>2 DEF Settled
<1>3. ASSUME SettledBy(S, b, l), new.balance = b \/ l < new.readAt
      PROVE  SettledBy(T, b, l)
  BY <1>3 DEF SettledBy
<1> QED
  BY <1>1, <1>2, <1>3

\* The operation in the slot and what it does to the balance.
LEMMA SlotFacts ==
  ASSUME TypeInv, OpsInv
  PROVE  /\ Len(ops) \in Nat /\ Len(ops) <= MaxOps /\ MaxOps \in Nat
         /\ yes \in Int /\ Base \in Int /\ now \in Nat
         /\ \A op \in 1 .. Len(ops) :
              /\ op \in 1 .. MaxOps /\ result[op] \in {"queued", "executed", "dropped"}
              /\ ops[op].at \in Nat /\ ops[op].delta \in Int /\ ops[op].delta # 0
         /\ slot # 0 => slot = Len(ops) /\ slot \in 1 .. Len(ops)
         /\ slot # 0 /\ result[slot] = "executed" => Base = yes - ops[slot].delta
         /\ ~(slot # 0 /\ result[slot] = "executed") => Base = yes
<1>1. /\ VaultOK /\ MaxOps \in Nat /\ now \in Nat
  BY TypeGroups, TimingAssumption DEF VerifierTypeOK
<1>2. Len(ops) \in Nat /\ Len(ops) <= MaxOps /\ yes \in Int /\ slot \in 0 .. Len(ops)
      /\ result \in [1 .. MaxOps -> Results]
  BY <1>1 DEF VaultOK
<1>3. ASSUME NEW op \in 1 .. Len(ops)
      PROVE  /\ op \in 1 .. MaxOps /\ result[op] \in {"queued", "executed", "dropped"}
             /\ ops[op].at \in Nat /\ ops[op].delta \in Int /\ ops[op].delta # 0
  <2>1. op \in 1 .. MaxOps
    BY <1>1, <1>2
  <2>2. result[op] # "none"
    BY <2>1, <1>2 DEF OpsInv
  <2> QED
    BY <1>2, <2>1, <2>2, OpTypes DEF Results
<1>4. slot # 0 => slot = Len(ops) /\ slot \in 1 .. Len(ops)
  BY <1>2 DEF OpsInv
<1>5. Base \in Int
  BY <1>2, <1>3, <1>4 DEF Base
<1> QED
  BY <1>1, <1>2, <1>3, <1>4, <1>5 DEF Base

\* Only the operation in the slot has no fate yet.
LEMMA FateOpen ==
  ASSUME TypeInv, OpsInv, VerdictInv, TxInv, NEW op \in 1 .. MaxOps,
         result[op] \notin {"executed", "dropped"}
  PROVE  /\ ~HasVerdict(op) /\ ~Sent(op)
         /\ op <= Len(ops) => op = slot
<1>1. ~HasVerdict(op)
  BY DEF VerdictInv, Truth
<1>2. ~Sent(op)
  BY DEF TxInv, Truth, Sent
<1>3. op <= Len(ops) => op = slot
  BY <1>1, SlotFacts DEF OpsInv
<1> QED
  BY <1>1, <1>2, <1>3

LEMMA InitKeeper == Init => KeeperInv
<1> SUFFICES ASSUME Init PROVE KeeperInv
  OBVIOUS
<1>1. TypeInv /\ Len(ops) = 0 /\ Held = {} /\ Len(samples) = 0 /\ MaxOps \in Nat
  BY InitType, TimingAssumption DEF Init, Held, ToSet
<1>2. OpsInv
  BY <1>1 DEF OpsInv, Init
<1>3. VerdictInv /\ TxInv
  BY TimingAssumption DEF VerdictInv, TxInv, HasVerdict, Init, VerifierInit, Unattested
<1>4. ReadInv /\ TrackInv /\ ResolveInv
  BY DEF ReadInv, TrackInv, ResolveInv, Init
<1>5. SampleInv
  BY <1>1 DEF SampleInv, Sorted, HistoryInv, Settled, SettledBy, Init
<1> QED
  BY <1>1, <1>2, <1>3, <1>4, <1>5 DEF KeeperInv

-----------------------------------------------------------------------------
(***************************************************************************)
(* Steps of the keeper that leave the chain and its transactions alone.    *)
(***************************************************************************)
chain == <<vault, attestations, now, inFlight>>

LEMMA ChainKept ==
  ASSUME KeeperInv, UNCHANGED chain
  PROVE  /\ OpsInv' /\ VerdictInv' /\ TxInv'
         /\ Base' = Base
         /\ UNCHANGED samples => SampleInv'
         /\ UNCHANGED <<pc, current, samples>> \/ pc' # "read" => ReadInv'
         /\ UNCHANGED tracked => TrackInv'
         /\ UNCHANGED resolving => ResolveInv'
<1>1. /\ UNCHANGED ops /\ UNCHANGED slot /\ UNCHANGED result /\ UNCHANGED yes
      /\ UNCHANGED attestations /\ UNCHANGED now /\ UNCHANGED inFlight
  BY DEF chain, vault
<1>2. OpsInv'
  BY <1>1 DEF KeeperInv, OpsInv, HasVerdict
<1>3. VerdictInv' /\ TxInv'
  BY <1>1 DEF KeeperInv, VerdictInv, TxInv, Truth, HasVerdict
<1>4. Base' = Base
  BY <1>1 DEF Base
<1>5. UNCHANGED samples => SampleInv'
  BY <1>1, <1>4 DEF KeeperInv, SampleInv, Sorted, HistoryInv, Held, Settled, SettledBy, Sent,
     HasVerdict, Clock
<1>6. UNCHANGED <<pc, current, samples>> \/ pc' # "read" => ReadInv'
  BY <1>1, <1>4 DEF KeeperInv, ReadInv, Overtaken, Held, Sent, HasVerdict, Clock
<1>7. UNCHANGED tracked => TrackInv'
  BY <1>1, <1>4 DEF KeeperInv, TrackInv
<1>8. UNCHANGED resolving => ResolveInv'
  BY <1>1 DEF KeeperInv, ResolveInv
<1> QED
  BY <1>2, <1>3, <1>4, <1>5, <1>6, <1>7, <1>8

LEMMA QuietSteps ==
  ASSUME KeeperInv, TypeInv',
         \/ \E op \in 1 .. MaxOps : OnLog(op) \/ NoProvenance(op)
         \/ Govern \/ ReadFails \/ Receipt \/ Crash \/ Watch \/ ReadBalance
  PROVE  KeeperInv'
<1>1. UNCHANGED chain
  BY DEF chain, OnLog, NoProvenance, Govern, ReadFails, Receipt, Crash, Watch, ReadBalance,
     verifierVars, SetKeeper, SetMinDelay, Pause, Unpause
<1>2. /\ OpsInv' /\ VerdictInv' /\ TxInv' /\ Base' = Base
  BY <1>1, ChainKept
<1>3. ReadInv'
  <2>1. CASE UNCHANGED <<pc, current, samples>> \/ pc' # "read"
    BY <1>1, <2>1, ChainKept
  <2>2. CASE ReadBalance
    <3>1. now \in Nat /\ ReadLatency \in Nat
      BY SlotFacts, TimingAssumption DEF KeeperInv
    <3>2. UNCHANGED now /\ UNCHANGED yes /\ UNCHANGED samples
      BY <1>1, <2>2 DEF chain, vault, ReadBalance
    <3> QED
      BY <2>2, <3>1, <3>2 DEF ReadBalance, ReadInv, Held, Clock
  <2> QED
    BY <2>1, <2>2 DEF OnLog, NoProvenance, Govern, ReadFails, Receipt, Crash, Watch, loop
<1>4. SampleInv'
  <2>1. CASE UNCHANGED samples
    BY <1>1, <2>1, ChainKept
  <2>2. CASE Crash
    <3>1. samples' = << >> /\ Len(samples') = 0 /\ Held' = {}
      BY <2>2 DEF Crash, Held, ToSet
    <3> QED
      BY <3>1 DEF SampleInv, Sorted, HistoryInv, Settled, SettledBy
  <2> QED
    BY <2>1, <2>2 DEF OnLog, NoProvenance, Govern, ReadFails, Receipt, Watch, loop, ReadBalance
<1>5. TrackInv'
  <2>1. CASE UNCHANGED tracked
    BY <1>1, <2>1, ChainKept
  <2>2. CASE tracked' = NoOp
    BY <2>2 DEF TrackInv
  <2> QED
    BY <2>1, <2>2 DEF OnLog, NoProvenance, Govern, ReadFails, Receipt, Watch, loop, Crash,
       ReadBalance
<1>6. ResolveInv'
  <2>1. CASE UNCHANGED resolving
    BY <1>1, <2>1, ChainKept
  <2>2. CASE Crash
    BY <2>2 DEF Crash, ResolveInv
  <2>3. ASSUME NEW op \in 1 .. MaxOps, OnLog(op) \/ NoProvenance(op)
        PROVE  ResolveInv'
    <3>1. op <= Len(ops)
      BY <2>3, TypeGroups DEF KeeperInv, OnLog, NoProvenance, FlightOK, ResolveInv
    <3>2. resolving \in [1 .. MaxOps -> {"no", "block", "balance"}]
      BY TypeGroups DEF KeeperInv, TrackingOK
    <3>3. ops' = ops
      BY <1>1 DEF chain, vault
    <3> QED
      BY <2>3, <3>1, <3>2, <3>3 DEF KeeperInv, ResolveInv, OnLog, NoProvenance
  <2> QED
    BY <2>1, <2>2, <2>3 DEF Govern, ReadFails, Receipt, Watch, loop, ReadBalance
<1> QED
  BY <1>2, <1>3, <1>4, <1>5, <1>6 DEF KeeperInv

\* A baseline is tracked: a settled sample, the balance of now, or none.
LEMMA TrackSteps ==
  ASSUME KeeperInv, TypeInv', Seed \/ \E op \in 1 .. MaxOps : GotBlock(op) \/ Fallback(op)
  PROVE  KeeperInv'
<1>1. UNCHANGED chain /\ UNCHANGED <<current, samples>> /\ (UNCHANGED pc \/ pc' # "read")
  BY DEF chain, Seed, GotBlock, Fallback, verifierVars
<1>2. /\ OpsInv' /\ VerdictInv' /\ TxInv' /\ Base' = Base /\ SampleInv' /\ ReadInv'
  BY <1>1, ChainKept
<1>3. /\ UNCHANGED ops /\ UNCHANGED slot /\ UNCHANGED yes
  BY <1>1 DEF chain, vault
<1>4. ResolveInv'
  <2>1. CASE UNCHANGED resolving
    BY <1>1, <2>1, ChainKept
  <2>2. ASSUME NEW op \in 1 .. MaxOps, GotBlock(op) \/ Fallback(op)
        PROVE  ResolveInv'
    BY <1>3, <2>2, TypeGroups DEF KeeperInv, ResolveInv, TrackingOK, GotBlock, Fallback
  <2> QED
    BY <2>1, <2>2 DEF Seed
<1>5. ASSUME NEW op \in 1 .. MaxOps, op <= Len(ops), NEW b, NEW k \in BOOLEAN,
             NEW c \in BOOLEAN, c => k, op = slot /\ k => b \in {Base, yes},
             op = slot /\ c => b = Base, Track(op, b, k, c)
      PROVE  TrackInv'
  <2>1. CASE tracked # NoOp
    <3>1. UNCHANGED tracked
      BY <1>5, <2>1 DEF Track
    <3> QED
      BY <1>1, <3>1, ChainKept
  <2>2. CASE tracked = NoOp
    <3>1. /\ tracked'.op = op /\ tracked'.baseline = b /\ tracked'.known = k
          /\ tracked'.since = Clock /\ tracked'.confident = c
      BY <1>5, <2>2 DEF Track
    <3>2. op \in 1 .. Len(ops) /\ now \in Nat /\ ops[op].at \in Nat
      BY <1>5, SlotFacts DEF KeeperInv
    <3>3. ops[op].at <= now
      BY <3>2 DEF KeeperInv, OpsInv
    <3>4. Clock >= ops[op].at - Skew
      BY <3>2, <3>3, TimesAreNatural DEF Clock
    <3> QED
      BY <1>2, <1>3, <1>5, <3>1, <3>4 DEF TrackInv
  <2> QED
    BY <2>1, <2>2
<1>6. TrackInv'
  <2>1. ASSUME NEW op \in 1 .. MaxOps, GotBlock(op)
        PROVE  TrackInv'
    <3>1. op <= Len(ops) /\ op \in 1 .. Len(ops) /\ ops[op].at \in Nat
      BY <2>1, SlotFacts DEF KeeperInv, GotBlock, ResolveInv
    <3>2. PICK s \in Newest(Usable(op)) : Track(op, s.balance, TRUE, TRUE)
      BY <2>1 DEF GotBlock
    <3>3. PICK l \in Int : l = ops[op].at - Margin
      BY <3>1, TimesAreNatural
    <3>4. \A t \in Held : t.readAt \in Int
      BY SampleTypes DEF KeeperInv, Held
    <3>5. s \in Held /\ s.readAt <= l /\ s.readAt >= l - MaxAge
      BY <3>2, <3>3 DEF Newest, Usable, Held
    <3>6. \A t \in Held : t.readAt <= l => t.readAt <= s.readAt
      <4> SUFFICES ASSUME NEW t \in Held, t.readAt <= l, ~(t.readAt <= s.readAt)
                   PROVE  FALSE
        OBVIOUS
      <4>1. t.readAt >= l - MaxAge
        BY <3>4, <3>5, TimesAreNatural
      <4>2. t \in Usable(op)
        BY <3>3, <4>1 DEF Usable, Held
      <4> QED
        BY <3>2, <4>2 DEF Newest
    <3>7. ASSUME op = slot
          PROVE  s.balance = Base
      <4>1. slot # 0
        BY <3>7
      <4>2. SettledBy(Held, Base, l)
        BY <3>3, <3>7, <4>1 DEF KeeperInv, SampleInv, HistoryInv
      <4> QED
        BY <3>4, <3>5, <3>6, <4>2, NewestIsSettled
    <3> QED
      BY <1>5, <3>1, <3>2, <3>7
  <2>2. ASSUME NEW op \in 1 .. MaxOps, Fallback(op)
        PROVE  TrackInv'
    <3>1. op <= Len(ops)
      BY <2>2 DEF KeeperInv, Fallback, ResolveInv
    <3>2. Track(op, yes, TRUE, FALSE) \/ Track(op, 0, FALSE, FALSE)
      BY <2>2 DEF Fallback, TrackUnsure
    <3>3. TRUE \in BOOLEAN /\ FALSE \in BOOLEAN
      OBVIOUS
    <3> QED
      BY <1>5, <3>1, <3>2, <3>3
  <2>3. CASE Seed
    <3>1. CASE slot # 0 /\ StatusOf(slot) = "Pending"
      <4>1. slot \in 1 .. MaxOps /\ slot <= Len(ops)
        BY <3>1, SlotFacts DEF KeeperInv
      <4>2. Track(slot, 0, FALSE, FALSE)
        BY <2>3, <3>1, Zenon DEF Seed
      <4> QED
        BY <1>5, <4>1, <4>2
    <3>2. CASE ~(slot # 0 /\ StatusOf(slot) = "Pending")
      <4>1. UNCHANGED tracked
        BY <2>3, <3>2, Zenon DEF Seed
      <4> QED
        BY <1>1, <4>1, ChainKept
    <3> QED
      BY <3>1, <3>2
  <2> QED
    BY <2>1, <2>2, <2>3
<1> QED
  BY <1>2, <1>4, <1>6 DEF KeeperInv

-----------------------------------------------------------------------------
(***************************************************************************)
(* Steps of the vault, of Core, of the verifier and of time.               *)
(***************************************************************************)
\* The times and amounts that the steps compare are numbers.
LEMMA Numbers ==
  ASSUME KeeperInv
  PROVE  /\ Skew \in Nat /\ Margin \in Nat /\ CoreLatency \in Nat /\ ReadLatency \in Nat
         /\ Timeout \in Nat /\ Skew <= Margin /\ CoreLatency + ReadLatency <= Timeout
         /\ now \in Nat /\ Clock = now - Skew /\ yes \in Int
         /\ current.at \in Nat /\ current.balance \in Int
         /\ \A s \in Held : s.readAt \in Int
         /\ \A op \in 1 .. MaxOps : attestations[op].timestamp \in Nat
<1>1. /\ Skew \in Nat /\ Margin \in Nat /\ CoreLatency \in Nat /\ ReadLatency \in Nat
      /\ Timeout \in Nat /\ Skew <= Margin /\ CoreLatency + ReadLatency <= Timeout
      /\ OpKeys = 1 .. MaxOps
  BY TimingAssumption
<1>2. now \in Nat /\ yes \in Int
  BY SlotFacts DEF KeeperInv
<1>3. current \in [balance : Int, at : 0 .. MaxTime]
  BY TypeGroups DEF KeeperInv, TickOK
<1>4. attestations \in [OpKeys -> Attestation]
  BY TypeGroups DEF KeeperInv, VerifierTypeOK
<1>5. \A op \in 1 .. MaxOps : attestations[op].timestamp \in Nat
  BY <1>1, <1>4 DEF Attestation
<1>6. \A s \in Held : s.readAt \in Int
  BY SampleTypes DEF KeeperInv, Held
<1> QED
  BY <1>1, <1>2, <1>3, <1>5, <1>6 DEF Clock

LEMMA QueueSteps ==
  ASSUME KeeperInv, TypeInv', NEW d, Queue(d)
  PROVE  KeeperInv'
<1>1. PICK n \in Nat : /\ n = Len(ops) /\ n < MaxOps /\ MaxOps \in Nat
                       /\ slot = 0 /\ slot' = n + 1 /\ n + 1 \in 1 .. MaxOps
  BY SlotFacts DEF KeeperInv, Queue
<1>2. ops \in Seq(Op)
  BY TypeGroups DEF KeeperInv, VaultOK
<1>3. /\ Len(ops') = n + 1 /\ ops'[n + 1] = [delta |-> d, at |-> now]
      /\ \A op \in 1 .. n : ops'[op] = ops[op]
  BY <1>1, <1>2, AppendProperties DEF Queue
<1>4. /\ result \in [1 .. MaxOps -> Results]
      /\ result' = [result EXCEPT ![n + 1] = "queued"]
      /\ result[n + 1] = "none"
  <2>1. result \in [1 .. MaxOps -> Results] /\ OpsKnown
    BY TypeGroups DEF KeeperInv, VaultOK
  <2> QED
    BY <1>1, <2>1 DEF Queue, OpsKnown
<1>5. /\ UNCHANGED yes /\ UNCHANGED attestations /\ UNCHANGED now /\ UNCHANGED inFlight
      /\ UNCHANGED pc /\ UNCHANGED current /\ UNCHANGED samples /\ UNCHANGED tracked
      /\ UNCHANGED resolving
  BY DEF Queue, verifierVars, loop
<1>6. /\ result'[n + 1] = "queued"
      /\ \A op \in 1 .. MaxOps : op # n + 1 => result'[op] = result[op]
  BY <1>1, <1>4
<1>7. Base = yes /\ Base' = yes
  <2>1. Base' = yes
    BY <1>1, <1>5, <1>6 DEF Base
  <2> QED
    BY <1>1, <2>1 DEF Base
<1>8. ~HasVerdict(n + 1) /\ ~Sent(n + 1)
  BY <1>1, <1>4, FateOpen DEF KeeperInv
<1>9. Held' = Held /\ Clock' = Clock
  BY <1>5 DEF Held, Clock
<1>10. OpsInv'
  <2>1. \A op \in 1 .. n : /\ op \in 1 .. MaxOps /\ HasVerdict(op) /\ ops[op].at <= now
                           /\ result[op] # "none"
                           /\ result[op] = "queued" => now <= ops[op].at + CoreLatency
    BY <1>1 DEF KeeperInv, OpsInv
  <2>2. ops'[n + 1].at = now /\ now \in Nat /\ now <= now + CoreLatency
    BY <1>3, Numbers
  <2>3. slot' = Len(ops')
    BY <1>1, <1>3
  <2>4. \A op \in 1 .. MaxOps : op <= Len(ops') => result'[op] # "none"
    BY <1>1, <1>3, <1>6, <2>1
  <2>5. \A op \in 1 .. Len(ops') : HasVerdict(op)' \/ op = slot'
    BY <1>1, <1>3, <1>5, <2>1 DEF HasVerdict
  <2>6. \A op \in 1 .. Len(ops') : ops'[op].at <= now'
    BY <1>1, <1>3, <1>5, <2>1, <2>2
  <2>7. \A op \in 1 .. Len(ops') : result'[op] = "queued" => now' <= ops'[op].at + CoreLatency
    BY <1>1, <1>3, <1>5, <1>6, <2>1, <2>2
  <2>8. result'[slot'] # "executed"
    BY <1>1, <1>6
  <2> QED
    BY <2>3, <2>4, <2>5, <2>6, <2>7, <2>8 DEF OpsInv
<1>11. VerdictInv'
  BY <1>5, <1>6, <1>8 DEF KeeperInv, VerdictInv, HasVerdict, Truth
<1>12. TxInv'
  BY <1>5, <1>6, <1>8, TypeGroups DEF KeeperInv, TxInv, Truth, Sent, FlightOK, Tx
<1>13. ReadInv'
  BY <1>1, <1>5, <1>9 DEF KeeperInv, ReadInv, Overtaken
<1>14. SampleInv'
  <2>1. Settled(Held, yes, now - Margin)
    BY <1>1 DEF KeeperInv, SampleInv, HistoryInv
  <2>2. SettledBy(Held, yes, now - Margin)
    BY <2>1, Numbers, SettledIsSettledBy
  <2>3. ops'[slot'].at = now
    BY <1>1, <1>3
  <2>4. SettledBy(Held', Base', ops'[slot'].at - Margin)
    BY <1>7, <1>9, <2>2, <2>3
  <2>5. ~HasVerdict(slot)' /\ ~Sent(slot)' /\ slot' # 0
    BY <1>1, <1>5, <1>8 DEF HasVerdict, Sent
  <2>6. HistoryInv'
    BY <2>4, <2>5 DEF HistoryInv
  <2> QED
    BY <1>5, <1>9, <2>6 DEF KeeperInv, SampleInv, Sorted
<1>15. TrackInv'
  <2>1. tracked # NoOp => tracked.op \in 1 .. n
    BY <1>1, TypeGroups DEF KeeperInv, TrackInv, TrackingOK, Tracked
  <2>2. tracked # NoOp => tracked.op # slot' /\ ops'[tracked.op] = ops[tracked.op]
    BY <1>1, <1>3, <2>1
  <2> QED
    BY <1>1, <1>3, <1>5, <2>1, <2>2 DEF KeeperInv, TrackInv
<1>16. ResolveInv'
  BY <1>1, <1>3, <1>5 DEF KeeperInv, ResolveInv
<1> QED
  BY <1>10, <1>11, <1>12, <1>13, <1>14, <1>15, <1>16 DEF KeeperInv

\* Core decides the fate of the operation in the slot; without it the balance is the same.
LEMMA FateSteps ==
  ASSUME KeeperInv, TypeInv', NEW op \in 1 .. MaxOps, Execute(op) \/ Drop(op)
  PROVE  KeeperInv'
<1>1. result[op] = "queued"
  BY DEF Execute, Drop
<1>2. op = slot /\ op \in 1 .. Len(ops) /\ ~HasVerdict(op) /\ ~Sent(op)
  <2>1. op <= Len(ops)
    BY <1>1, TypeGroups, SlotFacts DEF KeeperInv, OpsKnown
  <2> QED
    BY SMTT(40), <1>1, <2>1, FateOpen, SlotFacts DEF KeeperInv
<1>3. /\ UNCHANGED ops /\ UNCHANGED slot /\ UNCHANGED attestations /\ UNCHANGED now
      /\ UNCHANGED inFlight /\ UNCHANGED pc /\ UNCHANGED current /\ UNCHANGED samples
      /\ UNCHANGED tracked /\ UNCHANGED resolving
  BY DEF Execute, Drop, verifierVars, loop
<1>4. /\ \A o \in 1 .. MaxOps : o # op => result'[o] = result[o]
      /\ \/ result'[op] = "executed" /\ now > ops[op].at /\ yes' = yes + ops[op].delta
         \/ result'[op] = "dropped" /\ yes' = yes
  <2>1. result \in [1 .. MaxOps -> Results]
    BY TypeGroups DEF KeeperInv, VaultOK
  <2> QED
    BY <2>1 DEF Execute, Drop
<1>5. ops[op].delta \in Int /\ yes \in Int /\ now \in Nat /\ ops[op].at \in Nat
  BY <1>2, SlotFacts DEF KeeperInv
<1>6. Base = yes /\ Base' = yes
  BY <1>1, <1>2, <1>3, <1>4, <1>5 DEF Base
<1>7. Held' = Held /\ Clock' = Clock
  BY <1>3 DEF Held, Clock
<1>8. OpsInv'
  <2>1. OpsInv
    BY DEF KeeperInv
  <2>2. \A o \in 1 .. Len(ops) : result'[o] # "none" /\ (result'[o] = "queued" => result[o] = "queued")
    BY <1>4, <2>1, SlotFacts DEF KeeperInv
  <2>3. Len(ops) \in Nat /\ MaxOps \in Nat
    BY SlotFacts DEF KeeperInv
  <2> QED
    BY <1>2, <1>3, <1>4, <1>5, <2>1, <2>2, <2>3 DEF OpsInv, HasVerdict
<1>9. VerdictInv' /\ TxInv'
  BY <1>2, <1>3, <1>4, TypeGroups DEF KeeperInv, VerdictInv, TxInv, HasVerdict, Truth, Sent,
     FlightOK, Tx
<1>10. ReadInv'
  <2> SUFFICES ASSUME pc = "read" PROVE ReadInv'
    BY <1>3 DEF ReadInv
  <2>1. current.at <= now /\ current.balance = yes
    BY <1>1, <1>2 DEF KeeperInv, ReadInv, Overtaken
  <2>2. now <= ops[op].at + CoreLatency
    BY <1>1, <1>2 DEF KeeperInv, OpsInv
  <2>3. current.at <= ops[op].at + CoreLatency
    BY <1>5, <2>1, <2>2, Numbers
  <2>4. slot' # 0 /\ ~HasVerdict(slot)' /\ ~Sent(slot)' /\ slot' = op
    BY <1>2, <1>3 DEF HasVerdict, Sent
  <2>5. current'.balance = yes' \/ Overtaken'
    BY <1>2, <1>3, <1>4, <1>6, <2>1, <2>3, <2>4 DEF Overtaken
  <2> QED
    BY <1>3, <1>7, <2>5 DEF KeeperInv, ReadInv
<1>11. SampleInv'
  <2>1. slot # 0 /\ SettledBy(Held, Base, ops[slot].at - Margin)
    BY <1>2 DEF KeeperInv, SampleInv, HistoryInv
  <2>2. SettledBy(Held', Base', ops'[slot'].at - Margin)
    BY <1>3, <1>6, <1>7, <2>1
  <2>3. slot' # 0 /\ ~HasVerdict(slot)' /\ ~Sent(slot)'
    BY <1>2, <1>3 DEF HasVerdict, Sent
  <2>4. HistoryInv'
    BY <2>2, <2>3 DEF HistoryInv
  <2> QED
    BY <1>3, <1>7, <2>4 DEF KeeperInv, SampleInv, Sorted
<1>12. TrackInv'
  BY <1>3, <1>6 DEF KeeperInv, TrackInv
<1>13. ResolveInv'
  BY <1>3 DEF KeeperInv, ResolveInv
<1> QED
  BY <1>8, <1>9, <1>10, <1>11, <1>12, <1>13 DEF KeeperInv

\* The verdict is final and its delay is over: the samples have settled in time for
\* the operations to come.
LEMMA EndSteps ==
  ASSUME KeeperInv, TypeInv', EndOp
  PROVE  KeeperInv'
<1>1. /\ slot # 0 /\ slot' = 0 /\ slot \in 1 .. MaxOps /\ slot \in 1 .. Len(ops)
      /\ StatusOf(slot) # "Pending"
  BY SlotFacts DEF KeeperInv, EndOp
<1>2. /\ UNCHANGED ops /\ UNCHANGED result /\ UNCHANGED yes /\ UNCHANGED attestations
      /\ UNCHANGED now /\ UNCHANGED inFlight /\ UNCHANGED pc /\ UNCHANGED current
      /\ UNCHANGED samples /\ UNCHANGED tracked /\ UNCHANGED resolving
  BY DEF EndOp, verifierVars, loop
<1>3. HasVerdict(slot) /\ ~(now < attestations[slot].timestamp + minDelay)
  BY <1>1 DEF StatusOf, HasVerdict
<1>4. minDelay \in Delays
  BY TypeGroups DEF KeeperInv, VerifierTypeOK
<1>5. Margin <= minDelay /\ minDelay \in Nat
  BY <1>4, TimingAssumption, DelaysAssumption
<1>6. PICK ts \in Nat : ts = attestations[slot].timestamp
  BY <1>1, Numbers
<1>7. ts <= now - Margin /\ now - Margin \in Int
  BY <1>3, <1>5, <1>6, Numbers
<1>8. Settled(Held, yes, ts)
  BY <1>1, <1>3, <1>6 DEF KeeperInv, SampleInv, HistoryInv
<1>9. Settled(Held, yes, now - Margin)
  BY <1>7, <1>8, SettledLater, Numbers
<1>10. Held' = Held /\ Clock' = Clock
  BY <1>2 DEF Held, Clock
<1>11. OpsInv'
  BY <1>1, <1>2, <1>3 DEF KeeperInv, OpsInv, HasVerdict
<1>12. VerdictInv' /\ TxInv'
  BY <1>2 DEF KeeperInv, VerdictInv, TxInv, HasVerdict, Truth
<1>13. ReadInv'
  BY <1>2, <1>3, <1>10 DEF KeeperInv, ReadInv, Overtaken
<1>14. ~Sent(slot)'
  <2>1. \A tx \in inFlight : tx.op # 0
    BY TypeGroups, SlotFacts DEF KeeperInv, FlightOK, Tx
  <2> QED
    BY <1>1, <1>2, <2>1 DEF Sent
<1>15. SampleInv'
  <2>1. Settled(Held', yes', now' - Margin)
    BY <1>2, <1>9, <1>10
  <2>2. HistoryInv'
    BY <1>1, <1>14, <2>1 DEF HistoryInv
  <2> QED
    BY <1>2, <1>10, <2>2 DEF KeeperInv, SampleInv, Sorted
<1>16. TrackInv'
  <2>1. tracked # NoOp => tracked.op # 0
    BY TypeGroups, SlotFacts DEF KeeperInv, TrackingOK, Tracked
  <2> QED
    BY <1>1, <1>2, <2>1 DEF KeeperInv, TrackInv
<1>17. ResolveInv'
  BY <1>2 DEF KeeperInv, ResolveInv
<1> QED
  BY <1>11, <1>12, <1>13, <1>15, <1>16, <1>17 DEF KeeperInv

\* A transaction carries the truth, and the samples have settled since it was sent.
LEMMA MineSteps ==
  ASSUME KeeperInv, TypeInv', NEW tx \in inFlight, MineAttest(tx)
  PROVE  KeeperInv'
<1>1. /\ UNCHANGED ops /\ UNCHANGED slot /\ UNCHANGED result /\ UNCHANGED yes
      /\ UNCHANGED now /\ UNCHANGED pc /\ UNCHANGED current
      /\ UNCHANGED samples /\ UNCHANGED tracked /\ UNCHANGED resolving
      /\ inFlight' = inFlight \ {tx}
  BY DEF MineAttest, vault, loop, Attest, verifierVars
<1>2. tx.op \in 1 .. MaxOps /\ tx.executed \in BOOLEAN /\ Truth(tx.op, tx.executed) /\ Sent(tx.op)
  BY TypeGroups DEF KeeperInv, FlightOK, Tx, TxInv, Sent
<1>3. \/ UNCHANGED attestations
      \/ /\ attestations' = [attestations EXCEPT ![tx.op] =
                  [attested |-> TRUE, executed |-> tx.executed, timestamp |-> now]]
  BY DEF MineAttest, Attest, verifierVars
<1>4. attestations \in [1 .. MaxOps -> Attestation]
  BY TypeGroups, TimingAssumption DEF KeeperInv, VerifierTypeOK
<1>5. \A op \in 1 .. MaxOps :
        \/ attestations'[op] = attestations[op]
        \/ /\ op = tx.op
           /\ attestations'[op] = [attested |-> TRUE, executed |-> tx.executed, timestamp |-> now]
  BY <1>2, <1>3, <1>4
<1>6. Held' = Held /\ Clock' = Clock /\ Base' = Base
  BY <1>1 DEF Held, Clock, Base
<1>7. \A op : Sent(op)' => Sent(op)
  BY <1>1 DEF Sent
<1>8. OpsInv'
  <2>1. \A op \in 1 .. Len(ops) : HasVerdict(op)' \/ op = slot
    BY SMTT(40), <1>5, SlotFacts DEF KeeperInv, OpsInv, HasVerdict
  <2> QED
    BY <1>1, <2>1 DEF KeeperInv, OpsInv
<1>9. VerdictInv'
  <2> SUFFICES ASSUME NEW op \in 1 .. MaxOps, HasVerdict(op)'
               PROVE  result[op] = IF attestations'[op].executed THEN "executed" ELSE "dropped"
    BY <1>1 DEF VerdictInv, Truth
  <2>1. CASE attestations'[op] = attestations[op]
    BY <2>1 DEF KeeperInv, VerdictInv, HasVerdict, Truth
  <2>2. CASE op = tx.op /\ attestations'[op].executed = tx.executed
    BY <1>2, <2>2 DEF Truth
  <2> QED
    BY <1>5, <2>1, <2>2
<1>10. TxInv'
  BY <1>1 DEF KeeperInv, TxInv, Truth
<1>11. ReadInv'
  <2>1. Overtaken => Overtaken'
    <3> SUFFICES ASSUME Overtaken PROVE Overtaken'
      OBVIOUS
    <3>1. slot \in 1 .. MaxOps /\ ~HasVerdict(slot) /\ ~Sent(slot)
      BY SlotFacts DEF KeeperInv, Overtaken
    <3>2. slot # tx.op
      BY <1>2, <3>1
    <3>3. ~HasVerdict(slot)' /\ ~Sent(slot)'
      BY <1>1, <1>5, <1>7, <3>1, <3>2 DEF HasVerdict
    <3> QED
      BY <1>1, <1>6, <3>3 DEF Overtaken
  <2> QED
    BY <1>1, <1>6, <2>1 DEF KeeperInv, ReadInv
<1>12. SampleInv'
  <2>1. slot # 0 => slot \in 1 .. MaxOps
    BY SlotFacts DEF KeeperInv
  <2>2. HistoryInv
    BY DEF KeeperInv, SampleInv
  <2>3. ASSUME slot # 0, HasVerdict(slot)'
        PROVE  Settled(Held, yes, attestations'[slot].timestamp)
    <3>1. CASE attestations'[slot] = attestations[slot]
      BY <1>1, <2>2, <2>3, <3>1 DEF HistoryInv, HasVerdict
    <3>2. CASE slot = tx.op /\ attestations'[slot].timestamp = now
      BY <1>2, <2>2, <3>2 DEF HistoryInv
    <3> QED
      BY <1>5, <2>1, <2>3, <3>1, <3>2
  <2>4. HasVerdict(slot)' <=> attestations'[slot].attested
    BY <1>1 DEF HasVerdict
  <2>5. HistoryInv'
    BY <1>1, <1>6, <1>7, <2>2, <2>3, <2>4 DEF HistoryInv
  <2> QED
    BY <1>1, <1>6, <2>5 DEF KeeperInv, SampleInv, Sorted
<1>13. TrackInv'
  BY <1>1, <1>6 DEF KeeperInv, TrackInv
<1>14. ResolveInv'
  BY <1>1 DEF KeeperInv, ResolveInv
<1> QED
  BY <1>8, <1>9, <1>10, <1>11, <1>12, <1>13, <1>14 DEF KeeperInv

LEMMA ElapseSteps ==
  ASSUME KeeperInv, TypeInv', Elapse
  PROVE  KeeperInv'
<1>1. /\ UNCHANGED ops /\ UNCHANGED slot /\ UNCHANGED result /\ UNCHANGED yes
      /\ UNCHANGED attestations /\ UNCHANGED inFlight /\ UNCHANGED pc /\ UNCHANGED current
      /\ UNCHANGED samples /\ UNCHANGED tracked /\ UNCHANGED resolving
      /\ now' = now + 1
  BY DEF Elapse, Tick, vault, loop
<1>2. Held' = Held /\ Base' = Base
  BY <1>1 DEF Held, Base
<1>3. Clock' = Clock + 1 /\ Clock \in Int
  BY <1>1, Numbers DEF Clock
<1>4. OpsInv'
  <2>1. ops \in Seq(Op) /\ Len(ops) \in Nat /\ DOMAIN ops = 1 .. Len(ops)
    BY TypeGroups DEF KeeperInv, VaultOK
  <2>2. \A op \in 1 .. Len(ops) : result[op] = "queued" => now < ops[op].at + CoreLatency
    BY <2>1 DEF Elapse
  <2>3. \A op \in 1 .. Len(ops) : ops[op].at <= now /\ ops[op].at \in Nat
    BY SlotFacts DEF KeeperInv, OpsInv
  <2>n. now \in Nat /\ CoreLatency \in Nat
    BY Numbers
  <2>4. \A op \in 1 .. Len(ops) : ops[op].at <= now + 1
    BY <2>3, <2>n
  <2>5. \A op \in 1 .. Len(ops) : result[op] = "queued" => now + 1 <= ops[op].at + CoreLatency
    BY <2>2, <2>3, <2>n
  <2>6. slot # 0 /\ result[slot] = "executed" => ops[slot].at < now + 1
    BY <2>3, <2>n, SlotFacts DEF KeeperInv
  <2> QED
    BY <1>1, <2>4, <2>5, <2>6 DEF KeeperInv, OpsInv, HasVerdict
<1>5. VerdictInv' /\ TxInv'
  BY <1>1 DEF KeeperInv, VerdictInv, TxInv, HasVerdict, Truth
<1>6. ReadInv'
  <2> SUFFICES ASSUME pc = "read" PROVE ReadInv'
    BY <1>1 DEF ReadInv
  <2>1. now < current.at + ReadLatency
    BY DEF Elapse
  <2>2. current.at <= now /\ (\A s \in Held : s.readAt < Clock)
        /\ (current.balance = yes \/ Overtaken)
    BY DEF KeeperInv, ReadInv
  <2>3. current.at <= now + 1 /\ now + 1 <= current.at + ReadLatency
    BY <2>1, <2>2, Numbers
  <2>4. \A s \in Held : s.readAt < Clock + 1
    BY <1>3, <2>2, Numbers
  <2>5. Overtaken => Overtaken'
    BY <1>1, <1>2 DEF Overtaken, HasVerdict, Sent
  <2> QED
    BY <1>1, <1>2, <1>3, <2>2, <2>3, <2>4, <2>5 DEF ReadInv
<1>7. SampleInv'
  <2>1. HistoryInv /\ \A s \in Held : s.readAt <= Clock
    BY DEF KeeperInv, SampleInv
  <2>2. \A s \in Held : s.readAt <= Clock + 1
    BY <1>3, <2>1, Numbers
  <2>3. slot = 0 => Settled(Held, yes, (now + 1) - Margin)
    <3>1. now - Margin \in Int /\ (now + 1) - Margin \in Int
          /\ now - Margin <= (now + 1) - Margin
      BY Numbers
    <3> QED
      BY <2>1, <3>1, SettledLater, Numbers DEF HistoryInv
  <2>4. Sent(slot) => Settled(Held, yes, now + 1)
    <3>1. now \in Int /\ now + 1 \in Int /\ now <= now + 1
      BY Numbers
    <3> QED
      BY <2>1, <3>1, SettledLater, Numbers DEF HistoryInv
  <2>5. (Sent(slot)' <=> Sent(slot)) /\ (HasVerdict(slot)' <=> HasVerdict(slot))
    BY <1>1 DEF Sent, HasVerdict
  <2>6. HistoryInv'
    BY <1>1, <1>2, <2>1, <2>3, <2>4, <2>5 DEF HistoryInv
  <2> QED
    BY <1>1, <1>2, <1>3, <2>2, <2>6 DEF KeeperInv, SampleInv, Sorted
<1>8. TrackInv'
  BY <1>1, <1>2 DEF KeeperInv, TrackInv
<1>9. ResolveInv'
  BY <1>1 DEF KeeperInv, ResolveInv
<1> QED
  BY <1>4, <1>5, <1>6, <1>7, <1>8, <1>9 DEF KeeperInv

-----------------------------------------------------------------------------
(***************************************************************************)
(* The tick decides what to attest.                                        *)
(***************************************************************************)
LEMMA TrackedFacts ==
  ASSUME KeeperInv, tracked # NoOp
  PROVE  /\ tracked.op \in 1 .. MaxOps /\ tracked.op \in 1 .. Len(ops)
         /\ tracked.baseline \in Int /\ tracked.since \in Int
<1>1. tracked \in Tracked
  BY TypeGroups DEF KeeperInv, TrackingOK
<1>2. /\ tracked.op \in 1 .. MaxOps /\ tracked.baseline \in Int /\ tracked.since \in Int
  BY <1>1 DEF Tracked
<1>3. tracked.op <= Len(ops)
  BY DEF KeeperInv, TrackInv
<1> QED
  BY <1>2, <1>3, SlotFacts DEF KeeperInv

\* The change of balance by the tracked operation shows only if Core executed it: the
\* slot has held no other since the baseline.
LEMMA MatchIsTrue ==
  ASSUME KeeperInv, pc = "read", tracked # NoOp, tracked.known, tracked.op = slot, DeltaMatches
  PROVE  result[slot] = "executed" /\ current.balance = yes
<1>1. PICK d \in Int : d = ops[slot].delta /\ d # 0
  BY TrackedFacts, SlotFacts DEF KeeperInv
<1>2. PICK y \in Int, b \in Int, c \in Int, m \in Int :
        y = yes /\ b = Base /\ c = current.balance /\ m = tracked.baseline
  BY SlotFacts, TrackedFacts, Numbers DEF KeeperInv
<1>3. c - m = d
  BY <1>1, <1>2 DEF DeltaMatches
<1>4. m \in {b, y}
  BY <1>2 DEF KeeperInv, TrackInv
<1>5. c = y \/ (c = b /\ result[slot] = "executed")
  BY <1>2 DEF KeeperInv, ReadInv, Overtaken
<1>6. result[slot] # "executed" => b = y
  BY <1>2, SlotFacts DEF KeeperInv
<1>7. result[slot] = "executed"
  BY <1>1, <1>2, <1>3, <1>4, <1>5, <1>6
<1>8. slot # 0
  BY TrackedFacts
<1>9. b = y - d
  BY <1>1, <1>2, <1>7, <1>8, SlotFacts DEF KeeperInv
<1>10. c = y
  BY <1>1, <1>3, <1>4, <1>5, <1>9
<1> QED
  BY <1>2, <1>7, <1>10

\* When the time is over and nothing has changed since a baseline from before it, the
\* operation was dropped: Core would have executed it before the balance was read.
LEMMA TimeoutIsFalse ==
  ASSUME KeeperInv, pc = "read", tracked # NoOp, tracked.op = slot, AttestFalse
  PROVE  result[slot] = "dropped" /\ current.balance = yes
<1>1. PICK d \in Int, a \in Nat : d = ops[slot].delta /\ a = ops[slot].at
  BY TrackedFacts, SlotFacts DEF KeeperInv
<1>2. PICK y \in Int, b \in Int, c \in Int, m \in Int :
        y = yes /\ b = Base /\ c = current.balance /\ m = tracked.baseline
  BY SlotFacts, TrackedFacts, Numbers DEF KeeperInv
<1>3. c - m # d /\ m = b
  BY <1>1, <1>2 DEF AttestFalse, DeltaMatches, KeeperInv, TrackInv
<1>4. PICK n \in Nat, h \in Int, f \in Nat :
        n = now /\ h = tracked.since /\ f = current.at
  BY Numbers, TrackedFacts
<1>5. n - Skew - h > Timeout /\ h >= a - Skew
  BY <1>1, <1>4 DEF AttestFalse, TimedOut, Clock, KeeperInv, TrackInv
<1>6. n > a + CoreLatency + ReadLatency
  BY <1>1, <1>4, <1>5, Numbers
<1>7. n <= f + ReadLatency
  BY <1>4 DEF KeeperInv, ReadInv
<1>8. f > a + CoreLatency /\ n > a + CoreLatency
  BY <1>1, <1>4, <1>6, <1>7, Numbers
<1>9. c = y
  BY <1>1, <1>2, <1>4, <1>8, Numbers DEF KeeperInv, ReadInv, Overtaken
<1>10. slot # 0 /\ slot \in 1 .. Len(ops)
  BY TrackedFacts
<1>11. result[slot] # "executed"
  <2>1. result[slot] = "executed" => b = y - d
    BY <1>1, <1>2, <1>10, SlotFacts DEF KeeperInv
  <2> QED
    BY <1>1, <1>2, <1>3, <1>9, <2>1
<1>12. result[slot] # "queued"
  <2>1. result[slot] = "queued" => n <= a + CoreLatency
    BY <1>1, <1>4, <1>10 DEF KeeperInv, OpsInv
  <2> QED
    BY <1>1, <1>4, <1>8, <2>1, Numbers
<1> QED
  BY <1>2, <1>9, <1>10, <1>11, <1>12, SlotFacts DEF KeeperInv

\* What the tick does about the tracked operation.
Remembers == tracked' \in {NoOp, tracked}
Learns == /\ tracked # NoOp /\ ~tracked.known
          /\ tracked' = [tracked EXCEPT !.baseline = current.balance, !.known = TRUE]
Sends == /\ tracked # NoOp /\ tracked.op = slot /\ current.balance = yes
         /\ \E e \in BOOLEAN : /\ Truth(slot, e)
                               /\ inFlight' = inFlight \union {[op |-> slot, executed |-> e]}

LEMMA Decisions ==
  ASSUME KeeperInv, Evaluate
  PROVE  /\ pc' # "read"
         /\ Remembers \/ Learns
         /\ UNCHANGED inFlight \/ Sends
<1>1. ASSUME tracked # NoOp, tracked.known, NEW e \in BOOLEAN, SendAttest(e),
             IF e THEN AttestTrue ELSE AttestFalse
      PROVE  /\ pc' # "read" /\ Remembers
             /\ UNCHANGED inFlight \/ Sends
  <2>1. pc' # "read" /\ Remembers
    BY <1>1 DEF SendAttest, Remembers
  <2>2. CASE UNCHANGED inFlight
    BY <2>1, <2>2
  <2>3. CASE /\ Attestable(tracked.op)
             /\ inFlight' = inFlight \union {[op |-> tracked.op, executed |-> e]}
    <3>1. tracked.op = slot
      BY <1>1, <2>3, TrackedFacts DEF KeeperInv, OpsInv, HasVerdict, Attestable
    <3>2. pc = "read"
      BY DEF Evaluate
    <3>3. Truth(slot, e) /\ current.balance = yes
      <4>1. CASE e
        BY <1>1, <3>1, <3>2, <4>1, MatchIsTrue DEF AttestTrue, Truth
      <4>2. CASE ~e
        BY <1>1, <3>1, <3>2, <4>2, TimeoutIsFalse DEF Truth
      <4> QED
        BY <4>1, <4>2
    <3>4. Sends
      BY <1>1, <2>3, <3>1, <3>3 DEF Sends
    <3> QED
      BY <2>1, <3>4
  <2> QED
    BY <1>1, <2>2, <2>3 DEF SendAttest
<1>2. ASSUME pc' = "idle", UNCHANGED inFlight, UNCHANGED tracked
      PROVE  /\ pc' # "read" /\ Remembers /\ UNCHANGED inFlight
  BY <1>2 DEF Remembers
<1>3. ASSUME tracked # NoOp, ~tracked.known, pc' = "idle", UNCHANGED inFlight,
             tracked' = [tracked EXCEPT !.baseline = current.balance, !.known = TRUE]
      PROVE  /\ pc' # "read" /\ Learns /\ UNCHANGED inFlight
  BY <1>3 DEF Learns
<1>4. \/ /\ pc' = "idle" /\ UNCHANGED <<inFlight, tracked>>
      \/ /\ tracked # NoOp /\ ~tracked.known /\ pc' = "idle" /\ UNCHANGED inFlight
         /\ tracked' = [tracked EXCEPT !.baseline = current.balance, !.known = TRUE]
      \/ /\ tracked # NoOp /\ tracked.known
         /\ (AttestTrue /\ SendAttest(TRUE)) \/ (AttestFalse /\ SendAttest(FALSE))
  BY Zenon DEF Evaluate
<1> QED
  BY <1>1, <1>2, <1>3, <1>4

LEMMA EvaluateSteps ==
  ASSUME KeeperInv, TypeInv', Evaluate
  PROVE  KeeperInv'
<1>1. /\ UNCHANGED ops /\ UNCHANGED slot /\ UNCHANGED result /\ UNCHANGED yes
      /\ UNCHANGED attestations /\ UNCHANGED now /\ UNCHANGED current /\ UNCHANGED resolving
  BY DEF Evaluate, vault, verifierVars
<1>2. pc = "read" /\ pc' # "read" /\ RecordSample
  BY Decisions DEF Evaluate
<1>3. (Remembers \/ Learns) /\ (UNCHANGED inFlight \/ Sends)
  BY Decisions
<1>4. /\ \A s \in Held : s.readAt < Clock
      /\ current.balance = yes \/ Overtaken
  BY <1>2 DEF KeeperInv, ReadInv
<1>5. PICK new : new = [readAt |-> Clock, balance |-> current.balance]
  OBVIOUS
<1>6. /\ Sorted' /\ new \in Held' /\ Held' \subseteq Held \union {new}
      /\ \A s \in Held', t \in Held : s.readAt < t.readAt => t \in Held'
  BY <1>2, <1>4, <1>5, Recorded DEF KeeperInv, SampleInv, Held
<1>7. Clock' = Clock /\ Base' = Base /\ Clock \in Int /\ new.readAt = Clock
      /\ new.balance = current.balance
  BY <1>1, <1>5, Numbers DEF Clock, Base
<1>8. OpsInv' /\ VerdictInv'
  BY <1>1 DEF KeeperInv, OpsInv, VerdictInv, HasVerdict, Truth
<1>9. TxInv'
  <2>1. TxInv
    BY DEF KeeperInv
  <2>2. CASE UNCHANGED inFlight
    BY <1>1, <2>1, <2>2 DEF TxInv, Truth
  <2>3. CASE Sends
    BY <1>1, <2>1, <2>3 DEF TxInv, Truth, Sends
  <2> QED
    BY <1>3, <2>2, <2>3
<1>10. ReadInv'
  BY <1>2 DEF ReadInv
<1>11. \A l \in Int :
         /\ Settled(Held, yes, l) /\ current.balance = yes => Settled(Held', yes, l)
         /\ Clock <= l /\ current.balance = yes => Settled(Held', yes, l)
         /\ SettledBy(Held, Base, l) /\ (current.balance = Base \/ l < Clock)
              => SettledBy(Held', Base, l)
  <2> SUFFICES ASSUME NEW l \in Int
               PROVE  /\ Settled(Held, yes, l) /\ current.balance = yes => Settled(Held', yes, l)
                      /\ Clock <= l /\ current.balance = yes => Settled(Held', yes, l)
                      /\ SettledBy(Held, Base, l) /\ (current.balance = Base \/ l < Clock)
                           => SettledBy(Held', Base, l)
    OBVIOUS
  <2>1. \A s \in Held : s.readAt \in Int /\ s.readAt < new.readAt
    BY <1>4, <1>7, Numbers
  <2> QED
    BY <1>6, <1>7, <2>1, SampleSettles
<1>12. SampleInv'
  <2>1. HistoryInv
    BY DEF KeeperInv, SampleInv
  <2>2. \A s \in Held' : s.readAt <= Clock
    BY <1>4, <1>6, <1>7, Numbers
  <2>3. slot = 0 => Settled(Held', yes, now - Margin)
    <3>1. slot = 0 => current.balance = yes
      BY <1>4 DEF Overtaken
    <3>2. now - Margin \in Int
      BY Numbers
    <3> QED
      BY <1>11, <2>1, <3>1, <3>2 DEF HistoryInv
  <2>4. slot # 0 => SettledBy(Held', Base, ops[slot].at - Margin)
    <3> SUFFICES ASSUME slot # 0 PROVE SettledBy(Held', Base, ops[slot].at - Margin)
      OBVIOUS
    <3>1. PICK a \in Nat : a = ops[slot].at
      BY SlotFacts DEF KeeperInv
    <3>2. PICK l \in Int : l = a - Margin
      BY <3>1, Numbers
    <3>3. result[slot] = "executed" => l < Clock
      <4>1. result[slot] = "executed" => a < now
        BY <3>1 DEF KeeperInv, OpsInv
      <4> QED
        BY <3>1, <3>2, <4>1, Numbers
    <3>4. result[slot] # "executed" => current.balance = Base
      BY <1>4, SlotFacts DEF KeeperInv, Overtaken
    <3>5. SettledBy(Held, Base, l)
      BY <2>1, <3>1, <3>2 DEF HistoryInv
    <3> QED
      BY <1>11, <3>1, <3>2, <3>3, <3>4, <3>5
  <2>5. slot # 0 /\ HasVerdict(slot) => Settled(Held', yes, attestations[slot].timestamp)
    <3> SUFFICES ASSUME slot # 0, HasVerdict(slot)
                 PROVE  Settled(Held', yes, attestations[slot].timestamp)
      OBVIOUS
    <3>1. slot \in 1 .. MaxOps
      BY SlotFacts DEF KeeperInv
    <3>2. PICK ts \in Int : ts = attestations[slot].timestamp
      BY <3>1, Numbers
    <3>3. current.balance = yes
      BY <1>4 DEF Overtaken
    <3> QED
      BY <1>11, <2>1, <3>2, <3>3 DEF HistoryInv
  <2>6. Sent(slot)' => Settled(Held', yes, now)
    <3>1. now \in Int /\ Clock <= now
      BY Numbers
    <3>2. CASE Sends
      BY <1>11, <3>1, <3>2 DEF Sends
    <3>3. CASE UNCHANGED inFlight
      <4>1. Sent(slot)' => Sent(slot)
        BY <1>1, <3>3 DEF Sent
      <4>2. Sent(slot) => current.balance = yes
        BY <1>4 DEF Overtaken
      <4> QED
        BY <1>11, <2>1, <3>1, <4>1, <4>2 DEF HistoryInv
    <3> QED
      BY <1>3, <3>2, <3>3
  <2>7. HasVerdict(slot)' <=> HasVerdict(slot)
    BY <1>1 DEF HasVerdict
  <2>8. HistoryInv'
    BY <1>1, <1>7, <2>3, <2>4, <2>5, <2>6, <2>7 DEF HistoryInv
  <2> QED
    BY <1>6, <1>7, <2>2, <2>8 DEF SampleInv
<1>13. TrackInv'
  <2>1. CASE tracked' = NoOp
    BY <2>1 DEF TrackInv
  <2>2. CASE tracked' = tracked
    BY <1>1, <1>7, <2>2 DEF KeeperInv, TrackInv
  <2>3. CASE Learns
    <3>1. tracked \in Tracked
      BY <2>3, TypeGroups DEF KeeperInv, TrackingOK, Learns
    <3>2. /\ tracked'.op = tracked.op /\ tracked'.since = tracked.since
          /\ tracked'.confident = tracked.confident
          /\ tracked'.known = TRUE /\ tracked'.baseline = current.balance
      BY <2>3, <3>1 DEF Learns, Tracked
    <3>3. /\ tracked.op <= Len(ops) /\ tracked.since >= ops[tracked.op].at - Skew
          /\ ~tracked.confident
      BY <2>3 DEF KeeperInv, TrackInv, Learns
    <3>4. current.balance \in {Base, yes}
      BY <1>4 DEF Overtaken
    <3> QED
      BY <1>1, <1>7, <3>2, <3>3, <3>4 DEF TrackInv
  <2> QED
    BY <1>3, <2>1, <2>2, <2>3 DEF Remembers
<1>14. ResolveInv'
  BY <1>1 DEF KeeperInv, ResolveInv
<1> QED
  BY <1>8, <1>9, <1>10, <1>12, <1>13, <1>14 DEF KeeperInv

-----------------------------------------------------------------------------
LEMMA NextKeeper ==
  ASSUME KeeperInv, [Next]_vars
  PROVE  KeeperInv'
<1>1. TypeInv'
  BY NextType DEF KeeperInv
<1>2. ASSUME NEW w \in Wei, Queue(w) \/ Queue(-w)
      PROVE  KeeperInv'
  BY <1>1, <1>2, QueueSteps
<1>3. ASSUME NEW op \in 1 .. MaxOps, Execute(op) \/ Drop(op)
      PROVE  KeeperInv'
  BY <1>1, <1>3, FateSteps
<1>4. ASSUME NEW tx \in inFlight, MineAttest(tx)
      PROVE  KeeperInv'
  BY <1>1, <1>4, MineSteps
<1>5. CASE EndOp
  BY <1>1, <1>5, EndSteps
<1>6. CASE Elapse
  BY <1>1, <1>6, ElapseSteps
<1>7. CASE \/ \E op \in 1 .. MaxOps : OnLog(op) \/ NoProvenance(op)
           \/ Govern \/ ReadFails \/ Receipt \/ Crash \/ Watch \/ ReadBalance
  BY <1>1, <1>7, QuietSteps
<1>8. CASE Seed \/ \E op \in 1 .. MaxOps : GotBlock(op) \/ Fallback(op)
  BY <1>1, <1>8, TrackSteps
<1>9. CASE Evaluate
  BY <1>1, <1>9, EvaluateSteps
<1>10. CASE UNCHANGED vars
  <2>1. UNCHANGED chain /\ UNCHANGED <<pc, current, samples>> /\ UNCHANGED tracked
        /\ UNCHANGED resolving
    BY <1>10 DEF vars, chain, loop, verifierVars
  <2>2. UNCHANGED samples
    BY <2>1
  <2> QED
    BY <1>1, <2>1, <2>2, ChainKept DEF KeeperInv
<1> QED
  BY <1>2, <1>3, <1>4, <1>5, <1>6, <1>7, <1>8, <1>9, <1>10 DEF Next

LEMMA KeeperInvariant == Spec => []KeeperInv
BY InitKeeper, NextKeeper, PTL DEF Spec

\* A verdict is what Core did, for any amounts, history length, latencies, clock skew
\* within the margin, delays of at least the margin, restarts and changes by the owner.
THEOREM AttestationsAreTrue == Spec => []AttestationsTrue
<1>1. KeeperInv => AttestationsTrue
  BY Zenon DEF KeeperInv, TypeInv, VerdictInv, Truth, AttestationsTrue
<1> QED
  BY <1>1, KeeperInvariant, PTL

\* A confident baseline is the balance just before the operation it is for.
THEOREM ConfidenceIsJustified == Spec => []ConfidentIsPreOp
<1>1. KeeperInv => ConfidentIsPreOp
  <2> SUFFICES ASSUME KeeperInv, tracked # NoOp, tracked.confident, tracked.op = slot
               PROVE  yes - tracked.baseline \in
                        IF result[slot] = "executed" THEN {ops[slot].delta} ELSE {0}
    BY DEF ConfidentIsPreOp
  <2>1. tracked.baseline = Base
    BY DEF KeeperInv, TrackInv
  <2>2. PICK y \in Int, b \in Int, d \in Int : y = yes /\ b = Base /\ d = ops[slot].delta
    BY SlotFacts, TrackedFacts DEF KeeperInv
  <2>3. slot # 0
    BY TrackedFacts
  <2>4. b = IF result[slot] = "executed" THEN y - d ELSE y
    BY <2>2, <2>3, SlotFacts DEF KeeperInv
  <2>5. y - b = IF result[slot] = "executed" THEN d ELSE 0
    BY <2>2, <2>4
  <2> QED
    BY <2>1, <2>2, <2>5
<1> QED
  BY <1>1, KeeperInvariant, PTL
=============================================================================
