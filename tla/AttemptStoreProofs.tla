------------------------- MODULE AttemptStoreProofs -------------------------
(***************************************************************************)
(* Proofs about AttemptStore, for every number of workers, keys, attempts, *)
(* crashes and cycles.  The first part holds even when processes outlive   *)
(* their lease; the second assumes that none does.                         *)
(***************************************************************************)
EXTENDS AttemptStore, FiniteSetTheorems, TLAPS

USE AttemptAssumption

(* What a process is about to record is what its execution left: a failure *)
(* before failed(), and before settle() a graph that is at least as far as *)
(* the status it returned.                                                 *)
OutcomeFits ==
    \A w \in Workers :
        /\ pc[w] = "failing" => outcome[w] \in Failures
        /\ pc[w] = "settling" =>
               /\ outcome[w] \in Settled
               /\ checkpoint # "open"
               /\ outcome[w] = "completed" => checkpoint = "completed"

(* The process inside the graph holds the lock and finds it unsettled. *)
ExecutorHoldsLock ==
    \A w \in Workers : pc[w] = "executing" => lock = w /\ checkpoint \in {"open", "reviewed"}

(* The row and the ledger change in five ways only. *)
RowStep ==
    \/ UNCHANGED <<status, error, ledger>>
    \/ Claimable /\ status' = "RUNNING" /\ UNCHANGED <<error, ledger>>
    \/ \E w \in Workers : RecordFailure(w)
    \/ \E w \in Workers : Settle(w)
    \/ \E k \in Keys, r \in Requests : Redrive(k, r)
    \/ ReviewSettle

(* Every step is one of them. *)
LEMMA RowSteps == [Next]_vars => RowStep
BY DEF Next, WorkerStep, vars, RowStep, Begin, Continue, Claim, LockBusy,
       ReturnCheckpoint, Execute, SetupFails, Finish, StoreRefuses, Crash,
       LeaseExpires, ReviewResume, row, ledger

(* Initially every variable has its type. *)
LEMMA TypeInit == Init => TypeOK
<1> SUFFICES ASSUME Init
             PROVE  TypeOK
  OBVIOUS
<1>1. error \in [null: BOOLEAN, attempts: Nat, cycle: Nat,
                 type: Failures \cup {"none"}, dead: BOOLEAN]
  BY DEF Init, NullError
<1>2. lease \in BOOLEAN
  BY DEF Init
<1>3. QED
  BY <1>1, <1>2 DEF Init, TypeOK, Statuses

(* Every step preserves the types. *)
LEMMA TypeStep == TypeOK /\ OutcomeFits /\ [Next]_vars => TypeOK'
<1> SUFFICES ASSUME TypeOK, OutcomeFits, [Next]_vars
             PROVE  TypeOK'
  OBVIOUS
<1> USE DEF TypeOK, row, graph, process, ledger, Settled, Failures, Statuses
<1>1. ASSUME NEW w \in Workers, Begin(w)
      PROVE  TypeOK'
  BY <1>1 DEF Begin, Claim, ClaimOf
<1>2. ASSUME NEW w \in Workers, Continue(w)
      PROVE  TypeOK'
  <2>1. CASE Claim(w) /\ UNCHANGED error
    BY <1>2, <2>1 DEF Continue, Claim, ClaimOf
  <2>2. CASE UNCHANGED <<row, claim>> /\ pc' = [pc EXCEPT ![w] = "idle"]
    BY <1>2, <2>2 DEF Continue
  <2>3. QED
    BY <1>2, <2>1, <2>2 DEF Continue
<1>3. ASSUME NEW w \in Workers, LockBusy(w)
      PROVE  TypeOK'
  BY <1>3 DEF LockBusy
<1>4. ASSUME NEW w \in Workers, ReturnCheckpoint(w)
      PROVE  TypeOK'
  BY <1>4 DEF ReturnCheckpoint, Return, IsSettled
<1>5. ASSUME NEW w \in Workers, Execute(w)
      PROVE  TypeOK'
  BY <1>5 DEF Execute
<1>6. ASSUME NEW w \in Workers, NEW e \in Failures, SetupFails(w, e)
      PROVE  TypeOK'
  BY <1>6 DEF SetupFails, Raise
<1>7. ASSUME NEW w \in Workers, Finish(w)
      PROVE  TypeOK'
  <2>0. Progress(checkpoint) \subseteq Settled \cup {"open", "reviewed"}
    BY DEF Progress
  <2>1. ASSUME checkpoint' \in Settled, Return(w, checkpoint')
        PROVE  TypeOK'
    BY <1>7, <2>1 DEF Finish, Return
  <2>2. ASSUME NEW e \in Failures, checkpoint' \in Progress(checkpoint), Raise(w, e)
        PROVE  TypeOK'
    BY <1>7, <2>0, <2>2 DEF Finish, Raise
  <2>3. QED
    BY <1>7, <2>1, <2>2 DEF Finish
<1>8. ASSUME NEW w \in Workers, RecordFailure(w)
      PROVE  TypeOK'
  <2>1. error' \in [null: BOOLEAN, attempts: Nat, cycle: Nat,
                     type: Failures \cup {"none"}, dead: BOOLEAN]
    <3>1. Terminal(outcome[w], claim[w].attempt) \in BOOLEAN
      BY DEF Terminal
    <3>2. error' = RecordedFailure(claim[w], outcome[w])
      BY <1>8 DEF RecordFailure
    <3>3. outcome[w] \in Failures
      BY <1>8 DEF RecordFailure, OutcomeFits
    <3>4. QED
      BY <3>1, <3>2, <3>3 DEF RecordedFailure, RetryState
  <2>2. status' \in Statuses /\ pc' \in [Workers ->
            {"idle", "claimed", "executing", "failing", "settling", "sleeping"}]
    BY <1>8 DEF RecordFailure
  <2>3. deadLetters' \in Nat /\ deadCycles' \subseteq Nat
    <3>1. claim[w].cycle \in Nat /\ deadLetters + 1 \in Nat
      OBVIOUS
    <3>2. /\ deadLetters' \in {deadLetters, deadLetters + 1}
          /\ deadCycles' \in {deadCycles, deadCycles \cup {claim[w].cycle}}
      BY <1>8 DEF RecordFailure
    <3>3. QED
      BY <3>1, <3>2
  <2>4. QED
    BY <1>8, <2>1, <2>2, <2>3 DEF RecordFailure
<1>9. ASSUME NEW w \in Workers, Settle(w)
      PROVE  TypeOK'
  BY <1>9 DEF Settle, NullError
<1>10. ASSUME NEW w \in Workers, StoreRefuses(w)
       PROVE  TypeOK'
  BY <1>10 DEF StoreRefuses
<1>11. ASSUME NEW w \in Workers, Crash(w)
       PROVE  TypeOK'
  <2>1. Progress(checkpoint) \subseteq Settled \cup {"open", "reviewed"}
    BY DEF Progress
  <2>2. QED
    BY <1>11, <2>1 DEF Crash
<1>12. CASE LeaseExpires
  BY <1>12 DEF LeaseExpires
<1>13. ASSUME NEW k \in Keys, NEW r \in Requests, Redrive(k, r)
       PROVE  TypeOK'
  <2>1. error' \in [null: BOOLEAN, attempts: Nat, cycle: Nat,
                     type: Failures \cup {"none"}, dead: BOOLEAN]
    BY <1>13 DEF Redrive, AfterRedrive, RetryState
  <2>2. QED
    BY <1>13, <2>1 DEF Redrive
<1>14. CASE ReviewResume
  BY <1>14 DEF ReviewResume
<1>15. CASE ReviewSettle
  BY <1>15 DEF ReviewSettle
<1>16. CASE UNCHANGED vars
  BY <1>16 DEF vars
<1>17. QED
  BY <1>1, <1>2, <1>3, <1>4, <1>5, <1>6, <1>7, <1>8, <1>9, <1>10, <1>11,
     <1>12, <1>13, <1>14, <1>15, <1>16 DEF Next, WorkerStep

-----------------------------------------------------------------------------
(* The graph side: no two executions, and nothing settles an open graph. *)

GraphInv == OutcomeFits /\ ExecutorHoldsLock /\ SettledRunHasSettledGraph

(* The graph side is inductive, given the types. *)
LEMMA GraphStep == TypeOK /\ GraphInv /\ [Next]_vars => GraphInv'
<1> SUFFICES ASSUME TypeOK, GraphInv, [Next]_vars
             PROVE  GraphInv'
  OBVIOUS
<1> USE DEF TypeOK, GraphInv, OutcomeFits, ExecutorHoldsLock, SettledRunHasSettledGraph,
            IsSettled, Settled, Progress, row, graph, process, ledger
<1>1. ASSUME NEW w \in Workers, Begin(w)
      PROVE  GraphInv'
  BY <1>1 DEF Begin, Claim
<1>2. ASSUME NEW w \in Workers, Continue(w)
      PROVE  GraphInv'
  BY <1>2 DEF Continue, Claim
<1>3. ASSUME NEW w \in Workers, LockBusy(w)
      PROVE  GraphInv'
  BY <1>3 DEF LockBusy
<1>4. ASSUME NEW w \in Workers, ReturnCheckpoint(w)
      PROVE  GraphInv'
  BY <1>4 DEF ReturnCheckpoint, Return
<1>5. ASSUME NEW w \in Workers, Execute(w)
      PROVE  GraphInv'
  BY <1>5 DEF Execute
<1>6. ASSUME NEW w \in Workers, NEW e \in Failures, SetupFails(w, e)
      PROVE  GraphInv'
  BY <1>6 DEF SetupFails, Raise
<1>7. ASSUME NEW w \in Workers, Finish(w)
      PROVE  GraphInv'
  <2>1. /\ status # "COMPLETED"
        /\ \A v \in Workers : pc[v] = "executing" => v = w
    BY <1>7 DEF Finish
  <2>2. ASSUME checkpoint' \in Settled, Return(w, checkpoint')
        PROVE  GraphInv'
    BY <1>7, <2>1, <2>2 DEF Finish, Return
  <2>3. ASSUME NEW e \in Failures, Raise(w, e)
        PROVE  GraphInv'
    BY <1>7, <2>1, <2>3 DEF Finish, Raise
  <2>4. QED
    BY <1>7, <2>2, <2>3 DEF Finish
<1>8. ASSUME NEW w \in Workers, RecordFailure(w)
      PROVE  GraphInv'
  BY <1>8 DEF RecordFailure
<1>9. ASSUME NEW w \in Workers, Settle(w)
      PROVE  GraphInv'
  BY <1>9 DEF Settle
<1>10. ASSUME NEW w \in Workers, StoreRefuses(w)
       PROVE  GraphInv'
  BY <1>10 DEF StoreRefuses
<1>11. ASSUME NEW w \in Workers, Crash(w)
       PROVE  GraphInv'
  <2>1. CASE pc[w] = "executing"
    <3>1. /\ status # "COMPLETED"
          /\ \A v \in Workers : pc[v] = "executing" => v = w
      BY <2>1
    <3>2. QED
      BY <1>11, <2>1, <3>1 DEF Crash
  <2>2. CASE pc[w] # "executing"
    BY <1>11, <2>2 DEF Crash
  <2>3. QED
    BY <2>1, <2>2
<1>12. CASE LeaseExpires
  BY <1>12 DEF LeaseExpires
<1>13. ASSUME NEW k \in Keys, NEW r \in Requests, Redrive(k, r)
       PROVE  GraphInv'
  BY <1>13 DEF Redrive
<1>14. CASE ReviewResume
  BY <1>14 DEF ReviewResume
<1>15. CASE ReviewSettle
  BY <1>15 DEF ReviewSettle
<1>16. CASE UNCHANGED vars
  BY <1>16 DEF vars
<1>17. QED
  BY <1>1, <1>2, <1>3, <1>4, <1>5, <1>6, <1>7, <1>8, <1>9, <1>10, <1>11,
     <1>12, <1>13, <1>14, <1>15, <1>16 DEF Next, WorkerStep

(* Types and the graph side together are inductive. *)
LEMMA BaseInvariant == Spec => [](TypeOK /\ GraphInv)
<1>1. Init => TypeOK /\ GraphInv
  BY TypeInit DEF Init, GraphInv, OutcomeFits, ExecutorHoldsLock, SettledRunHasSettledGraph
<1>2. (TypeOK /\ GraphInv) /\ [Next]_vars => (TypeOK /\ GraphInv)'
  BY TypeStep, GraphStep DEF GraphInv
<1>3. QED
  BY <1>1, <1>2, PTL DEF Spec

(* Every variable keeps its type. *)
THEOREM TypeCorrect == Spec => []TypeOK
BY BaseInvariant, PTL

(* A run reads PAUSED or COMPLETED only once its graph got there, whichever *)
(* of the racing processes settled it and however long it slept before.    *)
THEOREM SettledGraph == Spec => []SettledRunHasSettledGraph
<1>1. GraphInv => SettledRunHasSettledGraph
  BY DEF GraphInv
<1>2. QED
  BY <1>1, BaseInvariant, PTL

-----------------------------------------------------------------------------
(* The row: what the UPDATE guards and the retry rule keep true. *)

(* NoStrandedRow is inductive on top of the types and the graph side. *)
LEMMA RowInvStep == TypeOK /\ GraphInv /\ NoStrandedRow /\ [Next]_vars => NoStrandedRow'
<1> SUFFICES ASSUME TypeOK, GraphInv, NoStrandedRow, RowStep
             PROVE  NoStrandedRow'
  BY RowSteps
<1> USE DEF NoStrandedRow
<1>1. CASE UNCHANGED <<status, error, ledger>>
  BY <1>1
<1>2. CASE Claimable /\ status' = "RUNNING" /\ UNCHANGED <<error, ledger>>
  BY <1>2 DEF Claimable
<1>3. ASSUME NEW w \in Workers, RecordFailure(w)
      PROVE  NoStrandedRow'
  <2> DEFINE dead == Terminal(outcome[w], claim[w].attempt)
  <2>1. /\ error' = RetryState(claim[w].attempt, claim[w].cycle, outcome[w], dead)
        /\ status' = IF dead THEN "FAILED" ELSE "RUNNING"
        /\ outcome[w] \in Failures
    BY <1>3 DEF RecordFailure, RecordedFailure, GraphInv, OutcomeFits
  <2>2. dead \in BOOLEAN /\ (~dead => claim[w].attempt < MaxAttempts)
    BY DEF Terminal, TypeOK
  <2>3. /\ error'.attempts = claim[w].attempt
        /\ error'.dead = dead
        /\ error'.type = outcome[w]
    BY <2>1 DEF RetryState
  <2> HIDE DEF dead
  <2>4. QED
    BY <2>1, <2>2, <2>3
<1>4. ASSUME NEW w \in Workers, Settle(w)
      PROVE  NoStrandedRow'
  BY <1>4 DEF Settle
<1>5. ASSUME NEW k \in Keys, NEW r \in Requests, Redrive(k, r)
      PROVE  NoStrandedRow'
  BY <1>5 DEF Redrive, AfterRedrive, RetryState
<1>6. CASE ReviewSettle
  BY <1>6 DEF ReviewSettle
<1>7. QED
  BY <1>1, <1>2, <1>3, <1>4, <1>5, <1>6 DEF RowStep

(* So it always holds, with what it rests on. *)
LEMMA RowInvariant == Spec => [](TypeOK /\ GraphInv /\ NoStrandedRow)
<1>1. Init => NoStrandedRow
  BY DEF Init, NoStrandedRow, NullError
<1>2. QED
  BY <1>1, RowInvStep, BaseInvariant, PTL DEF Spec

(* No row is stranded: neither begin's "Retry budget is exhausted" nor the  *)
(* missing record list_dead_letters checks for ever arises, even when       *)
(* processes outlive their lease.                                          *)
THEOREM NoRowStranded == Spec => []NoStrandedRow
BY RowInvariant, PTL

(* A settled run stays settled: the WHERE status = 'RUNNING' guards stop    *)
(* every late failed() and settle().                                       *)
THEOREM SettledStays == Spec => SettledIsFinal
<1>1. [Next]_vars => [/\ status = "COMPLETED" => status' = "COMPLETED"
                      /\ status = "PAUSED" => status' \in {"PAUSED", "COMPLETED"}]_vars
  <2> SUFFICES ASSUME RowStep
               PROVE  /\ status = "COMPLETED" => status' = "COMPLETED"
                      /\ status = "PAUSED" => status' \in {"PAUSED", "COMPLETED"}
    BY RowSteps
  <2> QED
    BY DEF RowStep, Claimable, RecordFailure, Settle, UpdateFindsRow, Redrive, ReviewSettle
<1>2. QED
  BY <1>1, PTL DEF Spec, SettledIsFinal

-----------------------------------------------------------------------------
(* The ledger's account of dead letters and redrives *)

(* A redrive takes a fresh key: one more is used. *)
LEMMA RedriveUsesKey ==
    ASSUME TypeOK, NEW k \in Keys, NEW r \in Requests, Redrive(k, r)
    PROVE  /\ IsFiniteSet(Used)
           /\ Cardinality(Used) \in Nat
           /\ Cardinality(Used') = Cardinality(Used) + 1
<1>1. IsFiniteSet(Used)
  BY FS_Subset DEF Used
<1>2. Used' = Used \cup {k} /\ k \notin Used
  BY DEF Redrive, Used, TypeOK
<1>3. QED
  BY <1>1, <1>2, FS_AddElement, FS_CardinalityType

(* No other step does. *)
LEMMA UsedUnchanged == redriven' = redriven => Used' = Used
BY DEF Used

(* Every step keeps dead letters and redrives in balance. *)
LEMMA BalanceStep == TypeOK /\ DeadLetterBalance /\ [Next]_vars => DeadLetterBalance'
<1> SUFFICES ASSUME TypeOK, DeadLetterBalance, RowStep
             PROVE  DeadLetterBalance'
  BY RowSteps
<1>0. Cardinality(Used) \in Nat
  BY FS_Subset, FS_CardinalityType DEF Used
<1> USE DEF DeadLetterBalance, ledger
<1>1. CASE UNCHANGED <<status, error, ledger>>
  BY <1>1, UsedUnchanged
<1>2. CASE Claimable /\ status' = "RUNNING" /\ UNCHANGED <<error, ledger>>
  BY <1>2, UsedUnchanged DEF Claimable
<1>3. ASSUME NEW w \in Workers, RecordFailure(w)
      PROVE  DeadLetterBalance'
  BY <1>0, <1>3, UsedUnchanged DEF RecordFailure, UpdateFindsRow
<1>4. ASSUME NEW w \in Workers, Settle(w)
      PROVE  DeadLetterBalance'
  BY <1>4, UsedUnchanged DEF Settle, UpdateFindsRow
<1>5. ASSUME NEW k \in Keys, NEW r \in Requests, Redrive(k, r)
      PROVE  DeadLetterBalance'
  <2>1. Cardinality(Used') = Cardinality(Used) + 1
    BY <1>5, RedriveUsesKey
  <2>2. status = "FAILED" /\ status' = "QUEUED" /\ deadLetters' = deadLetters
    BY <1>5 DEF Redrive
  <2>3. QED
    BY <1>0, <2>1, <2>2
<1>6. CASE ReviewSettle
  BY <1>6, UsedUnchanged DEF ReviewSettle, graph, process
<1>7. QED
  BY <1>1, <1>2, <1>3, <1>4, <1>5, <1>6 DEF RowStep

(* Every dead letter in the ledger is answered by exactly one redrive, or   *)
(* is the one the run is waiting with.                                     *)
THEOREM DeadLettersBalance == Spec => []DeadLetterBalance
<1>1. Init => DeadLetterBalance
  <2> SUFFICES ASSUME Init
               PROVE  DeadLetterBalance
    OBVIOUS
  <2>1. Used = {}
    BY DEF Init, Used
  <2>2. Cardinality(Used) = 0
    BY <2>1, FS_EmptySet
  <2>3. QED
    BY <2>2 DEF Init, DeadLetterBalance
<1>2. QED
  BY <1>1, BalanceStep, TypeCorrect, PTL DEF Spec

-----------------------------------------------------------------------------
(* Part 2: no process outlives its lease.  At most one process is then in  *)
(* an attempt, the row is RUNNING with a live lease meanwhile, and its     *)
(* claim is the next attempt of the row's cycle.                           *)

InFlight ==
    \A w \in Workers : pc[w] # "idle" =>
        /\ status = "RUNNING"
        /\ lease
        /\ claim[w].cycle = error.cycle
        /\ pc[w] # "sleeping" => claim[w].attempt = error.attempts + 1
        /\ \A v \in Workers : pc[v] # "idle" => v = w

(* With processes never suspended past the lease, it is inductive. *)
LEMMA InFlightStep ==
    ASSUME ~SuspendPastLease
    PROVE  TypeOK /\ InFlight /\ [Next]_vars => InFlight'
<1> SUFFICES ASSUME TypeOK, InFlight, [Next]_vars
             PROVE  InFlight'
  OBVIOUS
<1> USE DEF TypeOK, InFlight, row, graph, process, ledger
<1>1. ASSUME NEW w \in Workers, Begin(w)
      PROVE  InFlight'
  <2>1. \A v \in Workers : pc[v] = "idle"
    BY <1>1 DEF Begin, LeaseAllows, Claimable
  <2>2. QED
    BY <1>1, <2>1 DEF Begin, Claim, ClaimOf
<1>2. ASSUME NEW w \in Workers, Continue(w)
      PROVE  InFlight'
  BY <1>2 DEF Continue, Claim, ClaimOf
<1>3. ASSUME NEW w \in Workers, LockBusy(w)
      PROVE  InFlight'
  BY <1>3 DEF LockBusy
<1>4. ASSUME NEW w \in Workers, ReturnCheckpoint(w)
      PROVE  InFlight'
  BY <1>4 DEF ReturnCheckpoint, Return
<1>5. ASSUME NEW w \in Workers, Execute(w)
      PROVE  InFlight'
  BY <1>5 DEF Execute
<1>6. ASSUME NEW w \in Workers, NEW e \in Failures, SetupFails(w, e)
      PROVE  InFlight'
  BY <1>6 DEF SetupFails, Raise
<1>7. ASSUME NEW w \in Workers, Finish(w)
      PROVE  InFlight'
  BY <1>7 DEF Finish, Raise, Return
<1>8. ASSUME NEW w \in Workers, RecordFailure(w)
      PROVE  InFlight'
  <2>1. error'.cycle = claim[w].cycle /\ error'.cycle = error.cycle
    BY <1>8 DEF RecordFailure, RecordedFailure, RetryState
  <2>2. \/ pc' = [pc EXCEPT ![w] = "idle"]
        \/ pc' = [pc EXCEPT ![w] = "sleeping"] /\ status' = "RUNNING"
    BY <1>8 DEF RecordFailure
  <2>3. UNCHANGED <<lease, claim>>
    BY <1>8 DEF RecordFailure
  <2>4. \A v \in Workers : pc'[v] # "idle" => v = w /\ pc'[w] = "sleeping" /\ status' = "RUNNING"
    BY <1>8, <2>2 DEF RecordFailure
  <2>5. QED
    BY <1>8, <2>1, <2>3, <2>4 DEF RecordFailure
<1>9. ASSUME NEW w \in Workers, Settle(w)
      PROVE  InFlight'
  BY <1>9 DEF Settle
<1>10. ASSUME NEW w \in Workers, StoreRefuses(w)
       PROVE  InFlight'
  BY <1>10 DEF StoreRefuses
<1>11. ASSUME NEW w \in Workers, Crash(w)
       PROVE  InFlight'
  BY <1>11 DEF Crash
<1>12. CASE LeaseExpires
  BY <1>12 DEF LeaseExpires
<1>13. ASSUME NEW k \in Keys, NEW r \in Requests, Redrive(k, r)
       PROVE  InFlight'
  BY <1>13 DEF Redrive
<1>14. CASE ReviewResume
  BY <1>14 DEF ReviewResume
<1>15. CASE ReviewSettle
  BY <1>15 DEF ReviewSettle
<1>16. CASE UNCHANGED vars
  BY <1>16 DEF vars
<1>17. QED
  BY <1>1, <1>2, <1>3, <1>4, <1>5, <1>6, <1>7, <1>8, <1>9, <1>10, <1>11,
     <1>12, <1>13, <1>14, <1>15, <1>16 DEF Next, WorkerStep

(* So it always holds under that assumption. *)
LEMMA InFlightInvariant ==
    ASSUME ~SuspendPastLease
    PROVE  Spec => [](TypeOK /\ GraphInv /\ NoStrandedRow /\ InFlight)
<1>1. Init => InFlight
  BY DEF Init, InFlight
<1>2. QED
  BY <1>1, InFlightStep, RowInvariant, PTL DEF Spec

(* What the dead-letter queue lists nobody is working on any more: an       *)
(* operator's redrive meets no process that could still record a failure.  *)
THEOREM DeadLettersQuiescent ==
    ASSUME ~SuspendPastLease
    PROVE  Spec => []DeadLetterIsQuiescent
<1>1. InFlight => DeadLetterIsQuiescent
  BY DEF InFlight, DeadLetterIsQuiescent
<1>2. QED
  BY <1>1, InFlightInvariant, PTL

(* failed() never records the attempt of a superseded claim, although its   *)
(* UPDATE compares nothing but the status: the lease alone guarantees it.  *)
THEOREM FailuresAdvance ==
    ASSUME ~SuspendPastLease
    PROVE  Spec => FailureAdvancesAttempt
<1>1. InFlight /\ [Next]_vars =>
        [error' # error /\ error'.type # "none" =>
            error'.cycle = error.cycle /\ error'.attempts = error.attempts + 1]_vars
  <2> SUFFICES ASSUME InFlight, RowStep, error' # error, error'.type # "none"
               PROVE  error'.cycle = error.cycle /\ error'.attempts = error.attempts + 1
    BY RowSteps
  <2>1. PICK w \in Workers : RecordFailure(w)
    BY DEF RowStep, Settle, NullError, Redrive, AfterRedrive, RetryState, ReviewSettle
  <2>2. QED
    BY <2>1 DEF RecordFailure, RecordedFailure, RetryState, InFlight
<1>2. QED
  BY <1>1, InFlightInvariant, PTL DEF Spec, FailureAdvancesAttempt

(* Every step keeps the cycle number and the ledger's cycles together. *)
LEMMA CycleStep == TypeOK /\ InFlight /\ CycleHistory /\ [Next]_vars => CycleHistory'
<1> SUFFICES ASSUME TypeOK, InFlight, CycleHistory, RowStep
             PROVE  CycleHistory'
  BY RowSteps
<1> USE DEF CycleHistory, ledger
<1>1. CASE UNCHANGED <<status, error, ledger>>
  BY <1>1, UsedUnchanged
<1>2. CASE Claimable /\ status' = "RUNNING" /\ UNCHANGED <<error, ledger>>
  BY <1>2, UsedUnchanged DEF Claimable
<1>3. ASSUME NEW w \in Workers, RecordFailure(w)
      PROVE  CycleHistory'
  <2>1. status = "RUNNING" /\ claim[w].cycle = error.cycle /\ Used' = Used
    BY <1>3, UsedUnchanged DEF RecordFailure, InFlight, UpdateFindsRow
  <2>2. error'.cycle = error.cycle
    BY <1>3, <2>1 DEF RecordFailure, RecordedFailure, RetryState
  <2>3. \/ status' = "FAILED" /\ deadCycles' = deadCycles \cup {error.cycle}
        \/ status' = "RUNNING" /\ deadCycles' = deadCycles
    BY <1>3, <2>1 DEF RecordFailure
  <2>4. error.cycle \in Nat
    BY DEF TypeOK
  <2>5. QED
    BY <2>1, <2>2, <2>3, <2>4
<1>4. ASSUME NEW w \in Workers, Settle(w)
      PROVE  CycleHistory'
  BY <1>4 DEF Settle
<1>5. ASSUME NEW k \in Keys, NEW r \in Requests, Redrive(k, r)
      PROVE  CycleHistory'
  <2>1. /\ status = "FAILED" /\ status' = "QUEUED"
        /\ deadCycles' = deadCycles
        /\ error'.cycle = error.cycle + 1
    BY <1>5 DEF Redrive, AfterRedrive, RetryState
  <2>2. Cardinality(Used') = Cardinality(Used) + 1
    BY <1>5, RedriveUsesKey
  <2>3. error.cycle \in Nat
    BY DEF TypeOK
  <2>4. deadCycles = 0 .. error.cycle /\ error.cycle = Cardinality(Used)
    BY <2>1
  <2>5. QED
    BY <2>1, <2>2, <2>3, <2>4
<1>6. CASE ReviewSettle
  BY <1>6, UsedUnchanged DEF ReviewSettle, graph, process
<1>7. QED
  BY <1>1, <1>2, <1>3, <1>4, <1>5, <1>6 DEF RowStep

(* The cycle number counts the redrives and every earlier cycle ended with  *)
(* a dead letter of its own, none skipped and none repeated.               *)
THEOREM CyclesAccounted ==
    ASSUME ~SuspendPastLease
    PROVE  Spec => []CycleHistory
<1>1. Init => CycleHistory
  <2> SUFFICES ASSUME Init
               PROVE  CycleHistory
    OBVIOUS
  <2>1. Used = {}
    BY DEF Init, Used
  <2>2. Cardinality(Used) = 0
    BY <2>1, FS_EmptySet
  <2>3. error.cycle = 0 /\ deadCycles = {} /\ status = "QUEUED"
    BY DEF Init, NullError
  <2>4. QED
    BY <2>2, <2>3 DEF CycleHistory
<1>2. QED
  BY <1>1, CycleStep, InFlightInvariant, PTL DEF Spec

-----------------------------------------------------------------------------
(* The retry budget *)

(* An execution whose attempt is not yet on the row. *)
Uncounted == \E w \in Workers : pc[w] \in {"executing", "failing", "settling"}

BudgetInv ==
    IF status \in {"QUEUED", "RUNNING"}
    THEN executions <= error.attempts + crashes + (IF Uncounted THEN 1 ELSE 0)
    ELSE executions <= MaxAttempts + crashes

(* Every step keeps the budget's account. *)
LEMMA BudgetStep ==
    TypeOK /\ NoStrandedRow /\ InFlight /\ BudgetInv /\ [Next]_vars => BudgetInv'
<1> SUFFICES ASSUME TypeOK, NoStrandedRow, InFlight, BudgetInv, [Next]_vars
             PROVE  BudgetInv'
  OBVIOUS
<1>0. /\ executions \in Nat /\ crashes \in Nat /\ MaxAttempts \in Nat
      /\ error.attempts \in Nat
      /\ status \in {"QUEUED", "RUNNING"} => error.attempts < MaxAttempts
  BY DEF TypeOK, NoStrandedRow
<1> USE DEF BudgetInv, row, graph, process, ledger
<1>1. ASSUME NEW w \in Workers, Begin(w) \/ Continue(w)
      PROVE  BudgetInv'
  <2>1. Uncounted' = Uncounted
    BY <1>1 DEF Begin, Continue, Claim, Uncounted, InFlight, TypeOK
  <2>2. QED
    BY <1>1, <2>1, <1>0 DEF Begin, Continue, Claim, Claimable
<1>2. ASSUME NEW w \in Workers,
             \/ LockBusy(w) \/ ReturnCheckpoint(w)
             \/ \E e \in Failures : SetupFails(w, e)
      PROVE  BudgetInv'
  <2>1. Uncounted => Uncounted'
    BY <1>2 DEF LockBusy, ReturnCheckpoint, Return, SetupFails, Raise, Uncounted, InFlight, TypeOK
  <2>2. UNCHANGED <<row, executions, crashes>>
    BY <1>2 DEF LockBusy, ReturnCheckpoint, SetupFails
  <2>3. QED
    BY <2>1, <2>2, <1>0
<1>3. ASSUME NEW w \in Workers, Execute(w)
      PROVE  BudgetInv'
  <2>1. ~Uncounted /\ Uncounted' /\ status = "RUNNING"
    BY <1>3 DEF Execute, Uncounted, InFlight, TypeOK
  <2>2. QED
    BY <1>3, <2>1, <1>0 DEF Execute
<1>4. ASSUME NEW w \in Workers, Finish(w)
      PROVE  BudgetInv'
  <2>1. Uncounted'
    BY <1>4 DEF Finish, Raise, Return, Uncounted, TypeOK
  <2>2. QED
    BY <1>4, <2>1, <1>0 DEF Finish
<1>5. ASSUME NEW w \in Workers, RecordFailure(w)
      PROVE  BudgetInv'
  <2>1. status = "RUNNING" /\ claim[w].attempt = error.attempts + 1
    BY <1>5 DEF RecordFailure, InFlight
  <2>2. /\ error'.attempts = error.attempts + 1
        /\ UNCHANGED <<executions, crashes>>
    BY <1>5, <2>1 DEF RecordFailure, RecordedFailure, RetryState
  <2>3. executions <= error.attempts + 1 + crashes
    BY <2>1, <1>0
  <2>4. error.attempts + 1 <= MaxAttempts
    BY <2>1, <1>0
  <2>5. status' \in {"FAILED", "RUNNING"}
    BY <1>5 DEF RecordFailure
  <2>6. QED
    BY <2>2, <2>3, <2>4, <2>5, <1>0
<1>6. ASSUME NEW w \in Workers, Settle(w)
      PROVE  BudgetInv'
  BY <1>6, <1>0 DEF Settle, UpdateFindsRow
<1>7. ASSUME NEW w \in Workers, StoreRefuses(w)
      PROVE  BudgetInv'
  BY <1>7 DEF StoreRefuses, InFlight, UpdateFindsRow
<1>8. ASSUME NEW w \in Workers, Crash(w)
      PROVE  BudgetInv'
  BY <1>8, <1>0 DEF Crash
<1>9. CASE LeaseExpires \/ ReviewResume \/ ReviewSettle \/ UNCHANGED vars
  <2>1. Uncounted' = Uncounted
    BY <1>9 DEF LeaseExpires, ReviewResume, ReviewSettle, vars, Uncounted
  <2>2. QED
    BY <1>9, <2>1, <1>0 DEF LeaseExpires, ReviewResume, ReviewSettle, vars
<1>10. ASSUME NEW k \in Keys, NEW r \in Requests, Redrive(k, r)
       PROVE  BudgetInv'
  BY <1>10, <1>0 DEF Redrive, AfterRedrive, RetryState
<1>11. QED
  BY <1>1, <1>2, <1>3, <1>4, <1>5, <1>6, <1>7, <1>8, <1>9, <1>10 DEF Next, WorkerStep

(* A cycle enters the graph at most max_attempts times, process deaths      *)
(* aside: no interleaving of workers buys a run further attempts.          *)
THEOREM BudgetKept ==
    ASSUME ~SuspendPastLease
    PROVE  Spec => []RetryBudget
<1>1. Init => BudgetInv
  <2> SUFFICES ASSUME Init
               PROVE  BudgetInv
    OBVIOUS
  <2>1. ~Uncounted
    BY DEF Init, Uncounted
  <2>2. QED
    BY <2>1 DEF Init, BudgetInv, NullError
<1>2. TypeOK /\ NoStrandedRow /\ InFlight /\ BudgetInv => RetryBudget
  <2> SUFFICES ASSUME TypeOK, NoStrandedRow, BudgetInv
               PROVE  RetryBudget
    OBVIOUS
  <2>1. /\ executions \in Nat /\ crashes \in Nat /\ MaxAttempts \in Nat
        /\ error.attempts \in Nat
        /\ status \in {"QUEUED", "RUNNING"} => error.attempts < MaxAttempts
    BY DEF TypeOK, NoStrandedRow
  <2>2. QED
    BY <2>1 DEF BudgetInv, RetryBudget
<1>3. QED
  BY <1>1, <1>2, BudgetStep, InFlightInvariant, PTL DEF Spec

-----------------------------------------------------------------------------
(* The refinement: row and ledger are lives of RunLifecycle. *)

LifecycleInv == TypeOK /\ GraphInv /\ NoStrandedRow /\ InFlight /\ CycleHistory

(* The run as it is inserted is a fresh life. *)
LEMMA LifecycleInit == Init => Lifecycle!Init
<1> SUFFICES ASSUME Init
             PROVE  Lifecycle!Init
  OBVIOUS
<1>1. Used = {}
  BY DEF Init, Used
<1>2. Cardinality(Used) = 0
  BY <1>1, FS_EmptySet
<1>3. status = "QUEUED" /\ error.attempts = 0 /\ deadCycles = {}
  BY DEF Init, NullError
<1>4. QED
  BY <1>2, <1>3 DEF Lifecycle!Init, PhaseOf

(* Every change of row or ledger is one action of the abstract run. *)
LEMMA LifecycleStep == LifecycleInv /\ [Next]_vars => [Lifecycle!Next]_(Lifecycle!vars)
<1> SUFFICES ASSUME LifecycleInv, RowStep
             PROVE  [Lifecycle!Next]_(Lifecycle!vars)
  BY RowSteps
<1> USE DEF LifecycleInv, Lifecycle!Next, Lifecycle!vars, PhaseOf, ledger
<1>0. /\ error.attempts \in Nat /\ error.cycle \in Nat /\ MaxAttempts \in Nat
      /\ status \in Statuses
  BY DEF TypeOK
<1>1. CASE UNCHANGED <<status, error, ledger>>
  BY <1>1, UsedUnchanged
<1>2. CASE Claimable /\ status' = "RUNNING" /\ UNCHANGED <<error, ledger>>
  BY <1>2, UsedUnchanged DEF Claimable, Lifecycle!Start
<1>3. ASSUME NEW w \in Workers, RecordFailure(w)
      PROVE  [Lifecycle!Next]_(Lifecycle!vars)
  <2> DEFINE dead == Terminal(outcome[w], claim[w].attempt)
  <2>1. /\ status = "RUNNING"
        /\ Used' = Used
        /\ claim[w].cycle = error.cycle
        /\ claim[w].attempt = error.attempts + 1
    BY <1>3, UsedUnchanged DEF RecordFailure, UpdateFindsRow, InFlight
  <2>2. /\ error'.attempts = error.attempts + 1
        /\ status' = IF dead THEN "FAILED" ELSE "RUNNING"
        /\ deadCycles' = IF dead THEN deadCycles \cup {error.cycle} ELSE deadCycles
    BY <1>3, <2>1 DEF RecordFailure, RecordedFailure, RetryState
  <2>3. /\ error.attempts < MaxAttempts
        /\ error.cycle = Cardinality(Used)
        /\ error.cycle \notin deadCycles
    BY <2>1 DEF NoStrandedRow, CycleHistory
  <2>4. ~dead => error.attempts + 1 < MaxAttempts
    BY <1>0, <2>1 DEF Terminal
  <2> HIDE DEF dead
  <2>5. CASE dead
    BY <2>1, <2>2, <2>3, <2>5 DEF Lifecycle!Die
  <2>6. CASE ~dead
    BY <2>1, <2>2, <2>4, <2>6 DEF Lifecycle!Retry
  <2>7. QED
    BY <2>5, <2>6
<1>4. ASSUME NEW w \in Workers, Settle(w)
      PROVE  [Lifecycle!Next]_(Lifecycle!vars)
  BY <1>4, UsedUnchanged DEF Settle, UpdateFindsRow, NullError, Lifecycle!Settle
<1>5. ASSUME NEW k \in Keys, NEW r \in Requests, Redrive(k, r)
      PROVE  [Lifecycle!Next]_(Lifecycle!vars)
  <2>1. /\ status = "FAILED" /\ status' = "QUEUED"
        /\ deadCycles' = deadCycles
        /\ error'.attempts = 0
    BY <1>5 DEF Redrive, AfterRedrive, RetryState
  <2>2. Cardinality(Used') = Cardinality(Used) + 1
    BY <1>5, RedriveUsesKey
  <2>3. Cardinality(Used) \in deadCycles
    BY <1>0, <2>1 DEF CycleHistory
  <2>4. QED
    BY <2>1, <2>2, <2>3 DEF Lifecycle!Redrive
<1>6. CASE ReviewSettle
  BY <1>6, UsedUnchanged DEF ReviewSettle, Lifecycle!Review
<1>7. QED
  BY <1>1, <1>2, <1>3, <1>4, <1>5, <1>6 DEF RowStep

(* Runs are lives of RunLifecycle: the row's three columns and the ledger   *)
(* never show an operator anything but one bounded life after another.     *)
THEOREM LifecycleImplemented ==
    ASSUME ~SuspendPastLease
    PROVE  Spec => ImplementsLifecycle
<1>1. Init => Lifecycle!Init
  BY LifecycleInit
<1>2. LifecycleInv /\ [Next]_vars => [Lifecycle!Next]_(Lifecycle!vars)
  BY LifecycleStep
<1>3. TypeOK /\ GraphInv /\ NoStrandedRow /\ InFlight /\ CycleHistory => LifecycleInv
  BY DEF LifecycleInv
<1>4. Spec => []CycleHistory
  BY CyclesAccounted
<1>5. QED
  BY <1>1, <1>2, <1>3, <1>4, InFlightInvariant, PTL DEF Spec, ImplementsLifecycle, Lifecycle!Spec

=============================================================================
