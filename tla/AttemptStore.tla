---------------------------- MODULE AttemptStore ----------------------------
(***************************************************************************)
(* Durable invoice attempts of one run: the row of public.runs that        *)
(* graph/worker.py keeps (claim, lease, bounded infrastructure retries,    *)
(* dead letter, operator redrive), the one-shot worker processes that race *)
(* for it, and what they see of the graph: the run's advisory lock and     *)
(* whether its checkpoint is settled.  What happens inside an execution is *)
(* the subject of module DurableGraph.                                     *)
(*                                                                         *)
(* Calls that raise before they write anything (RunInProgress,             *)
(* RunInDeadLetter, InvalidRedrive, the replay of a redrive key) and a     *)
(* begin that returns None leave every variable alone: they are stuttering *)
(* steps, and only their negated guards appear.  No code sets CANCELLED.   *)
(***************************************************************************)
EXTENDS Naturals, FiniteSets

CONSTANTS
    Workers,           \* one-shot worker processes (invoice_cli.py)
    Keys,              \* idempotency keys an operator may redrive with
    Requests,          \* the (actor, reason) of a redrive request
    MaxAttempts,       \* RetryConfig.max_attempts
    SuspendPastLease,  \* may a process be paused past its 480 s lease?
    MaxCrashes,        \* bound: process deaths considered
    NoWorker, NoRequest

ASSUME AttemptAssumption ==
    /\ MaxAttempts \in Nat \ {0}
    /\ MaxCrashes \in Nat
    /\ SuspendPastLease \in BOOLEAN
    /\ IsFiniteSet(Keys)
    /\ NoWorker \notin Workers
    /\ NoRequest \notin Requests

VARIABLES
    status,       \* runs.status
    error,        \* runs.error, a RetryState or SQL NULL
    lease,        \* is now - runs.started_at below running_lease_seconds?
    checkpoint,   \* what the graph checkpoint says: "open" before it settles,
                  \* "reviewed" between a recorded review and the archive
    lock,         \* the worker whose session holds the run's advisory lock
    pc, claim,    \* where each process is, and the RunAttempt it holds
    outcome,      \* what its last run_once returned or raised
    deadLetters,  \* number of workflow.dead_lettered events in the ledger
    deadCycles,   \* the cycles those events name
    redriven,     \* key -> request of its workflow.redriven event
    executions,   \* graph executions entered since the last redrive
    crashes       \* bound counter

row == <<status, error, lease>>
graph == <<checkpoint, lock, executions>>
process == <<pc, claim, outcome>>
ledger == <<deadLetters, deadCycles, redriven>>
vars == <<row, graph, process, ledger, crashes>>

Statuses == {"QUEUED", "RUNNING", "PAUSED", "COMPLETED", "FAILED"}
Settled == {"awaiting_review", "completed"}
(* "masked": a ledger storage failure that extraction.py re-raises as      *)
(* ExtractionAuditFailed "from None", so that root_error no longer sees it *)
Failures == {"infrastructure", "masked", "business"}

RetryState(n, c, e, d) ==
    [null |-> FALSE, attempts |-> n, cycle |-> c, type |-> e, dead |-> d]
(* _state(None) is RetryState(); the null field tells SQL NULL apart *)
NullError == [null |-> TRUE, attempts |-> 0, cycle |-> 0, type |-> "none", dead |-> FALSE]

IsInfrastructureError(e) == e = "infrastructure"

TerminalOffByOne(e, attempt) == ~IsInfrastructureError(e) \/ attempt > MaxAttempts
Terminal(e, attempt) == ~IsInfrastructureError(e) \/ attempt >= MaxAttempts

RecordedFailureUnmarked(a, e) == RetryState(a.attempt, a.cycle, e, FALSE)
RecordedFailure(a, e) == RetryState(a.attempt, a.cycle, e, Terminal(e, a.attempt))

AfterRedriveSameCycle(c) == RetryState(0, c, "none", FALSE)
AfterRedrive(c) == RetryState(0, c + 1, "none", FALSE)

IsSettledUnchecked(c) == c \in Settled \cup {"open"}
IsSettled(c) == c \in Settled

(* Where an execution may leave the checkpoint it found. *)
Progress(c) == IF c = "open" THEN {"open"} \cup Settled ELSE {"reviewed", "completed"}

TypeOK ==
    /\ status \in Statuses
    /\ error \in [null: BOOLEAN, attempts: Nat, cycle: Nat,
                  type: Failures \cup {"none"}, dead: BOOLEAN]
    /\ lease \in BOOLEAN
    /\ checkpoint \in Settled \cup {"open", "reviewed"}
    /\ lock \in Workers \cup {NoWorker}
    /\ pc \in [Workers -> {"idle", "claimed", "executing", "failing", "settling", "sleeping"}]
    /\ claim \in [Workers -> [attempt: Nat, cycle: Nat]]
    /\ outcome \in [Workers -> Failures \cup Settled \cup {"none"}]
    /\ deadLetters \in Nat
    /\ deadCycles \subseteq Nat
    /\ redriven \in [Keys -> Requests \cup {NoRequest}]
    /\ executions \in Nat
    /\ crashes \in Nat

(* The run as ingestion_repository.create inserts it. *)
Init ==
    /\ status = "QUEUED"
    /\ error = NullError
    /\ lease = FALSE
    /\ checkpoint = "open"
    /\ lock = NoWorker
    /\ pc = [w \in Workers |-> "idle"]
    /\ claim = [w \in Workers |-> [attempt |-> 0, cycle |-> 0]]
    /\ outcome = [w \in Workers |-> "none"]
    /\ deadLetters = 0
    /\ deadCycles = {}
    /\ redriven = [k \in Keys |-> NoRequest]
    /\ executions = 0
    /\ crashes = 0

-----------------------------------------------------------------------------
(* PostgresAttemptStore.begin, from its guards to the UPDATE. *)

Claimable == status \in {"QUEUED", "RUNNING"} /\ error.attempts < MaxAttempts

LeaseIgnored == TRUE
LeaseAllows == status = "RUNNING" => ~lease

ClaimOfUncounted == [attempt |-> 1, cycle |-> error.cycle]
ClaimOf == [attempt |-> error.attempts + 1, cycle |-> error.cycle]

Claim(w) ==
    /\ status' = "RUNNING"
    /\ lease' = TRUE
    /\ claim' = [claim EXCEPT ![w] = ClaimOf]
    /\ pc' = [pc EXCEPT ![w] = "claimed"]

(* A new process; a live lease refuses it (RunInProgress). *)
Begin(w) ==
    /\ pc[w] = "idle"
    /\ Claimable
    /\ LeaseAllows
    /\ Claim(w)
    /\ UNCHANGED <<error, outcome, graph, ledger, crashes>>

(* The loop's begin(continuation=True): no lease check.  A run that has    *)
(* settled or failed meanwhile ends the process.                           *)
Continue(w) ==
    /\ pc[w] = "sleeping"
    /\ \/ Claimable /\ Claim(w) /\ UNCHANGED error
       \/ /\ ~Claimable
          /\ pc' = [pc EXCEPT ![w] = "idle"]
          /\ UNCHANGED <<row, claim>>
    /\ UNCHANGED <<outcome, graph, ledger, crashes>>

-----------------------------------------------------------------------------
(* run_once: invoice_runtime, then InvoiceGraphRunner.run under the lock. *)

Raise(w, e) ==
    /\ outcome' = [outcome EXCEPT ![w] = e]
    /\ pc' = [pc EXCEPT ![w] = "failing"]

Return(w, result) ==
    /\ outcome' = [outcome EXCEPT ![w] = result]
    /\ pc' = [pc EXCEPT ![w] = "settling"]

(* Another process, perhaps a review worker, holds the lock: RunInProgress *)
(* is re-raised and the row keeps the lease this claim renewed.            *)
LockBusy(w) ==
    /\ pc[w] = "claimed"
    /\ lock # NoWorker \/ status = "PAUSED"
    /\ pc' = [pc EXCEPT ![w] = "idle"]
    /\ UNCHANGED <<row, claim, outcome, graph, ledger, crashes>>

(* A settled checkpoint is returned as it is. *)
ReturnCheckpoint(w) ==
    /\ pc[w] = "claimed"
    /\ lock = NoWorker
    /\ IsSettled(checkpoint)
    /\ Return(w, checkpoint)
    /\ UNCHANGED <<row, claim, graph, ledger, crashes>>

Execute(w) ==
    /\ pc[w] = "claimed"
    /\ lock = NoWorker
    /\ ~IsSettled(checkpoint)
    /\ lock' = w
    /\ executions' = executions + 1
    /\ pc' = [pc EXCEPT ![w] = "executing"]
    /\ UNCHANGED <<row, claim, outcome, checkpoint, ledger, crashes>>

(* Failures before the graph is entered: connections, settings, storage. *)
SetupFails(w, e) ==
    /\ pc[w] = "claimed"
    /\ e # "masked"
    /\ Raise(w, e)
    /\ UNCHANGED <<row, claim, graph, ledger, crashes>>

(* The execution ends and releases the lock.  It may raise after the last  *)
(* checkpoint was written (the unlock, a connection's exit).               *)
Finish(w) ==
    /\ pc[w] = "executing"
    /\ lock' = NoWorker
    /\ checkpoint' \in Progress(checkpoint)
    /\ \/ checkpoint' \in Settled /\ Return(w, checkpoint')
       \/ \E e \in Failures : Raise(w, e)
    /\ UNCHANGED <<row, claim, executions, ledger, crashes>>

-----------------------------------------------------------------------------
(* RetryWorker.process after run_once, with the store calls it makes. *)

(* WHERE id = ... AND status = 'RUNNING' *)
UpdateUnguarded == TRUE
UpdateFindsRow == status = "RUNNING"

(* failed(): the UPDATE ... WHERE status = 'RUNNING' and, for a terminal   *)
(* failure, the workflow.dead_lettered event of the same transaction.      *)
RecordFailure(w) ==
    /\ pc[w] = "failing"
    /\ UpdateFindsRow
    /\ LET a == claim[w]
           dead == Terminal(outcome[w], a.attempt)
       IN /\ error' = RecordedFailure(a, outcome[w])
          /\ status' = IF dead THEN "FAILED" ELSE "RUNNING"
          /\ pc' = [pc EXCEPT ![w] = IF dead THEN "idle" ELSE "sleeping"]
          /\ deadLetters' = IF dead THEN deadLetters + 1 ELSE deadLetters
          /\ deadCycles' = IF dead THEN deadCycles \cup {a.cycle} ELSE deadCycles
    /\ UNCHANGED <<lease, claim, outcome, graph, redriven, crashes>>

(* settle() *)
Settle(w) ==
    /\ pc[w] = "settling"
    /\ UpdateFindsRow
    /\ status' = IF outcome[w] = "awaiting_review" THEN "PAUSED" ELSE "COMPLETED"
    /\ error' = NullError
    /\ pc' = [pc EXCEPT ![w] = "idle"]
    /\ UNCHANGED <<lease, claim, outcome, graph, ledger, crashes>>

(* Neither UPDATE finds a RUNNING row: the call returns if the row already *)
(* says the same, otherwise it raises; the process ends either way.        *)
StoreRefuses(w) ==
    /\ pc[w] \in {"failing", "settling"}
    /\ ~UpdateFindsRow
    /\ pc' = [pc EXCEPT ![w] = "idle"]
    /\ UNCHANGED <<row, claim, outcome, graph, ledger, crashes>>

(* The process dies, is cancelled, or a store call loses its connection    *)
(* (before or after its commit).  Its session's advisory lock goes with    *)
(* it, and checkpoints it had written stay.                                *)
Crash(w) ==
    /\ pc[w] # "idle"
    /\ crashes < MaxCrashes
    /\ crashes' = crashes + 1
    /\ pc' = [pc EXCEPT ![w] = "idle"]
    /\ IF pc[w] = "executing"
       THEN /\ lock' = NoWorker
            /\ checkpoint' \in Progress(checkpoint)
       ELSE UNCHANGED <<lock, checkpoint>>
    /\ UNCHANGED <<row, claim, outcome, executions, ledger>>

-----------------------------------------------------------------------------
(* Time, the operator and the review worker. *)

(* 480 seconds since the last claim.  The graph's deadline is at most 450  *)
(* seconds and the delays at most 5, so unless a process is suspended an   *)
(* attempt is over by then.                                                *)
LeaseExpires ==
    /\ lease
    /\ status = "RUNNING"
    /\ SuspendPastLease \/ \A w \in Workers : pc[w] = "idle"
    /\ lease' = FALSE
    /\ UNCHANGED <<status, error, graph, process, ledger, crashes>>

(* redrive(): a fresh key on a dead-lettered run. *)
Redrive(k, r) ==
    /\ redriven[k] = NoRequest
    /\ status = "FAILED"
    /\ error.dead
    /\ status' = "QUEUED"
    /\ lease' = FALSE
    /\ error' = AfterRedrive(error.cycle)
    /\ redriven' = [redriven EXCEPT ![k] = r]
    /\ executions' = 0
    /\ UNCHANGED <<checkpoint, lock, process, deadLetters, deadCycles, crashes>>

(* The review worker takes a paused graph through the review, perhaps not  *)
(* in one go, and then completes the run.  A reviewed graph is also taken  *)
(* on by a worker called for the paused run: its begin returns None and it *)
(* runs the graph without a claim.                                         *)
ReviewResume ==
    /\ status = "PAUSED"
    /\ checkpoint \in {"awaiting_review", "reviewed"}
    /\ lock = NoWorker
    /\ checkpoint' \in {"reviewed", "completed"}
    /\ UNCHANGED <<row, lock, executions, process, ledger, crashes>>

ReviewSettle ==
    /\ status = "PAUSED"
    /\ checkpoint = "completed"
    /\ status' = "COMPLETED"
    /\ UNCHANGED <<error, lease, graph, process, ledger, crashes>>

-----------------------------------------------------------------------------
WorkerStep(w) ==
    \/ Continue(w)
    \/ LockBusy(w)
    \/ ReturnCheckpoint(w)
    \/ Execute(w)
    \/ \E e \in Failures : SetupFails(w, e)
    \/ Finish(w)
    \/ RecordFailure(w)
    \/ Settle(w)
    \/ StoreRefuses(w)

Next ==
    \/ \E w \in Workers : Begin(w) \/ WorkerStep(w) \/ Crash(w)
    \/ LeaseExpires
    \/ \E k \in Keys, r \in Requests : Redrive(k, r)
    \/ ReviewResume
    \/ ReviewSettle

Spec == Init /\ [][Next]_vars

(* A started process keeps running (execution is cut by its deadline), time *)
(* passes, and somebody keeps invoking the worker for a claimable run.      *)
(* Nothing obliges an operator to redrive or a process to crash.            *)
FairSpec ==
    /\ Spec
    /\ \A w \in Workers : WF_vars(WorkerStep(w))
    /\ WF_vars(\E w \in Workers : Begin(w))
    /\ WF_vars(LeaseExpires)
-----------------------------------------------------------------------------
(* Properties *)

Used == {k \in Keys : redriven[k] # NoRequest}

(* The ledger accounts for every dead letter: each workflow.dead_lettered  *)
(* event is matched by the one redrive that took the run out of the queue, *)
(* except the last while the run is still FAILED.  failed() and redrive()  *)
(* write row and event in one transaction, and a stale worker must not     *)
(* disturb the balance.                                                    *)
DeadLetterBalance ==
    deadLetters = Cardinality(Used) + (IF status = "FAILED" THEN 1 ELSE 0)

(* Nobody loses a run: a claimable row has attempts left (begin would      *)
(* raise "Retry budget is exhausted; run needs recovery" on it for ever),   *)
(* and a FAILED one carries the record without which list_dead_letters     *)
(* raises "Failed run lacks a dead-letter record" and no redrive takes it. *)
NoStrandedRow ==
    /\ status \in {"QUEUED", "RUNNING"} => error.attempts < MaxAttempts /\ ~error.dead
    /\ status = "FAILED" => error.dead /\ error.type \in Failures

(* A run that reads PAUSED or COMPLETED has a graph that got there, however *)
(* many processes raced to settle it.                                      *)
SettledRunHasSettledGraph ==
    /\ status = "PAUSED" => checkpoint # "open"
    /\ status = "COMPLETED" => checkpoint = "completed"

(* No late failed(), settle() or begin() of any process takes a run out of *)
(* PAUSED or COMPLETED, except the review worker completing it.            *)
SettledIsFinal ==
    [][/\ status = "COMPLETED" => status' = "COMPLETED"
       /\ status = "PAUSED" => status' \in {"PAUSED", "COMPLETED"}]_vars

(* While the run is not settled its cycle number counts the redrives, and  *)
(* the ledger holds a dead letter for each earlier cycle and for this one  *)
(* exactly if the run is FAILED.                                           *)
CycleHistory ==
    status \notin {"PAUSED", "COMPLETED"} =>
        /\ error.cycle = Cardinality(Used)
        /\ deadCycles = {c \in 0 .. error.cycle : c = error.cycle => status = "FAILED"}

(* A recorded failure is the next attempt of the row's current cycle:      *)
(* failed() raises "Claimed run changed before failure recording" rather   *)
(* than record the attempt of a superseded claim.                          *)
FailureAdvancesAttempt ==
    [][error' # error /\ error'.type # "none" =>
         error'.cycle = error.cycle /\ error'.attempts = error.attempts + 1]_vars

(* A cycle executes the graph at most MaxAttempts times, plus once for     *)
(* every process death (a crash does not count against the budget).        *)
RetryBudget == executions <= MaxAttempts + crashes

(* A dead-lettered or queued run has no process left in an attempt that    *)
(* could still write: an operator may redrive what the queue lists.        *)
DeadLetterIsQuiescent ==
    status \in {"QUEUED", "FAILED"} => \A w \in Workers : pc[w] = "idle"

(* An accepted run is eventually settled or dead-lettered, whatever fails  *)
(* and however often (finitely) processes die.                             *)
EventuallyDecided ==
    status \in {"QUEUED", "RUNNING"} ~> status \in {"PAUSED", "COMPLETED", "FAILED"}

(* The row and the ledger together are one life after another of an        *)
(* abstract run, whatever the processes do: no failure is recorded out of  *)
(* turn, no life has two dead letters, nothing settled comes back.         *)
PhaseOf ==
    [QUEUED |-> "queued", RUNNING |-> "running", PAUSED |-> "paused",
     COMPLETED |-> "completed", FAILED |-> "failed"]

Lifecycle == INSTANCE RunLifecycle WITH
    Budget <- MaxAttempts,
    phase <- PhaseOf[status],
    failures <- error.attempts,
    lives <- Cardinality(Used),
    letters <- deadCycles

ImplementsLifecycle == Lifecycle!Spec

(* "Only typed connection, timeout, ... and ledger storage failures are    *)
(* retryable": a run dead-lettered by an infrastructure failure has spent  *)
(* its attempts.                                                           *)
InfrastructureIsRetried ==
    status = "FAILED" /\ error.type \in {"infrastructure", "masked"} =>
        error.attempts = MaxAttempts
=============================================================================
