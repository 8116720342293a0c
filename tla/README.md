# A verification project for invoiceops-agent

TLA+ models of the parts of `src/invoiceops_agent` that decide what happens to
an invoice, the TLC configurations that check them on small instances, and
TLAPS proofs of what holds for every instance. Everything is written from the
Python source; `PROJECT.json` maps each definition to the lines it models.

Contents: [the system](#the-system), [modules](#modules-and-the-code),
[runs](#runs-and-what-they-show), [proofs](#proofs),
[where code and text disagree](#where-code-and-text-disagree),
[what is left out](#what-is-left-out), [what remains](#what-remains).

## The system

An invoice document arrives by upload or signed e-mail webhook, is stored, and
gets a *run*. A one-shot worker process claims the run and executes a durable
graph: extract, validate, match against the ERP's purchase order, apply policy,
gate, and then either approve automatically or queue an *exception* for human
review. An analyst proposes, a manager signs, and another one-shot process
resumes the graph and closes run and exception. All state is in PostgreSQL (and
a bucket of raw objects); no process is long-lived, so everything that can go
wrong is an interleaving of short transactions of several processes, cut
anywhere.

| Component | State it keeps | Operations | Interacts with |
|---|---|---|---|
| Ingestion (`graph/ingestion.py`, `tools/ingestion_repository.py`, `tools/raw_storage.py`) | invoices, initial runs, `ingestion_requests`, `webhook_nonces`, raw bucket | `ingest` | creates the run the attempts start from; ledger |
| Attempts and dead letters (`graph/worker.py`, `graph/retry.py`) | `runs.status`, `started_at`, `error` | `begin`, `settle`, `failed`, `redrive`, `list_dead_letters`, the retry loop | executes the graph under its lock |
| Durable graph (`graph/invoice*.py`, `graph/live_services.py`, `graph/checkpoints.py`) | checkpoint, advisory lock, ledger events per node, `invoices.status`, `exceptions` | `run`, `resume`, one service per node | called by both workers; reads ERP rows |
| Human decisions (`api/decision_service.py`) | `decisions`, `exceptions.status` | `submit` | exceptions the graph queued; ledger |
| Review worker (`graph/review_worker.py`) | none of its own; settles `runs` and `exceptions` | `process` | decisions, graph `resume`, ledger |
| Pure controls (`tools/validation.py`, `matching.py`, `exception_taxonomy.py`, `policy.py`, `gate.py`, `exception_queue.py`, `triage_evidence.py`) | none | one function each | called by graph nodes |
| Near-duplicate detection (`agents/near_duplicate.py`, `tools/similarity_repository.py`) | embeddings in `invoices` | `detect`, `detect_and_store` | gateway, ledger |
| Gateway client (`gateway_client/client.py`, `retry.py`, `guards.py`), budgets (`budgets.py`) and semantic cache (`tools/semantic_cache.py`) | cache rows, per-process cost totals | `complete`, `embed`, retry and fallback, `find`/`store`, `observe` | called by the agents |
| Cassettes (`gateway_client/cassettes.py`) | cassette files and reservations | recording and replaying transports | under the gateway client |
| Role login (`api/auth_store.py`, `db/auth_seed.py`) | `auth_users`, `auth_sessions` | `login`, `resolve`, `logout`, seeding | guards the APIs |
| Ledger (`ledger/`) | append-only events, numbered per run | `append`, reads | every writer |
| Run progress (`api/run_progress_reader.py`) | none | `read` | reads `runs` and the ledger |
| Evaluation (`eval/runners/run_pipeline.py`, `metrics.py`, `diagnostics.py`, `ci_gate.py`, `golden/builder.py`) | reports | upload in batches, process, collect, score, release gate | uploads, `batch_cli`, read APIs |
| ADK engine, OCR and preflight, ERP generator and seed, other read APIs, frontend, telemetry | mostly none | see [what is left out](#what-is-left-out) | |

What is hard about it, and hard to test:

* **Interleaving.** Two invoice workers, two review workers, an API handler and
  an operator act on the same `runs` row; handlers race for a key, a nonce and
  a content hash.
* **Crash and replay.** A node's events and its checkpoint are separate
  commits on separate connections. Every execution may be cut between them.
* **Leases and locks that lapse.** A claim is a 480-second lease, execution is
  guarded by a PostgreSQL session's advisory lock: a suspended process or a
  lost session leaves two executors that both believe they own the run.
* **Stale reads.** The review worker reads a decision, executes a graph for
  minutes and then settles; matching reads the ERP before it looks for its own
  earlier evidence.
* **Lost answers.** A commit whose acknowledgement is lost is retried under
  the same key.
* **Lock order.** Five kinds of transaction take the rows of an invoice and its
  run in two different orders, and one of them an advisory lock first.
* **Shared deadlines.** Attempts, backoff, server hints and a fallback draw on
  one budget of time.
* **Edges in combination.** Six controls with tolerances, bands and a threshold
  stand in a row; what one lets through another must catch.

What makes each component correct:

* *Ingestion*: a content has one invoice and one initial run; a client is told
  only what its key replays for ever; the ledger and the nonces account for
  every success; a run's document exists; waiting requests never deadlock.
* *Attempts*: dead letters, redrives and cycles balance; attempts are bounded;
  settled is final; no row is written that nobody can claim or redrive; every
  run is decided at last.
* *Graph*: a checkpoint never claims what the ledger does not show; evidence is
  recorded once and replays agree with it; approval is justified; one exception
  per run; a signed decision can always be resumed or settled.
* *Decisions and review worker*: two different people, on the same proposal of
  the same exception; keys replay; run, exception and ledger agree; every
  signed decision is carried out.
* *Transactions and ledger*: a number read stays free; of two near duplicates
  one reaches a person; a deadlock costs an attempt, never a run.
* *Controls*: what is approved without a person is owed, and owed once; no result
  is refused by its own model.
* *Gateway*: only outages are retried, and the fallback gets its turn; the cache
  holds primary answers within its bound; one alert per remembered run; a
  cassette is one whole call.
* *Logins*: no session outlives its password; no failure is lost or forgiven.
* *Evaluation*: the labels are what the controls find, whatever the batches'
  overlap; a repetition is no evidence for a release.

`PROJECT.json` lists the hazards with the line where each bites and the
properties that would catch it.

## Modules and the code

Each process has a program counter; one step is one transaction, one statement
or one round trip, since that is where PostgreSQL interleaves the processes.
Operations that raise before they write anything are stuttering steps: only
their negated guards appear. Digests are represented by the values they are
digests of.

**`AttemptStore`** models one run's row. `status`, `error` (the `RetryState`) and
`lease` are the columns; `checkpoint` and `lock` are all the attempt store sees
of the graph. `Begin`/`Continue` are `begin` without and with `continuation`,
`LockBusy`, `ReturnCheckpoint`, `Execute`, `SetupFails` and `Finish` are
`run_once` under the advisory lock, `RecordFailure`, `Settle` and
`StoreRefuses` are the worker's report, and `Redrive`, `ReviewResume` and
`ReviewSettle` the operator and the review worker. The lease is a Boolean ("the
last claim is younger than 480 s"). `SuspendPastLease` says whether it may
expire while a process is still in an attempt: the graph's deadline (at most
450 s) and the delays make that impossible unless the process is suspended, so
both cases are checked. History: `deadLetters`, `deadCycles`, `redriven`
(ledger events), `executions`.

**`RunLifecycle`** is what the attempt store promises to a reader of the row and the
ledger: lives of a bounded number of failures, each ended by settling for good or
by a dead letter of its own, and a redrive for the next. `AttemptStore` is
instantiated over it (`ImplementsLifecycle`): a claim is `Start`, a recorded failure
`Retry` or `Die`, everything a worker does in between a stutter.

**`DurableGraph`** models one run of the graph. `cp` is the latest checkpoint,
`ledger` the committed payloads per event type. An executor enters a node,
reads each of its events (`ReadNothing`, `Replay`, `Mismatch`), commits what it
computed (`Commit` is `append_once` and the audit sinks, `Prepare` is triage's
transaction under the run's row lock), and writes the checkpoint through the
lock's own connection. `Stop` cuts it anywhere; `LoseSession` ends the lock's
session behind its back. `ErpChange` changes the purchase order, which
`Snapshot` reads. Model outputs, similarity and the gate's score are choices, and
so is the gate's route for an eligible policy, which covers a switch of
`auto_approval_enabled` between executions. `ActiveNode` is the node
`run_progress_reader.py` shows as active.

**`Ingestion`** models the handlers of both endpoints: `Upload` and `Email` bring the
key, the content and a signed receipt's nonce, `EmailRefused` and
`SignatureExpires` the receipts that no longer verify; then the fast path of
uploads, the conditional put, and the transaction statement by statement, with the
locks its statements take. Writes become visible at `Commit`, or at a `Recheck` that
replays and spends its nonce, and either's acknowledgement may be lost; `Fail` may end a
request anywhere.

**`IdempotentRegister`** is what ingestion promises to the clients of its endpoints, as a
sequential object: a request waits, and one atomic step answers it, by deciding its key
(`Accept`, `Duplicate`), repeating what the key decided (`Repeat`), refusing (`Refuse`) or
giving up. `Ingestion` is instantiated over it (`ImplementsRegister`): locks, look-ups and
the raw object are stutters. Only `GiveUp` and an unheard `Accept`, `Duplicate` or `Repeat`
report 503, so a failure a client sees never hides half of an ingestion.

**`FourEyes`** models `DecisionService.submit`, one transaction that holds the
key's advisory lock and the rows of run and exception throughout
(`Replay`, `Decide`), and the review worker step by step: the unlocked `Read`,
`Resume`, the two events of the resumed graph, `Settle`. `Pause` and
`ArchiveByRun` are what the invoice worker contributes.

**`SignedDecision`** is what a reader of the rows and the ledger may rely on: per exception
`Await`, `Propose`, `Sign`, `Execute`, `Close`, each once and in this order, with the
outcome of the decision that was signed. `FourEyes` is instantiated over it
(`ImplementsSignedDecision`): a decision is `Propose` or `Sign`, the recorded review
`Execute`, the first settlement `Close`; keys, locks, archive events, repeated
settlements and everything a worker loses are stutters.

**`InvoiceTransactions`** models the transactions that write an invoice, its run and
its ledger as programs of statements (`Program`): the near-duplicate search under
its model's advisory lock, the audit sink, triage, approval, and the duplicate
upload, each ending in the ledger append that locks the run and reads the next
number. PostgreSQL is a queue per lock, a deadlock detector that ends one
transaction of a cycle (`Victim`), and a connection that may break before or after
the commit (`Break`, `CommitUnheard`). `Told` is what a worker or the sender of an
upload does about it, `Retryable` which failures `graph/retry.py` recognises.

**`LoginSessions`** models `PostgresAuthStore`: the account is read `FOR UPDATE` and the
password verified while the transaction is open, so `BeginLogin` and its four ends
are separate steps; `Seed` rotates a credential, `Restart` the session secret. Time
is a clock in steps, with the lockout's and the session's length as constants.

**`MCDatabase`** puts these two side by side. They share no row; `part` picks the one a
behaviour is about.

**`Gateway`** models concurrent logical calls of one client. A call knows what is left
of its deadline; an attempt takes any part of it, `AfterOutage` is the loop's
decision after a retryable failure (backoff, `Retry-After`, the next route, giving
up), `Escalate` everything that is not retried, `Answer` a valid response.
`Probe`, `Hit`, `Miss`, `Insert`, `Trim` and `Commit` are the cache protocol of a public
call. A store is three steps: it inserts, decides what to delete from the rows it sees
(the committed ones and its own), and makes both visible at once. `DeadlinePasses`
is the timer around the whole call.
**`SemanticCache`** has the queries of `tools/semantic_cache.py` as operators on the
set of rows, with vectors on a line; **`GatewayBudgets`** the tracker, observed by
every charged response.

**`Cassettes`** models recording and replaying transports over a directory of
cassettes: the check, the exclusive reservation and the second check of a recorder,
the outcomes of its attempts, a create-only publication, and a replay that must use
up the sequence. Timers and cancellation reach a call while its disk operation is
still running, as they reach `asyncio.shield`ed work. **`MCGateway`** puts live and
recorded calls side by side, again with `part`.

**`InvoiceControls`** has the deterministic controls as operators: `Validation`,
`Checks` and `MatchStatus`, `Taxonomy`, `Reasons` and `Policy`, `MatchDelta`, `Score`
and `Gate`, the queue's `Priority`, and what triage's evidence still names after it
was cut. Money is an integer number of minor units and quotients are compared by
cross multiplication, because `exact_context` makes the code's decimals exact.
**`GoldenCases`** has the labelled cases of `eval/golden/builder.py`, what a model may
misread of them, and the reconciliation with OCR's identifiers.

**`Evaluation`** composes them: `run_pipeline` uploads batches, the workers of a batch
extract, compare, decide and approve side by side, the evidence is collected and
scored (`Metrics`, `Confusion`, `Calibration`, `WouldAuto`), `Released` is the release
gate of `eval/ci_gate.py`, and `Rerun` starts the evaluation again over what it left.
**`MCEvaluation`** chooses suites, bands and the worlds the ERP may be in.

The modules abstract each other: the review in `AttemptStore` is
`ReviewResume`/`ReviewSettle`, the decision in `DurableGraph` is `Accept`, the
graph in `FourEyes` is three variables, the attempts in `InvoiceTransactions` a
counter, the whole durable graph in `Evaluation` four steps of a worker. Each
abstraction allows at least what the other module does.

## Runs and what they show

| Run | Bounds | Question |
|---|---|---|
| `attempts` | 2 workers, 3 attempts, 2 redrives, 2 crashes, no process outlives its lease | cycles and budgets are accounted for, dead letters are quiescent, every run is decided, and row and ledger implement `RunLifecycle` |
| `attempts_suspended` | 2 workers, 2 attempts, 2 redrives, 1 crash, suspension allowed | what survives a process that comes back at any time: dead letters balance, every row can be claimed or redriven, settled rows have a settled graph |
| `graph` | 2 executors, 2 cuts of which 1 may be a lost session, 1 ERP change | evidence behind every checkpoint, checkpoints only advance, replays agree, approval justified, one disposition, progress true, signed decisions resumable, runs finish |
| `ingestion` | 2 handlers, 2 keys, 2 contents, 1 nonce | one run per content, answers replay for ever, events and nonces account for keys, lock waits never form a cycle, clients see an `IdempotentRegister` |
| `decisions` | 2 exceptions, 3 keys, 2 actions, 2 workers, 1 crash | four eyes, agreement of rows, ledger and answers, stale reads, every signed decision settled, each exception a `SignedDecision` |
| `database` | 2 invoices, 1 duplicate upload with 2 tries, 2 embedding models, 3 attempts, 1 fault; 1 account, 2 logins at once, 3 wrong guesses, 1 rotation, 5 clock steps | numbers stay free, near duplicates are seen, deadlocks cost attempts only; sessions know the password, five failures lock |
| `gateway` | 2 calls at once, 3 in all, 2 attempts on each of 2 routes, deadline 5, attempt 2, cache of 1 entry, tracker of 1 run; 2 recorded calls of up to 2 attempts over 2 cassettes | retries and fallback, cache, alerts; cassettes |
| `evaluation` | suites of 2 or 3 samples, 10 codes, 6 worlds, batches of 2, 1 misread field, failed worker or escalation, 2 evaluations | approved is owed, and once; golden labels are what the controls find; the sweep follows the gate; no evidence refused |
| `stale_failure`, `masked_failure`, `graph_repeated_event`, `triage_conflict` | | the disagreements [below](#where-code-and-text-disagree) |

*Why the bounds are enough.* Every race in this code is between two processes on
one row, key, lock or file, so two actors meet in all the ways the code
distinguishes; the duplicate upload is a third beside two workers, because a cycle
of locks may take three. Three attempts are the configured budget and show its first,
middle and last; two redrives give a cycle with both a predecessor and a
successor. Two crashes allow a crash during the recovery from a crash; three
keys allow a stored, an original and a fresh one. Two purchase-order versions
distinguish "the same" from "another", which is all digests tell apart.
`decisions` leaves out RETURN, which is signed like ESCALATE (an analyst's proposal
of any kind will do) and settled like APPROVE (RESOLVED).

The lockout needs a counter that reaches its limit, passes it after the lock has
expired and is cleared: two failures for five, two clock steps for fifteen minutes.
In `gateway` the deadline is two attempts and a delay long, so that the last retry on
the primary is exactly the one that would starve the fallback; a cache of one entry
and a tracker of one run make every second store a trim and every second run an
eviction; a `Retry-After` above the cap is the only hint, since a smaller one acts
like backoff. In `evaluation` each field is misread as nothing, minus one, zero,
one off, the edge of the relative tolerance, a step past it, and far off; the automatic
band ends exactly at the clean invoice's total, the manager's and the director's one
and two above it; received quantities are exact, one short, or split over two
receipts; orders are at the age limit, past it, or in the future. The suites are each
anomaly beside a clean sample, a clean sample with both kinds of duplicate listed
before it, and one with two near duplicates. One fault at a time is what no combination of controls may let through;
several anomalies at once are combinations of misreading and case.

*Deadlock* is checked for `ingestion`, where a new request can always arrive. The
other systems rightly stop: a run is settled, the keys are used up, the bounds
are spent.

*Fairness.*

* `AttemptStore`: a started process goes on (its execution has a deadline), the
  lease's time passes, and somebody invokes the worker for a claimable run (the
  documented recovery, `docs/RETRY_AND_DLQ.md`). Nobody must redrive.
* `DurableGraph`: an execution goes on, and both workers are invoked again while
  there is something to do. Nobody must sign.
* `Ingestion`: strong fairness of a handler's step, because PostgreSQL queues the
  waiters of a lock.
* `FourEyes`: a worker runs its call, and a decision whose run is still paused is
  offered again (the command exits nonzero, and "the signed decision stays queued
  and the worker can be retried"). Strong fairness, because a worker of the model
  is a slot that calls for other decisions also use, while every real call is a
  process of its own.
* `InvoiceTransactions`: an open transaction goes on, a worker begins its next node
  and the sender its upload. Lock queues are explicit, so weak fairness is enough.

Crashes, cuts, lost sessions, faults, rotations, guesses and redrives are bounded,
and never fair. The gateway, the logins and the evaluation have safety properties only.

*What the properties rest on.* A few of the answers are worth knowing:

* `AutoApprovedIsOwed` states what an approved invoice must satisfy without using the
  controls; no single control establishes a clause of it (the sum of lines and taxes,
  for instance, is held by three comparisons with one tolerance each, hence the three
  tolerances in `Owed`). Its second conjunct is a consequence of the weights: the
  threshold of 0.95 leaves a field confidence below 0.90 no way through.
* `NearDuplicateIsSeen` and `OnePaymentPerInvoice` are two sides of one lock: in the first
  the search is concurrent and the rest abstract, in the second the comparison is exact
  and the search one step. Both hold between embeddings of one model only; a switch of
  the embedding model (configuration, a fallback) hides earlier invoices.
* `EveryRunSettles` admits one exception, and it is the code's: a failure inside the
  near-duplicate search ends a run at once (see below).
* `NumberStaysFree` makes `Conflict` (`LedgerConflict`) unreachable: the run's row lock comes before
  the number is read in every transaction.
* `CacheIsSound`: concurrent stores do not see each other's rows, so a namespace may hold one
  row more for each of them; the surplus does not accumulate.
* `GoldenRouting` counts the tax error that the line of a MATH_ERR case makes as well:
  changing a line's net amount also changes its tax.

## Proofs

Eight modules `XProofs`, each beside its `X` (`DatabaseProofs` beside `InvoiceTransactions`
and `LoginSessions`, `EvaluationProofs` beside `Evaluation` and the controls), prove every
safety property the runs check but `GoldenRouting`, for every value of the constants: any
number of workers, executors, handlers, keys, contents, exceptions, accounts, calls or
samples, any tolerance, band and amount, and any number of crashes, lost sessions, faults or
rotations. `PROJECT.json` lists the theorems and the properties they state.

Each proof has the same form: an inductive invariant, one lemma per action (or
per group of actions that write the same things), the theorem `Spec => []IInv` from
them by PTL, and the properties as consequences. What differs, and what is worth reading,
is what the invariant has to say beyond the properties.

**`AttemptStoreProofs`** (`AttemptAssumption`: positive `MaxAttempts`, finite `Keys`,
distinct null values). Without any further assumption, suspended processes included:
type correctness, `SettledGraph`, `NoRowStranded`, `SettledStays`, `DeadLettersBalance`;
assuming `~SuspendPastLease`: `DeadLettersQuiescent`, `FailuresAdvance`, `CyclesAccounted`,
`BudgetKept`, and `LifecycleImplemented`, that the attempt store implements
`RunLifecycle`. The run `stale_failure` shows that the assumption is needed for the
second, and with it for the last: a stale failure takes an abstract life back.
`SettledRunHasSettledGraph` is not inductive, as a process may be about to settle what an
execution returned. `OutcomeFits` says that such a result is where the checkpoint already
is or has gone on from, and `ExecutorHoldsLock` that an executing process holds the
lock. `NoStrandedRow` couples status and `error`. `DeadLetterBalance` needs the used keys
to be finite, for `Cardinality` to grow by one with each redrive. Without suspension,
`InFlight` is the invariant that matters: at most one process is in an attempt, only while
the row is RUNNING, and its claim is the row's next attempt in the row's cycle; each
attempt then executes at most once and ends in a recorded failure or a counted crash.
The refinement maps status to phase, `error.attempts` to failures, the number of used redrive
keys to lives and `deadCycles` to letters. A recorded failure is `Retry` or `Die` because
`InFlight` makes its claim the next attempt, `NoStrandedRow` leaves room for it, and
`CycleHistory` says that the current life has no letter yet.

**`DurableGraphProofs`** (`GraphAssumption`: `Clean` pairs an extraction with an ERP
version, the null value and "escalated" are no extraction). With lost sessions: `IInv`
gives `EvidenceBehindCheckpoint`, `ApprovalIsJustified`, `OneDisposition`,
`SignedDecisionResumable` and `CheckpointAdvances`. The difficulty is an executor that has
lost its lock and still commits. The invariant says what it may be: its state is the one its
node was entered with (`Entry`), of a legal `Shape`, all of which the checkpoint
still has (`Keeps`), plus what this node itself adopted from the ledger
(`Adopted`); only the holder of the lock is sure to be in the checkpointed node
(`LockFits`). A checkpoint takes one branch and never revises it, so whatever such an
executor commits belongs to the branch taken (`BranchesFit`), and `InvoiceFits` and
`RunFits` follow the evidence. Without lost sessions, a second invariant, `SInv`, adds that
the one active executor holds the lock, that each event is in the ledger once if its node is
behind the checkpoint (`Behind`), at most once at the checkpointed node (`Here`) and
never beyond, and that what is there follows from the checkpoint (`Follows`). It gives
`ReplaysAgree` and `ProgressIsTrue`; the run `graph_repeated_event` shows that lost sessions
must be excluded.

**`IngestionProofs`** (`IngestionAssumption`: the null value is no client, key, content,
nonce or stored outcome). `OneRunPerContent`, `EventsAccountForKeys`, and
`AnswersAreStored` (stated here: a client keeps hearing what its key stored).
`ClientFits` is what a handler knows between two statements and must still be true at its
commit: it holds the key's lock from the claim on, so the key has no outcome; the nonce's,
so the nonce is unspent; and the content's, so what it read of the content (no
run, or the run it found) is current. Every other handler writes only under locks it holds
(`Frame`, `OthersFit`). Counting the events needs the outcomes of a run to be finitely many.
From the same invariant, `RegisterImplemented` is the refinement: a lemma for each kind of
answer (`GivesUp`, `Refuses`, `Repeats`, `Decides`) names the register's step it is, and
every other step is `Silent`. That the unspent nonce and the undecided key are still so at
the commit is what `ClientFits` is needed for here.

**`FourEyesProofs`** (`FourEyesAssumption`: finite `Exceptions`, no null worker).
`RecordsAgree`, `ReviewIsSoleSignoff`, `StaleReadSettles` and the action property
`ReviewedIsFrozen` (stated here: it follows from the refinement too). The invariant is a
chain through three kinds of record: a stored signature refers to an earlier proposal of the same exception and there is one per exception
(`DecisionsFit`); what the graph recorded is a signature of its exception (`ReviewsFit`); and
a worker between its unlocked read and its settlement carries a signature of a run that
has paused, which is the one the graph records (`WorkersFit`). There will never be a second
signature, so the stale read stays right. `SignedDecisionImplemented` is the refinement, from
the same invariant: `Signs`, `Executes` and `Closes` name the abstract step, and need from it
that a review is recorded on an unsettled run and that a second settlement writes what the
first one wrote; `Unseen` covers the rest.

**`DatabaseProofs`**, the transactions (`TransactionsAssumption`: positive attempts and tries,
each repeated upload has an original, invoices and uploads are distinct). `NumberStaysFree`,
`NearDuplicateIsSeen` and `NoConflict`, that `LedgerConflict` is never raised. The
invariant relates the statement a transaction is at to the queues it heads: whoever
has read a number heads the queue of the run, whoever has searched heads the queue of its
embedding model until its commit. `Programs` is the lemma that all five transactions end
with the run's lock and the number, in this order.

**`DatabaseProofs`**, the logins (`SessionsAssumption`: positive limits, no null request).
`SessionsKnowThePassword` and `FiveFailuresLock`. An open login holds its account's row, so
the row it read is the row (`LoginsReadTheRow`); every session was opened with the present
password, because a rotation deletes the others in its own transaction; and `failed`
counts the wrong guesses (`CountersFit`), which no concurrent login can overwrite.

**`GatewayProofs`** (`GatewayAssumption`, `BudgetAssumption`, `CacheAssumption`: positive
limits, finitely many concurrent calls, delays that are natural numbers).
`OnlyOutagesAreRetried`, `OneAlertPerRun`, `CacheIsSound`, and `FallbackIsTried` assuming
`FallbackHasTime`, a total timeout above the request timeout. `CallFits`
bounds attempts per route and, on a route before the last, keeps more time than an attempt
takes. `BudgetFits` says that the tracker's order lists each tracked run once and that
alerted means tracked and above the threshold; `ChargedFits` carries it through
billing and eviction. The bound of a cache namespace is the hardest argument of the
project: open stores trim what was visible when they looked, so no bound per step is
inductive. `CacheFits` orders the open stores by when they looked and says that
what one of them will leave, plus the number of those before it, stays within
`MaxEntries + |Tasks| - 1`.

**`CassettesProofs`** (`CassettesAssumption`: some path and some digest, well-formed
committed cassettes). `CassetteIsOneCall`: a reservation is held by one call, a call that
may publish holds it and finds no file, a replaying call has consumed a prefix of
its file, and a published file is the record of a call that has ended, which therefore
never changes again.

**`EvaluationProofs`** (`ControlsAssumption`: null is no number, bands are natural numbers, as
`schemas/policy.py` requires of them; `GoldenAssumption`; `EvaluationAssumption`: manifests are
finite sequences, an ERP's state changes no line of an order, and its receipts hold natural
quantities). `AutoApprovedIsOwed`, `OnePaymentPerInvoice`, `SweepFollowsGate` and
`NoEvidenceRefused`, in five layers:

1. *The gate* (`ApprovedEvidence`): an approving gate saw no reason, so the matching passed, no
   issue was found, and each condition of the policy holds of the reading.
2. *Readings* (`ReadingsFit`): whatever is misread, and whatever the pixels correct of it, an
   amount is an integer or null and a confidence a percentage. From this the gate's terms lie
   between zero and one whatever was read (`FieldTermFits`, `MatchDeltaFits`, `ScoreFits`), which
   is `NoEvidenceRefused`; and a score at the threshold needs every field at 90
   (`FieldAtThreshold`).
3. *Sums.* What is billed, taxed and received are folds. A fold chooses its next element and
   is a recursive function on the subsets of its domain; that such a function exists, agrees
   with the one on a part and is an integer is shown by taking a least counterexample
   (`SmallestSet`, `SumsExist`, `SumsAgree`, `SumIsInteger`), which needs no induction theorem.
   An order has one line, as every golden order does; receipts are any number.
4. *What is owed* (`PassedIsOwed`): that every clause of `Owed` follows from comparisons each
   with its own tolerance (`MatchedEqual`, `MatchedAtMost`, `ValidTotal`). The three tolerances
   of the last clause are the sum of the three comparisons it goes through.
5. *Runs* (`EvaluationInv`). Properties of reports and of pairs of runs are not inductive. The
   invariant adds that a compared run has left its embedding (`StoredFit`); that of two
   compared runs read as one invoice one was told so (`TwinsFit`: the later search sees what
   the earlier one stored); that an upload's answer names a run of the manifest (`AnswersFit`);
   that what is still to upload are positions in it (`BatchFit`); that a record shows a run as
   it fits its status (`ReportFit`); and that evidence is on the side of the decision made of it
   (`RunFits`). `RunsMove` says once what a step may do to the runs, and each part is kept from
   it alone.

*Only model-checked:*

* the liveness properties (`EventuallyDecided`, `RunsFinish`, `EventuallyAnswered`,
  `SignedDecisionSettled`, `EveryRunSettles`): liveness under fairness and `ENABLED` are beyond
  the proof system; so is the absence of deadlock;
* `GoldenRouting`, the one safety property of the runs without a theorem: that the golden labels
  are what the controls find is a statement about the builder's numbers and the
  configured bands, tolerances and targets. It is false of others (a manifest without a clean
  sample has no straight-through rate), so there is nothing to prove for every value of the
  constants, and the run evaluates it at the values it is about;
* that more than one line of an order is summed rightly: the golden orders have one.

No module declares a `RECURSIVE` operator.

## Where code and text disagree

1. `stale_failure`. `failed()` (`graph/worker.py:201`) updates any RUNNING row. A
   process suspended past its lease, whose run another worker has claimed
   meanwhile, records its own attempt and cycle over the newer claim, although
   the same method raises "Claimed run changed before failure recording"
   (`graph/worker.py:222`) for a claim that changed in another way. Adding the
   attempt and cycle to the `WHERE` clause would fence it.
2. `masked_failure`. `agents/extraction.py:199` re-raises a ledger storage failure
   `from None` (`tools/similarity_repository.py:87` a connection failure likewise).
   `root_error` stops there, so the run is dead-lettered on its first attempt;
   `docs/RETRY_AND_DLQ.md` (lines 4 and 13) lists these failures as
   retried. The run `database` shows the second case beside the transactions whose
   failures are retried: `EveryRunSettles` holds only with the disjunct `gaveUp`.
3. `graph_repeated_event`. `append_once` (`graph/live_services.py:102`) looks before
   it takes any lock. When the advisory lock's session has ended under a running
   executor, a second one enters and both append `review.recorded` or
   `workflow.archived`; `docs/INVOICE_WORKFLOW.md:40-41` says neither is
   repeated. The checkpoint itself is safe (`CheckpointAdvances`).
4. `triage_conflict`. `gather_triage_evidence` (`tools/triage_evidence.py:82`) keeps 150 facts,
   and `policy:status` comes after one fact per finding. An extraction may have 500
   lines; with 147 findings the fact is cut, and the check in `agents/triage.py:95` finds no
   BLOCK to hold a proposed APPROVE against. `docs/TRIAGE_AGENT.md:13-14` says such a
   proposal is rejected. The run cuts at 6 facts instead of 150. The consequence is
   small: the draft is advice, the queued action is REVIEW.

Also met while modelling, and not claimed as findings:

* The threshold sweep (`eval/diagnostics.py:214-222`) takes the gate's evidence of the
  invoice a record names; for an exact duplicate that is its parent's, so the rejected
  upload counts as one that would be approved. `docs/EVALUATION.md:148-149` asks "whether an
  anomaly would avoid auto-approval", which a duplicate always does. `SweepFollowsGate`
  says what the sweep does mean.
* `docs/GATEWAY_CLIENT.md` says a retry "stops early when another attempt would leave
  less than one full attempt for a named fallback"; the code stops when another attempt
  would leave nothing (`remaining <= request_timeout + delay`). `FallbackIsTried` holds, but the
  fallback's one attempt may be short.
* The settings do not require `total_timeout_seconds` to exceed `request_timeout_seconds`. If it
  does not, one slow attempt on the primary ends the call and the fallback is never
  tried; this is the assumption `FallbackHasTime` of its theorem.
* The same text bounds a namespace of the semantic cache to 10,000 entries; concurrent
  stores may leave one more each (`CacheIsSound`).
* `_probe_cache` searches with whatever route embedded the prompt, without looking at
  `route_index`; a fallback embedding model would have to share the primary's dimensions
  to matter.
* "Concurrent recorders of the same scenario fail before spending": a recorder whose
  attempt timer fires during its reservation goes on to the upstream and spends, but
  cannot publish (`recordable` is false). Nobody else's recording is lost by it.
* `docs/INGESTION.md:61-62` calls simultaneous new keys "safe without retries". A duplicate
  upload locks the invoice before the run and triage the run before the invoice, so
  PostgreSQL may end the upload, which is then answered 503 and retried under its key.
* Run progress reads status and events in two statements of an autocommit connection; a
  stale PAUSED shows HumanReview although the ledger already has the archive event.
  `ProgressIsTrue` is about the node derived from the ledger.
* A login repeated under its key after a logout opens the session again (the token is
  derived from account, key and secret), as long as the password is right.
* Webhook nonces are never deleted; `docs/schema.md:83` mentions an index for an eventual
  cleanup. `EventsAccountForKeys` would survive one that waits for the receipt window.
* `docs/INVOICE_WORKFLOW.md:50-51` says a timeout marks the run failed; `GraphTimeout`
  is retryable, so it does so only at the last attempt.
* `ReplaysAgree` is claimed while executors keep their lock: two overlapping executors
  can commit different similarity results, after which a replay of the older
  checkpoint stops at `ReplayEvidenceError`.
* ERP data that changes between the matching event and its checkpoint dead-letters
  the run deliberately; a redrive meets the same evidence again. This is why the first
  half of `RunsFinish` excepts it.
* A worker called for a PAUSED run claims nothing (`begin` returns `None`) but still
  runs the graph, and archives it if a review was recorded and the resume cut.
  It is harmless: `SettledRunHasSettledGraph` and `StaleReadSettles` allow for it.
* `RunsFinish` assumes that evidence is replayed by the engine that wrote it.
  Each engine has its own checkpoint, so switching engines starts the graph
  again with a new `as_of`, which the policy digest covers.

## What is left out

* *LangGraph itself.* A checkpoint is one atomic step taken with the node's result;
  the library's pending task writes are not distinguished from it.
* *ADK engine* (`graph/adk_*.py`): the same nodes and lock over a session library.
* *Node Reject*: `load_invoice_state` never sets `duplicate`. *CANCELLED*: no code sets it.
* *`evaluate_provisional_gate`*: no graph calls it.
* *Of the evaluation*: latency (a wall-clock percentile), the triage judge, the baseline,
  dataset preparation, publication and the smoke cassettes; the value of a cost (only
  whether it is known matters to the gate); the release gate's demand for 500 samples
  and matching manifests.
* *Of the extraction*: prompts, the repair round and the text normalisation of matching;
  texts are equal or not.
* *Of the gateway*: the SDK and `aclose`; of cassettes, closing a transport with active
  calls.
* *Of the ledger*: supersession, which no caller uses, and the readers.
* *Pure I/O and parsing*: OCR, preflight, multipart, the other read APIs, frontend,
  telemetry, spend logs, migrations, ERP generation. They keep no state another component
  races for, and a model of them would restate libraries.

## What remains

* `AttemptStore` and `DurableGraph` composed, so that attempts, lease and checkpoints meet
  in one state; each is proved on its own, over an abstraction of the other.
* Orders of several lines: `InvoiceControls` sums over any number of lines, the golden orders
  have one.
