------------------------ MODULE InvoiceTransactions ------------------------
(***************************************************************************)
(* The transactions that write one invoice, its run and its ledger, with   *)
(* the locks they take and the order they take them in: the near-duplicate *)
(* search (agents/near_duplicate.py, tools/similarity_repository.py), the  *)
(* audit sink (ledger/audit.py), triage and approval                       *)
(* (graph/live_services.py) and the duplicate upload                       *)
(* (graph/ingestion.py, tools/ingestion_repository.py); every event is     *)
(* numbered by ledger/writer.py.                                           *)
(*                                                                         *)
(* All invoices here name the same invoice and order numbers and summarise *)
(* alike, so any two of them are near duplicates.  Each has one worker,    *)
(* which the run's session lock admits alone.                              *)
(***************************************************************************)
EXTENDS Naturals, Sequences, FiniteSets, SequencesExt

CONSTANTS
  Invoices,      \* invoices, each with its run and its worker
  Uploads,       \* repeated uploads of an invoice's content
  Original,      \* upload -> the invoice whose content it repeats
  Models,        \* embedding models the gateway may answer with
  Null,
  MaxAttempts,   \* RetryConfig.max_attempts
  Tries,         \* bound: how often the sender of an upload tries
  Faults         \* bound: lost connections and lock waits that time out

ASSUME TransactionsAssumption ==
  MaxAttempts \in Nat \ {0} /\ Tries \in Nat \ {0} /\ Faults \in Nat
  /\ Original \in [Uploads -> Invoices]
  /\ Null \notin Invoices \cup Uploads /\ Invoices \cap Uploads = {}

VARIABLES
  locks,      \* lock -> the writers that want it in their order, the first holds it
  txn,        \* writer -> its open transaction, or Null
  ledger,     \* invoice -> the committed events of its run, near and model of a search
  rows,       \* invoice -> its row: [status, model], model of the stored embedding
  runs,       \* invoice -> [status, attempts, gaveUp]
  uploads,    \* upload -> [status, tries]
  faults      \* lost connections and timed out waits so far

tvars == <<locks, txn, ledger, rows, runs, uploads, faults>>

-----------------------------------------------------------------------------

Writers == Invoices \cup Uploads
InvoiceOf(w) == IF w \in Uploads THEN Original[w] ELSE w
Locks == ({"model"} \X Models) \cup ({"run", "invoice"} \X Invoices)

TInit ==
  /\ locks = [l \in Locks |-> <<>>]
  /\ txn = [w \in Writers |-> Null]
  /\ ledger = [v \in Invoices |->
       <<[number |-> 1, type |-> "ingest", near |-> FALSE, model |-> Null]>>]
  /\ rows = [v \in Invoices |-> [status |-> "QUEUED", model |-> Null]]
  /\ runs = [v \in Invoices |-> [status |-> "RUNNING", attempts |-> 1, gaveUp |-> FALSE]]
  /\ uploads = [u \in Uploads |-> [status |-> "NEW", tries |-> 1]]
  /\ faults = 0

Lock(name, of) == <<"lock", name, of>>

\* Mutant: the next number is read before the run is locked
NumberBeforeLock(v) == << <<"number">>, Lock("run", v) >>

\* LedgerWriter._append: lock the run, then read the next sequence number
AppendTo(v) == << Lock("run", v), <<"number">> >>

\* Mutant: the search is not serialised
SearchUnlocked(v, m) == << <<"search">>, Lock("invoice", v) >>

\* detect_and_store: the advisory lock of the model, the search, the update of the invoice
DetectAndStore(v, m) == << Lock("model", m), <<"search">>, Lock("invoice", v) >>

\* The statements of one transaction up to its insert and commit
Program(task, v, m) ==
  CASE task = "similarity" -> DetectAndStore(v, m) \o AppendTo(v)
    [] task = "audit" -> AppendTo(v)
    [] task = "triage" -> << Lock("run", v), Lock("invoice", v) >> \o AppendTo(v)
    [] task \in {"approve", "duplicate"} -> << Lock("invoice", v) >> \o AppendTo(v)

\* The committed event of a run that has the type, if it has one: EventCache.read
Has(v, type) == \E i \in DOMAIN ledger[v] : ledger[v][i].type = type
Event(v, type) == ledger[v][CHOOSE i \in DOMAIN ledger[v] : ledger[v][i].type = type]

\* What the worker still has to write: a replayed step whose event is committed writes nothing
NextTask(v) ==
  CASE ~Has(v, "similarity") -> "similarity"
    [] Has(v, "similarity") /\ ~Has(v, "audit") -> "audit"
    [] OTHER -> IF Event(v, "similarity").near THEN "triage" ELSE "approve"

Finished(v) == Has(v, "triage") \/ Has(v, "approve")

Open(w, task, m) ==
  txn' = [txn EXCEPT ![w] = [task |-> task, model |-> m, at |-> 1, near |-> FALSE, number |-> 0]]

\* A worker starts the transaction of its next node; the embedding was computed before it
Work(v) ==
  /\ txn[v] = Null /\ runs[v].status = "RUNNING" /\ ~Finished(v)
  /\ \E m \in IF NextTask(v) = "similarity" THEN Models ELSE {Null} : Open(v, NextTask(v), m)
  /\ UNCHANGED <<locks, ledger, rows, runs, uploads, faults>>

\* A duplicate upload: the insert conflicts with the content hash, the original is locked next
Upload(u) ==
  /\ txn[u] = Null /\ uploads[u].status = "NEW"
  /\ Open(u, "duplicate", Null)
  /\ UNCHANGED <<locks, ledger, rows, runs, uploads, faults>>

Statements(w) == Program(txn[w].task, InvoiceOf(w), txn[w].model)
AtLock(w) == txn[w] # Null /\ txn[w].at <= Len(Statements(w)) /\ Statements(w)[txn[w].at][1] = "lock"
Wanted(w) == <<Statements(w)[txn[w].at][2], Statements(w)[txn[w].at][3]>>
Queued(w) == AtLock(w) /\ w \in Range(locks[Wanted(w)])
Granted(w) == Queued(w) /\ Head(locks[Wanted(w)]) = w

\* PostgreSQL queues the writers that want a lock; the first of them holds it
AskForLock(w) ==
  /\ AtLock(w) /\ ~Queued(w)
  /\ locks' = [locks EXCEPT ![Wanted(w)] = Append(@, w)]
  /\ UNCHANGED <<txn, ledger, rows, runs, uploads, faults>>

TakeLock(w) ==
  /\ Granted(w)
  /\ txn' = [txn EXCEPT ![w].at = @ + 1]
  /\ UNCHANGED <<locks, ledger, rows, runs, uploads, faults>>

\* The statement of a transaction that is not a lock
AtQuery(w, query) ==
  txn[w] # Null /\ txn[w].at <= Len(Statements(w)) /\ Statements(w)[txn[w].at] = query

\* A READ COMMITTED query of the committed embeddings of the same model
Search(w) ==
  /\ AtQuery(w, <<"search">>)
  /\ LET t == txn[w]
         found == \E x \in Invoices \ {InvoiceOf(w)} : rows[x].model = t.model
     IN txn' = [txn EXCEPT ![w] = [t EXCEPT !.at = t.at + 1, !.near = found]]
  /\ UNCHANGED <<locks, ledger, rows, runs, uploads, faults>>

\* A READ COMMITTED query of the highest number of the run
ReadNumber(w) ==
  /\ AtQuery(w, <<"number">>)
  /\ LET t == txn[w]
         next == Len(ledger[InvoiceOf(w)]) + 1
     IN txn' = [txn EXCEPT ![w] = [t EXCEPT !.at = t.at + 1, !.number = next]]
  /\ UNCHANGED <<locks, ledger, rows, runs, uploads, faults>>

\* The queue without the writer, which is in it once if at all
Without(q, w) ==
  IF w \in Range(q) THEN RemoveAt(q, CHOOSE i \in DOMAIN q : q[i] = w) ELSE q

Release(w) == [l \in Locks |-> Without(locks[l], w)]

\* The last insert and the commit: the event, the row, and the answer of an upload
Committed(w) ==
  LET v == InvoiceOf(w)
      t == txn[w]
  IN /\ txn[w] # Null /\ t.at > Len(Statements(w))
     /\ t.number = Len(ledger[v]) + 1
     /\ ledger' = [ledger EXCEPT ![v] = Append(@,
          [number |-> t.number, type |-> t.task, near |-> t.near, model |-> t.model])]
     /\ rows' = [rows EXCEPT ![v] =
          CASE t.task = "similarity" -> [@ EXCEPT !.model = t.model]
            [] t.task = "triage" -> [@ EXCEPT !.status = "NEEDS_REVIEW"]
            [] t.task = "approve" -> [@ EXCEPT !.status = "APPROVED"]
            [] OTHER -> @]
     /\ locks' = Release(w)
     /\ txn' = [txn EXCEPT ![w] = Null]

Commit(w) ==
  /\ Committed(w)
  /\ uploads' = IF w \in Uploads THEN [uploads EXCEPT ![w].status = "ANSWERED"] ELSE uploads
  /\ runs' = IF w \in Uploads \/ txn[w].task \notin {"triage", "approve"} THEN runs
             ELSE [runs EXCEPT ![w].status = "SETTLED"]
  /\ UNCHANGED faults

\* Mutant: a deadlock or a lost connection is no infrastructure failure
NeverRetryable(w) == FALSE

\* is_infrastructure_error of what the writer's failed transaction raises: what fails inside
\* detect_and_store is a SimilarityRepositoryError and is not one
Retryable(w) == ~(txn[w].task = "similarity" /\ txn[w].at <= 3)

\* The writer's session sees its transaction fail; a sender that was told 503 may try again
Told(w) ==
  IF w \in Uploads
  THEN /\ uploads' = [uploads EXCEPT ![w] =
            IF @.tries < Tries THEN [@ EXCEPT !.tries = @ + 1] ELSE [@ EXCEPT !.status = "FAILED"]]
       /\ UNCHANGED runs
  ELSE /\ runs' = [runs EXCEPT ![w] =
            IF Retryable(w) /\ @.attempts < MaxAttempts THEN [@ EXCEPT !.attempts = @ + 1]
            ELSE [@ EXCEPT !.status = "FAILED", !.gaveUp = ~Retryable(w)]]
       /\ UNCHANGED uploads

RolledBack(w) ==
  /\ locks' = Release(w)
  /\ txn' = [txn EXCEPT ![w] = Null]
  /\ UNCHANGED <<ledger, rows>>

\* The insert finds its number taken (uq_ledger_run_sequence): LedgerConflict ends the run
Conflict(w) ==
  /\ txn[w] # Null /\ txn[w].at > Len(Statements(w)) /\ txn[w].number # Len(ledger[InvoiceOf(w)]) + 1
  /\ RolledBack(w)
  /\ runs' = IF w \in Uploads THEN runs ELSE [runs EXCEPT ![w].status = "FAILED"]
  /\ uploads' = IF w \in Uploads THEN [uploads EXCEPT ![w].status = "FAILED"] ELSE uploads
  /\ UNCHANGED faults

\* PostgreSQL ends one of the transactions of a cycle of waits
Waiting == {w \in Writers : Queued(w) /\ ~Granted(w)}
Cyclic(w) ==
  LET next == [x \in Waiting |-> Head(locks[Wanted(x)])]
      chain[n \in 0 .. Cardinality(Writers)] ==
        IF n = 0 THEN w ELSE IF chain[n - 1] \in DOMAIN next THEN next[chain[n - 1]] ELSE Null
  IN \E n \in 1 .. Cardinality(Writers) : chain[n] = w

Victim(w) == w \in Waiting /\ Cyclic(w) /\ RolledBack(w) /\ Told(w) /\ UNCHANGED faults

\* lock_timeout, statement_timeout, an asyncio timeout or a lost connection
Break(w) ==
  /\ txn[w] # Null /\ faults < Faults
  /\ RolledBack(w) /\ Told(w)
  /\ faults' = faults + 1

\* The commit is done and the connection lost before the writer hears of it: the worker's next
\* attempt finds the event, a repeated upload finds its stored answer
CommitUnheard(w) ==
  /\ faults < Faults
  /\ Committed(w)
  /\ IF w \in Uploads THEN uploads' = [uploads EXCEPT ![w].status = "ANSWERED"] /\ UNCHANGED runs
     ELSE Told(w)
  /\ faults' = faults + 1

\* An attempt that finds the last event of its run committed settles it
Settle(v) ==
  /\ txn[v] = Null /\ runs[v].status = "RUNNING" /\ Finished(v)
  /\ runs' = [runs EXCEPT ![v].status = "SETTLED"]
  /\ UNCHANGED <<locks, txn, ledger, rows, uploads, faults>>

Progress(w) ==
  \/ AskForLock(w) \/ TakeLock(w) \/ Search(w) \/ ReadNumber(w)
  \/ Commit(w) \/ Conflict(w) \/ Victim(w)

TNext ==
  \/ \E v \in Invoices : Work(v) \/ Settle(v)
  \/ \E u \in Uploads : Upload(u)
  \/ \E w \in Writers : Progress(w) \/ Break(w) \/ CommitUnheard(w)

\* Open transactions go on, a worker and a sender begin what is theirs
TFairness ==
  /\ \A w \in Writers : WF_tvars(Progress(w))
  /\ \A v \in Invoices : WF_tvars(Work(v) \/ Settle(v))
  /\ \A u \in Uploads : WF_tvars(Upload(u))

-----------------------------------------------------------------------------

\* The number a transaction has read stays free until it commits, whoever else appends to the
\* run: uq_ledger_run_sequence never fails an append, which would end the run for good.
NumberStaysFree ==
  \A w \in Writers :
    txn[w] # Null /\ txn[w].number > 0 => txn[w].number = Len(ledger[InvoiceOf(w)]) + 1

\* Of invoices that are near duplicates at most one is approved without a person, whatever the
\* overlap of their searches, unless their embeddings are of different models: the search
\* compares the vectors of one model only.
NearDuplicateIsSeen ==
  \A v, x \in Invoices :
    v # x /\ rows[v].status = "APPROVED" /\ rows[x].status = "APPROVED" =>
      Event(v, "similarity").model # Event(x, "similarity").model

\* Lock waits end: triage takes the run before the invoice, approval and a duplicate upload the
\* invoice before the run, so two of them may deadlock; PostgreSQL ends one and the worker's
\* next attempt or the sender's next try succeeds.  Without timeouts and lost connections every
\* run settles; with them a run fails only with its attempts spent, or inside the near-duplicate
\* search, whose failures are not retried.
RunsSettle ==
  <>[](\A v \in Invoices :
         \/ runs[v].status = "SETTLED"
         \/ /\ faults > 0 /\ runs[v].status = "FAILED"
            /\ runs[v].attempts = MaxAttempts \/ runs[v].gaveUp)
=============================================================================
