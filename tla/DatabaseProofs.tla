--------------------------- MODULE DatabaseProofs ---------------------------
(***************************************************************************)
(* Proofs about the two parts of the database that share no row: the       *)
(* transactions of an invoice (InvoiceTransactions), for every set of      *)
(* invoices, repeated uploads and embedding models, every number of        *)
(* attempts, tries and faults; and the role logins (LoginSessions), for    *)
(* every set of accounts, requests, keys and secrets, every lock time and  *)
(* every number of failures, rotations and guesses.                        *)
(***************************************************************************)
EXTENDS InvoiceTransactions, LoginSessions, SequenceTheorems, TLAPS

-----------------------------------------------------------------------------
(* The transactions of an invoice *)

USE TransactionsAssumption

TransactionsSpec == TInit /\ [][TNext]_tvars

Tasks == {"similarity", "audit", "triage", "approve", "duplicate"}
Transactions == [task: Tasks, model: Models \cup {Null}, at: Nat \ {0}, near: BOOLEAN, number: Nat]
Entries == [number: Nat, type: Tasks \cup {"ingest"}, near: BOOLEAN, model: Models \cup {Null}]
Rows == [status: {"QUEUED", "NEEDS_REVIEW", "APPROVED"}, model: Models \cup {Null}]

(* The statements of a transaction t of writer w. *)
Steps(w, t) == Program(t.task, InvoiceOf(w), t.model)

(* A writer holds the lock whose queue it heads. *)
HeldBy(q, w) == q # <<>> /\ Head(q) = w

(* A sequence of statements with two more behind it. *)
LEMMA TwoMore ==
    ASSUME NEW S, NEW q \in Seq(S), NEW d \in S, NEW e \in S, NEW p, p = q \o <<d, e>>
    PROVE  /\ Len(p) = Len(q) + 2
           /\ p[Len(q) + 1] = d /\ p[Len(q) + 2] = e
           /\ \A i \in 1 .. Len(q) : p[i] = q[i]
<1>0. <<d, e>> \in Seq(S)
  OBVIOUS
<1>1. PICK r \in Seq(S) : r = <<d, e>>
  BY <1>0
<1>2. Len(r) = 2 /\ r[1] = d /\ r[2] = e
  BY <1>1
<1>3. /\ Len(p) = Len(q) + 2
      /\ \A i \in 1 .. Len(q) + 2 : p[i] = IF i <= Len(q) THEN q[i] ELSE r[i - Len(q)]
  BY <1>1, <1>2, ConcatProperties
<1>4. QED
  BY <1>2, <1>3

(* The number is the last statement of every transaction and the lock of    *)
(* the run the one before; only the near-duplicate search reads embeddings, *)
(* behind the lock of its model.                                            *)
LEMMA Programs ==
    ASSUME NEW task \in Tasks, NEW v \in Invoices, NEW m,
           NEW p, p = Program(task, v, m)
    PROVE  /\ Len(p) \in Nat /\ Len(p) >= 2
           /\ p[Len(p)] = <<"number">>
           /\ p[Len(p) - 1] = Lock("run", v)
           /\ \A k \in 1 .. Len(p) - 1 :
                 \/ p[k] \in {Lock("run", v), Lock("invoice", v)}
                 \/ task = "similarity" /\ k = 1 /\ p[k] = Lock("model", m)
                 \/ task = "similarity" /\ k = 2 /\ p[k] = <<"search">>
           /\ task = "similarity" => Len(p) = 5 /\ p[1] = Lock("model", m) /\ p[2] = <<"search">>
<1>1. PICK number, search, run, invoice, model :
          /\ number = <<"number">> /\ search = <<"search">>
          /\ run = Lock("run", v) /\ invoice = Lock("invoice", v) /\ model = Lock("model", m)
  OBVIOUS
<1> PICK S : /\ number \in S /\ search \in S /\ run \in S /\ invoice \in S /\ model \in S
  <2>1. WITNESS {number, search, run, invoice, model}
  <2>2. QED
    OBVIOUS
<1>2. AppendTo(v) = <<run, number>>
  BY <1>1 DEF AppendTo
<1>3. CASE task = "similarity"
  <2>0. << model, search, invoice >> \in Seq(S)
    OBVIOUS
  <2>1. PICK q \in Seq(S) : q = << model, search, invoice >>
    BY <2>0
  <2>2. Len(q) = 3 /\ q[1] = model /\ q[2] = search /\ q[3] = invoice
    BY <2>1
  <2>3. q = DetectAndStore(v, m)
    BY <1>1, <2>1 DEF DetectAndStore
  <2>4. p = DetectAndStore(v, m) \o AppendTo(v)
    BY <1>3 DEF Program
  <2>5. p = q \o <<run, number>>
    BY <1>2, <2>3, <2>4
  <2>6. /\ Len(p) = 5 /\ p[1] = model /\ p[2] = search /\ p[3] = invoice
        /\ p[4] = run /\ p[5] = number
    <3>1. /\ Len(p) = Len(q) + 2 /\ p[Len(q) + 1] = run /\ p[Len(q) + 2] = number
          /\ \A i \in 1 .. Len(q) : p[i] = q[i]
      BY <2>5, TwoMore
    <3>2. QED
      BY <2>2, <3>1
  <2>7. \A k \in 1 .. Len(p) - 1 :
           p[k] \in {run, invoice} \/ (k = 1 /\ p[k] = model) \/ (k = 2 /\ p[k] = search)
    BY <2>6
  <2>8. /\ Len(p) \in Nat /\ Len(p) >= 2
        /\ p[Len(p)] = number /\ p[Len(p) - 1] = run
    BY <2>6
  <2>9. QED
    BY <1>1, <1>3, <2>6, <2>7, <2>8
<1>4. CASE task = "audit"
  <2>0. p = AppendTo(v)
    BY <1>4 DEF Program
  <2>1. p = << run, number >>
    BY <1>2, <2>0
  <2>2. Len(p) = 2 /\ p[1] = run /\ p[2] = number
    BY <2>1
  <2>3. \A k \in 1 .. Len(p) - 1 : p[k] = run
    BY <2>2
  <2>4. QED
    BY <1>1, <1>4, <2>2, <2>3
<1>5. CASE task = "triage"
  <2>0. << run, invoice >> \in Seq(S)
    OBVIOUS
  <2>1. PICK q \in Seq(S) : q = << run, invoice >>
    BY <2>0
  <2>2. Len(q) = 2 /\ q[1] = run /\ q[2] = invoice
    BY <2>1
  <2>3. p = q \o <<run, number>>
    <3>1. p = << Lock("run", v), Lock("invoice", v) >> \o AppendTo(v)
      BY <1>5 DEF Program
    <3>2. QED
      BY <1>1, <1>2, <2>1, <3>1
  <2>4. Len(p) = 4 /\ p[1] = run /\ p[2] = invoice /\ p[3] = run /\ p[4] = number
    <3>1. /\ Len(p) = Len(q) + 2 /\ p[Len(q) + 1] = run /\ p[Len(q) + 2] = number
          /\ \A i \in 1 .. Len(q) : p[i] = q[i]
      BY <2>3, TwoMore
    <3>2. QED
      BY <2>2, <3>1
  <2>5. \A k \in 1 .. Len(p) - 1 : p[k] \in {run, invoice}
    BY <2>4
  <2>6. /\ Len(p) \in Nat /\ Len(p) >= 2
        /\ p[Len(p)] = number /\ p[Len(p) - 1] = run
    BY <2>4
  <2>7. QED
    BY <1>1, <1>5, <2>5, <2>6
<1>6. CASE task \in {"approve", "duplicate"}
  <2>0. << invoice >> \in Seq(S)
    OBVIOUS
  <2>1. PICK q \in Seq(S) : q = << invoice >>
    BY <2>0
  <2>2. Len(q) = 1 /\ q[1] = invoice
    BY <2>1
  <2>3. p = q \o <<run, number>>
    <3>1. p = << Lock("invoice", v) >> \o AppendTo(v)
      BY <1>6 DEF Program
    <3>2. QED
      BY <1>1, <1>2, <2>1, <3>1
  <2>4. Len(p) = 3 /\ p[1] = invoice /\ p[2] = run /\ p[3] = number
    <3>1. /\ Len(p) = Len(q) + 2 /\ p[Len(q) + 1] = run /\ p[Len(q) + 2] = number
          /\ \A i \in 1 .. Len(q) : p[i] = q[i]
      BY <2>3, TwoMore
    <3>2. QED
      BY <2>2, <3>1
  <2>5. \A k \in 1 .. Len(p) - 1 : p[k] \in {run, invoice}
    BY <2>4
  <2>6. /\ Len(p) \in Nat /\ Len(p) >= 2
        /\ p[Len(p)] = number /\ p[Len(p) - 1] = run
    BY <2>4
  <2>7. QED
    BY <1>1, <1>6, <2>5, <2>6
<1>7. QED
  BY <1>3, <1>4, <1>5, <1>6 DEF Tasks

(* Who leaves a queue that another writer heads leaves it heading the queue. *)
LEMMA WithoutKeeps ==
    ASSUME NEW q \in Seq(Writers), NEW w
    PROVE  /\ Without(q, w) \in Seq(Writers)
           /\ \A x : x # w /\ HeldBy(q, x) => HeldBy(Without(q, w), x)
<1>1. CASE w \notin Range(q)
  BY <1>1 DEF Without
<1>2. CASE w \in Range(q)
  <2>1. PICK i \in 1 .. Len(q) : i = (CHOOSE j \in DOMAIN q : q[j] = w) /\ q[i] = w
    BY <1>2 DEF Range
  <2>2. Without(q, w) = SubSeq(q, 1, i - 1) \o SubSeq(q, i + 1, Len(q))
    BY <1>2, <2>1 DEF Without, RemoveAt
  <2>3. SubSeq(q, 1, i - 1) \in Seq(Writers) /\ SubSeq(q, i + 1, Len(q)) \in Seq(Writers)
    BY <2>1, SubSeqProperties
  <2>4. Without(q, w) \in Seq(Writers)
    BY <2>2, <2>3, ConcatProperties
  <2>5. ASSUME NEW x, x # w, HeldBy(q, x)
        PROVE  HeldBy(Without(q, w), x)
    <3>1. i > 1
      BY <2>1, <2>5 DEF HeldBy
    <3>2. /\ Len(SubSeq(q, 1, i - 1)) = i - 1
          /\ SubSeq(q, 1, i - 1)[1] = q[1]
      BY <2>1, <3>1, SubSeqProperties
    <3>3. Len(Without(q, w)) >= 1 /\ Without(q, w)[1] = q[1]
      BY <2>1, <2>2, <2>3, <3>1, <3>2, ConcatProperties
    <3>4. QED
      BY <2>4, <2>5, <3>3 DEF HeldBy
  <2>6. QED
    BY <2>4, <2>5
<1>3. QED
  BY <1>1, <1>2

-----------------------------------------------------------------------------

Types ==
    /\ locks \in [Locks -> Seq(Writers)]
    /\ txn \in [Writers -> Transactions \cup {Null}]
    /\ ledger \in [Invoices -> Seq(Entries)]
    /\ rows \in [Invoices -> Rows]

(* What a transaction t of writer w has read and locked. *)
Fits(w, t) ==
    LET v == InvoiceOf(w)
        n == Len(Steps(w, t))
    IN /\ t.task = "duplicate" <=> w \in Uploads
       /\ t.at >= n => HeldBy(locks[<<"run", v>>], w)
       /\ t.number > 0 <=> t.at > n
       /\ t.number > 0 => t.number = Len(ledger[v]) + 1
       /\ t.task = "similarity" =>
             /\ t.model \in Models
             /\ ~Has(v, "similarity")
             /\ t.at >= 2 => HeldBy(locks[<<"model", t.model>>], w)
             /\ t.at > 2 /\ ~t.near => \A x \in Invoices \ {v} : rows[x].model # t.model
       /\ t.task = "approve" => Has(v, "similarity") /\ ~Event(v, "similarity").near

TransactionsFit == \A w \in Writers : txn[w] # Null => Fits(w, txn[w])

(* The search of an invoice has one committed event, which the row repeats, *)
(* and an approved invoice had no near duplicate.                           *)
RowsFit ==
    \A v \in Invoices :
        /\ \A i, j \in DOMAIN ledger[v] :
              ledger[v][i].type = "similarity" /\ ledger[v][j].type = "similarity" => i = j
        /\ Has(v, "similarity") => rows[v].model = Event(v, "similarity").model
        /\ rows[v].status = "APPROVED" => Has(v, "similarity") /\ ~Event(v, "similarity").near

(* Of two searches that found nothing the vectors are of different models.  *)
NothingFoundOnce ==
    \A v, x \in Invoices :
        /\ v # x
        /\ Has(v, "similarity") /\ ~Event(v, "similarity").near
        /\ Has(x, "similarity") /\ ~Event(x, "similarity").near
        => Event(v, "similarity").model # Event(x, "similarity").model

TInv == Types /\ TransactionsFit /\ RowsFit /\ NothingFoundOnce

(* The statements of a transaction in progress. *)
LEMMA StatementsOf ==
    ASSUME NEW w \in Writers, NEW t \in Transactions
    PROVE  /\ InvoiceOf(w) \in Invoices
           /\ Len(Steps(w, t)) \in Nat /\ Len(Steps(w, t)) >= 2
           /\ t.task = "similarity" => Len(Steps(w, t)) = 5
BY Programs DEF Writers, InvoiceOf, Steps, Transactions

LEMMA LockNames ==
    /\ \A v \in Invoices : <<"run", v>> \in Locks
    /\ \A m \in Models : <<"model", m>> \in Locks
BY DEF Locks

(* A step of one transaction that commits nothing: it takes no lock from    *)
(* another writer, and what it has read and locked fits.                    *)
LEMMA QuietStep ==
    ASSUME TInv, NEW w \in Writers, NEW n \in Transactions \cup {Null},
           ledger' = ledger, rows' = rows, txn' = [txn EXCEPT ![w] = n],
           locks' \in [Locks -> Seq(Writers)],
           \A l \in Locks, d \in Writers :
              d # w /\ HeldBy(locks[l], d) => HeldBy(locks'[l], d),
           n # Null => Fits(w, n)'
    PROVE  TInv'
<1> USE DEF TInv
<1>1. /\ txn' \in [Writers -> Transactions \cup {Null}]
      /\ txn'[w] = n
      /\ \A d \in Writers : d # w => txn'[d] = txn[d]
  BY DEF Types
<1>2. Types'
  BY <1>1 DEF Types
<1>3. ASSUME NEW d \in Writers, d # w, txn[d] # Null
      PROVE  Fits(d, txn[d])'
  <2>1. PICK t \in Transactions : t = txn[d]
    BY <1>3 DEF Types
  <2>2. Fits(d, t)
    BY <1>3, <2>1 DEF TransactionsFit
  <2>3. /\ HeldBy(locks[<<"run", InvoiceOf(d)>>], d) =>
              HeldBy(locks'[<<"run", InvoiceOf(d)>>], d)
        /\ t.model \in Models /\ HeldBy(locks[<<"model", t.model>>], d) =>
              HeldBy(locks'[<<"model", t.model>>], d)
    BY <1>3, StatementsOf, LockNames
  <2>4. Fits(d, t)'
    BY <2>2, <2>3 DEF Fits, Has, Event
  <2>5. QED
    BY <1>1, <1>3, <2>1, <2>4
<1>4. TransactionsFit'
  BY <1>1, <1>3 DEF TransactionsFit
<1>5. RowsFit' /\ NothingFoundOnce'
  <2>1. \A v : Has(v, "similarity")' = Has(v, "similarity")
                /\ Event(v, "similarity")' = Event(v, "similarity")
    BY Zenon DEF Has, Event
  <2>2. QED
    BY <2>1 DEF RowsFit, NothingFoundOnce
<1>6. QED
  BY <1>2, <1>4, <1>5

(* A new transaction has read and locked nothing.                           *)
LEMMA OpenStep ==
    ASSUME TInv, NEW w \in Writers, NEW task \in Tasks, NEW m \in Models \cup {Null},
           Open(w, task, m), locks' = locks, ledger' = ledger, rows' = rows,
           task = "duplicate" <=> w \in Uploads,
           task = "similarity" => m \in Models /\ ~Has(InvoiceOf(w), "similarity"),
           task = "approve" => /\ Has(InvoiceOf(w), "similarity")
                               /\ ~Event(InvoiceOf(w), "similarity").near
    PROVE  TInv'
<1>0. [task |-> task, model |-> m, at |-> 1, near |-> FALSE, number |-> 0] \in Transactions
  BY DEF Transactions
<1>1. PICK n \in Transactions :
          n = [task |-> task, model |-> m, at |-> 1, near |-> FALSE, number |-> 0]
  BY <1>0
<1>2. /\ txn' = [txn EXCEPT ![w] = n]
      /\ n.task = task /\ n.model = m /\ n.at = 1 /\ n.number = 0
  BY <1>1 DEF Open
<1>3. Fits(w, n)'
  BY <1>2, StatementsOf DEF Fits, Has, Event
<1>4. QED
  BY <1>2, <1>3, QuietStep DEF TInv, Types

(* A worker takes the next step of its run, an upload repeats a content.    *)
LEMMA BeginStep ==
    ASSUME TInv, (\E v \in Invoices : Work(v)) \/ (\E u \in Uploads : Upload(u))
    PROVE  TInv'
<1>1. ASSUME NEW v \in Invoices, Work(v)
      PROVE  TInv'
  <2>1. PICK m : /\ m \in IF NextTask(v) = "similarity" THEN Models ELSE {Null}
                 /\ Open(v, NextTask(v), m)
                 /\ locks' = locks /\ ledger' = ledger /\ rows' = rows
    BY <1>1 DEF Work
  <2>2. v \in Writers /\ v \notin Uploads /\ InvoiceOf(v) = v
    BY DEF Writers, InvoiceOf
  <2>3. /\ NextTask(v) \in Tasks \ {"duplicate"}
        /\ NextTask(v) = "similarity" => ~Has(v, "similarity")
        /\ NextTask(v) = "approve" => Has(v, "similarity") /\ ~Event(v, "similarity").near
    BY DEF NextTask, Tasks
  <2>4. QED
    BY <2>1, <2>2, <2>3, OpenStep
<1>2. ASSUME NEW u \in Uploads, Upload(u)
      PROVE  TInv'
  <2>1. u \in Writers
    BY DEF Writers
  <2>2. /\ Open(u, "duplicate", Null)
        /\ locks' = locks /\ ledger' = ledger /\ rows' = rows
    BY <1>2 DEF Upload
  <2>3. QED
    BY <2>1, <2>2, OpenStep DEF Tasks
<1>3. QED
  BY <1>1, <1>2

(* A writer joins the end of the queue of a lock. *)
LEMMA AskStep ==
    ASSUME TInv, NEW w \in Writers, AskForLock(w)
    PROVE  TInv'
<1>1. PICK l : l = Wanted(w)
  OBVIOUS
<1>2. PICK t \in Transactions : t = txn[w]
  BY DEF AskForLock, AtLock, TInv, Types
<1>3. /\ t # Null /\ txn' = txn /\ ledger' = ledger /\ rows' = rows
      /\ locks' = [locks EXCEPT ![l] = Append(@, w)]
  BY <1>1, <1>2 DEF AskForLock, AtLock
<1>4. locks' \in [Locks -> Seq(Writers)]
  <2>1. \A q \in Seq(Writers) : Append(q, w) \in Seq(Writers)
    OBVIOUS
  <2>2. QED
    BY <1>3, <2>1 DEF TInv, Types
<1>5. \A k \in Locks : \A d : HeldBy(locks[k], d) => HeldBy(locks'[k], d)
  <2>1. \A q \in Seq(Writers) : \A d : HeldBy(q, d) => HeldBy(Append(q, w), d)
    BY AppendProperties DEF HeldBy
  <2>2. QED
    BY <1>3, <2>1 DEF TInv, Types
<1>6. Fits(w, t)'
  <2>1. Fits(w, t)
    BY <1>2, <1>3 DEF TInv, TransactionsFit
  <2>2. /\ HeldBy(locks[<<"run", InvoiceOf(w)>>], w) => HeldBy(locks'[<<"run", InvoiceOf(w)>>], w)
        /\ t.model \in Models /\ HeldBy(locks[<<"model", t.model>>], w) =>
              HeldBy(locks'[<<"model", t.model>>], w)
    BY <1>5, StatementsOf, LockNames
  <2>3. QED
    BY <1>3, <2>1, <2>2 DEF Fits, Has, Event
<1>7. txn' = [txn EXCEPT ![w] = t]
  BY <1>2, <1>3 DEF TInv, Types
<1>8. QED
  BY <1>3, <1>4, <1>5, <1>6, <1>7, QuietStep

(* The head of a queue goes on with the lock.                               *)
LEMMA TakeStep ==
    ASSUME TInv, NEW w \in Writers, TakeLock(w)
    PROVE  TInv'
<1>1. PICK t \in Transactions : t = txn[w]
  BY DEF TakeLock, Granted, Queued, AtLock, TInv, Types
<1>2. PICK p : p = Steps(w, t)
  OBVIOUS
<1>3. PICK n : n = [t EXCEPT !.at = @ + 1]
  OBVIOUS
<1>4. PICK l : l = Wanted(w)
  OBVIOUS
<1>5. /\ t # Null /\ t.at <= Len(p) /\ p[t.at][1] = "lock"
      /\ l = <<p[t.at][2], p[t.at][3]>>
      /\ w \in Range(locks[l]) /\ Head(locks[l]) = w
  BY <1>1, <1>2, <1>4 DEF TakeLock, Granted, Queued, AtLock, Wanted, Statements, Steps
<1>6. txn' = [txn EXCEPT ![w] = n] /\ locks' = locks /\ ledger' = ledger /\ rows' = rows
  BY <1>1, <1>3 DEF TakeLock
<1>7. /\ n \in Transactions /\ n.at = t.at + 1 /\ n.task = t.task /\ n.model = t.model
      /\ n.near = t.near /\ n.number = t.number
  BY <1>3 DEF Transactions
<1>8. InvoiceOf(w) \in Invoices /\ t.task \in Tasks /\ t.at \in Nat \ {0} /\ t.number \in Nat
  BY StatementsOf DEF Transactions
<1>9. Fits(w, t)
  BY <1>1, <1>5 DEF TInv, TransactionsFit
<1>10. /\ Len(p) \in Nat /\ Len(p) >= 2
       /\ p[Len(p)] = <<"number">>
       /\ p[Len(p) - 1] = Lock("run", InvoiceOf(w))
       /\ t.task = "similarity" =>
             Len(p) = 5 /\ p[1] = Lock("model", t.model) /\ p[2] = <<"search">>
  BY <1>2, <1>8, Programs DEF Steps
<1>11. l \in Locks => HeldBy(locks[l], w)
  <2>1. \A q \in Seq(Writers) : w \in Range(q) /\ Head(q) = w => HeldBy(q, w)
    BY DEF HeldBy, Range
  <2>2. QED
    BY <1>5, <2>1 DEF TInv, Types
<1>12. t.at # Len(p)
  BY <1>5, <1>10
<1>13. t.at = Len(p) - 1 => HeldBy(locks[<<"run", InvoiceOf(w)>>], w)
  BY <1>5, <1>8, <1>10, <1>11, LockNames DEF Lock
<1>14. t.task = "similarity" => /\ t.at # 2
                                /\ t.at = 1 => HeldBy(locks[<<"model", t.model>>], w)
  BY <1>5, <1>9, <1>10, <1>11, LockNames, SMTT(20) DEF Lock, Fits
<1>15. Fits(w, n)
  BY <1>2, <1>5, <1>7, <1>8, <1>9, <1>10, <1>12, <1>13, <1>14, SMTT(20) DEF Fits, Steps
<1>16. Fits(w, n)'
  BY <1>6, <1>15 DEF Fits, Has, Event
<1>17. QED
  BY <1>6, <1>7, <1>16, QuietStep DEF TInv, Types

(* The query of the embeddings, behind the lock of their model.             *)
LEMMA SearchStep ==
    ASSUME TInv, NEW w \in Writers, Search(w)
    PROVE  TInv'
<1>1. PICK t \in Transactions : t = txn[w]
  BY DEF Search, AtQuery, TInv, Types
<1>2. PICK p : p = Steps(w, t)
  OBVIOUS
<1>3. PICK v \in Invoices : v = InvoiceOf(w)
  BY StatementsOf
<1>4. PICK b \in BOOLEAN : b = \E x \in Invoices \ {v} : rows[x].model = t.model
  OBVIOUS
<1>5. PICK n : n = [t EXCEPT !.at = t.at + 1, !.near = b]
  OBVIOUS
<1>6. t # Null /\ t.at <= Len(p) /\ p[t.at] = <<"search">>
  BY <1>1, <1>2 DEF Search, AtQuery, Statements, Steps
<1>0. /\ locks' = locks /\ ledger' = ledger /\ rows' = rows
      /\ txn' = [txn EXCEPT ![w] = n]
  BY <1>1, <1>3, <1>4, <1>5 DEF Search
<1>7. t.task \in Tasks /\ t.at \in Nat \ {0} /\ t.number \in Nat
  BY DEF Transactions
<1>8. /\ Len(p) \in Nat /\ Len(p) >= 2
      /\ p[Len(p)] = <<"number">>
      /\ \A k \in 1 .. Len(p) - 1 :
            \/ p[k] \in {Lock("run", v), Lock("invoice", v)}
            \/ t.task = "similarity" /\ k = 1 /\ p[k] = Lock("model", t.model)
            \/ t.task = "similarity" /\ k = 2 /\ p[k] = <<"search">>
      /\ t.task = "similarity" => Len(p) = 5
  BY <1>2, <1>3, <1>7, Programs DEF Steps
<1>9. t.task = "similarity" /\ t.at = 2 /\ Len(p) = 5
  BY <1>6, <1>7, <1>8 DEF Lock
<1>10. n \in Transactions
  <2>1. PICK a \in Nat \ {0} : a = t.at + 1
    BY <1>7
  <2>2. n = [t EXCEPT !.at = a, !.near = b]
    BY <1>5, <2>1
  <2>3. QED
    BY ONLY <2>2, t \in Transactions, a \in Nat \ {0}, b \in BOOLEAN DEF Transactions
<1>11. /\ n.at = 3 /\ n.task = t.task /\ n.model = t.model /\ n.number = t.number
       /\ n.near = b
  BY <1>5, <1>9 DEF Transactions
<1>12. Fits(w, t)
  BY <1>1, <1>6 DEF TInv, TransactionsFit
<1>13. Steps(w, n) = p
  BY <1>2, <1>11 DEF Steps
<1>14. Fits(w, n)
  <2>1. t.number = 0
    BY <1>2, <1>7, <1>9, <1>12 DEF Fits
  <2>2. /\ t.task = "duplicate" <=> w \in Uploads
        /\ t.model \in Models /\ ~Has(v, "similarity")
        /\ HeldBy(locks[<<"model", t.model>>], w)
    BY <1>2, <1>3, <1>9, <1>12 DEF Fits
  <2>3. ~n.near => \A x \in Invoices \ {v} : rows[x].model # t.model
    BY <1>4, <1>11
  <2>4. Len(Steps(w, n)) = 5
    BY <1>9, <1>13
  <2>5. /\ n.at = 3 /\ n.number = 0 /\ n.task = "similarity" /\ n.model = t.model
        /\ w \notin Uploads
    BY <1>9, <1>11, <2>1, <2>2
  <2>6. QED
    BY <1>3, <2>2, <2>3, <2>4, <2>5 DEF Fits
<1>15. Fits(w, n)'
  BY <1>0, <1>14 DEF Fits, Has, Event
<1>16. QED
  BY <1>0, <1>10, <1>15, QuietStep DEF TInv, Types

(* The query of the highest number, behind the lock of the run.             *)
LEMMA NumberStep ==
    ASSUME TInv, NEW w \in Writers, ReadNumber(w)
    PROVE  TInv'
<1>1. PICK t \in Transactions : t = txn[w]
  BY DEF ReadNumber, AtQuery, TInv, Types
<1>2. PICK p : p = Steps(w, t)
  OBVIOUS
<1>3. PICK v \in Invoices : v = InvoiceOf(w)
  BY StatementsOf
<1>4. PICK n : n = [t EXCEPT !.at = t.at + 1, !.number = Len(ledger[v]) + 1]
  OBVIOUS
<1>5. t # Null /\ t.at <= Len(p) /\ p[t.at] = <<"number">>
  BY <1>1, <1>2 DEF ReadNumber, AtQuery, Statements, Steps
<1>0. /\ locks' = locks /\ ledger' = ledger /\ rows' = rows
      /\ txn' = [txn EXCEPT ![w] = n]
  BY <1>1, <1>3, <1>4 DEF ReadNumber
<1>6. t.task \in Tasks /\ t.at \in Nat \ {0}
  BY DEF Transactions
<1>7. /\ Len(p) \in Nat /\ Len(p) >= 2
      /\ \A k \in 1 .. Len(p) - 1 :
            \/ p[k] \in {Lock("run", v), Lock("invoice", v)}
            \/ t.task = "similarity" /\ k = 1 /\ p[k] = Lock("model", t.model)
            \/ t.task = "similarity" /\ k = 2 /\ p[k] = <<"search">>
      /\ t.task = "similarity" => Len(p) = 5
  BY <1>2, <1>3, <1>6, Programs DEF Steps
<1>8. t.at = Len(p)
  BY <1>5, <1>6, <1>7 DEF Lock
<1>9. Len(ledger[v]) \in Nat
  BY DEF TInv, Types
<1>10. /\ n \in Transactions /\ n.at = Len(p) + 1 /\ n.task = t.task /\ n.model = t.model
       /\ n.near = t.near /\ n.number = Len(ledger[v]) + 1
  <2>1. PICK a \in Nat \ {0} : a = t.at + 1
    BY <1>6
  <2>2. PICK k \in Nat : k = Len(ledger[v]) + 1
    BY <1>9
  <2>3. n = [t EXCEPT !.at = a, !.number = k]
    BY <1>4, <2>1, <2>2
  <2>4. /\ n \in Transactions /\ n.at = a /\ n.task = t.task /\ n.model = t.model
        /\ n.near = t.near /\ n.number = k
    BY ONLY <2>3, t \in Transactions, a \in Nat \ {0}, k \in Nat DEF Transactions
  <2>5. QED
    BY <1>8, <2>1, <2>2, <2>4
<1>11. Fits(w, t)
  BY <1>1, <1>5 DEF TInv, TransactionsFit
<1>12. Steps(w, n) = p
  BY <1>2, <1>10 DEF Steps
<1>13. Fits(w, n)
  <2>1. /\ t.task = "duplicate" <=> w \in Uploads
        /\ HeldBy(locks[<<"run", v>>], w)
        /\ t.task = "approve" => Has(v, "similarity") /\ ~Event(v, "similarity").near
    BY <1>2, <1>3, <1>7, <1>8, <1>11 DEF Fits
  <2>2. t.task = "similarity" =>
           /\ t.model \in Models
           /\ ~Has(v, "similarity")
           /\ HeldBy(locks[<<"model", t.model>>], w)
           /\ ~t.near => \A x \in Invoices \ {v} : rows[x].model # t.model
    <3>1. t.task = "similarity" => t.at = 5
      BY <1>7, <1>8
    <3>2. QED
      BY <1>3, <1>11, <3>1 DEF Fits
  <2>3. Len(Steps(w, n)) = Len(p) /\ n.at > Len(p)
    BY <1>7, <1>10, <1>12
  <2>4. QED
    BY <1>3, <1>10, <2>1, <2>2, <2>3 DEF Fits
<1>14. Fits(w, n)'
  BY <1>0, <1>13 DEF Fits, Has, Event
<1>15. QED
  BY <1>0, <1>10, <1>14, QuietStep DEF TInv, Types

(* The locks of a transaction end with it; other writers keep theirs.       *)
LEMMA Released ==
    ASSUME TInv, NEW w \in Writers, locks' = Release(w)
    PROVE  /\ locks' \in [Locks -> Seq(Writers)]
           /\ \A l \in Locks, d \in Writers :
                 d # w /\ HeldBy(locks[l], d) => HeldBy(locks'[l], d)
<1>1. \A l \in Locks : locks[l] \in Seq(Writers) /\ locks'[l] = Without(locks[l], w)
  BY DEF TInv, Types, Release
<1>2. locks' = [l \in Locks |-> Without(locks[l], w)]
  BY DEF Release
<1>3. QED
  BY <1>1, <1>2, WithoutKeeps

(* A transaction that is rolled back leaves nothing.                        *)
LEMMA RollbackStep ==
    ASSUME TInv, NEW w \in Writers, RolledBack(w)
    PROVE  TInv'
<1>1. /\ locks' = Release(w) /\ txn' = [txn EXCEPT ![w] = Null]
      /\ ledger' = ledger /\ rows' = rows
  BY DEF RolledBack
<1>2. QED
  BY <1>1, Released, QuietStep

(* An event that is appended to a run leaves its search as it was, or is it. *)
LEMMA AppendedEvent ==
    ASSUME NEW v \in Invoices, ledger[v] \in Seq(Entries), NEW e \in Entries,
           ledger'[v] = Append(ledger[v], e),
           \A i, j \in DOMAIN ledger[v] :
              ledger[v][i].type = "similarity" /\ ledger[v][j].type = "similarity" => i = j,
           e.type = "similarity" => ~Has(v, "similarity")
    PROVE  /\ Len(ledger'[v]) = Len(ledger[v]) + 1
           /\ \A i, j \in DOMAIN ledger'[v] :
                 ledger'[v][i].type = "similarity" /\ ledger'[v][j].type = "similarity" => i = j
           /\ Has(v, "similarity")' <=> Has(v, "similarity") \/ e.type = "similarity"
           /\ Has(v, "similarity") => Event(v, "similarity")' = Event(v, "similarity")
           /\ e.type = "similarity" => Event(v, "similarity")' = e
<1>1. PICK q \in Seq(Entries) : q = ledger[v]
  OBVIOUS
<1>2. PICK r : r = Append(q, e)
  OBVIOUS
<1>3. ledger'[v] = r
  BY <1>1, <1>2
<1>4. /\ Len(q) \in Nat /\ DOMAIN q = 1 .. Len(q)
      /\ Len(r) = Len(q) + 1 /\ DOMAIN r = 1 .. Len(q) + 1
      /\ \A i \in 1 .. Len(q) : r[i] = q[i]
      /\ r[Len(q) + 1] = e
  BY <1>2, AppendProperties
<1>5. \A i, j \in 1 .. Len(q) : q[i].type = "similarity" /\ q[j].type = "similarity" => i = j
  BY <1>1, <1>4
<1>6. Has(v, "similarity") <=> \E i \in 1 .. Len(q) : q[i].type = "similarity"
  BY <1>1, <1>4 DEF Has
<1>7. Has(v, "similarity")' <=> \E i \in 1 .. Len(q) + 1 : r[i].type = "similarity"
  BY <1>3, <1>4 DEF Has
<1>8. \A i, j \in 1 .. Len(q) + 1 : r[i].type = "similarity" /\ r[j].type = "similarity" => i = j
  BY <1>4, <1>5, <1>6
<1>9. \A i \in 1 .. Len(q) : q[i].type = "similarity" => Event(v, "similarity") = q[i]
  BY <1>1, <1>4, <1>5 DEF Event
<1>10. \A i \in 1 .. Len(q) + 1 : r[i].type = "similarity" => Event(v, "similarity")' = r[i]
  BY <1>3, <1>4, <1>8 DEF Event
<1>11. Has(v, "similarity") => Event(v, "similarity")' = Event(v, "similarity")
  BY <1>4, <1>6, <1>9, <1>10
<1>12. e.type = "similarity" => Event(v, "similarity")' = e
  BY <1>4, <1>10
<1>13. QED
  BY <1>1, <1>3, <1>4, <1>6, <1>7, <1>8, <1>11, <1>12

(* A commit appends under the lock of the run, so no other transaction has  *)
(* read a number of it, and a search commits its embedding under the lock   *)
(* of the model, so no other transaction has searched that model.           *)
LEMMA CommitStep ==
    ASSUME TInv, NEW w \in Writers, Committed(w)
    PROVE  TInv'
<1> USE DEF TInv
<1>1. PICK t \in Transactions : t = txn[w]
  BY DEF Committed, Types
<1>2. PICK v \in Invoices : v = InvoiceOf(w)
  BY StatementsOf
<1>3. PICK e : e = [number |-> t.number, type |-> t.task, near |-> t.near, model |-> t.model]
  OBVIOUS
<1>4. PICK r : r = CASE t.task = "similarity" -> [rows[v] EXCEPT !.model = t.model]
                     [] t.task = "triage" -> [rows[v] EXCEPT !.status = "NEEDS_REVIEW"]
                     [] t.task = "approve" -> [rows[v] EXCEPT !.status = "APPROVED"]
                     [] OTHER -> rows[v]
  OBVIOUS
<1>5. /\ t # Null /\ t.at > Len(Steps(w, t)) /\ t.number = Len(ledger[v]) + 1
      /\ ledger' = [ledger EXCEPT ![v] = Append(@, e)]
      /\ locks' = Release(w)
      /\ txn' = [txn EXCEPT ![w] = Null]
  BY <1>1, <1>2, <1>3 DEF Committed, Statements, Steps
<1>6. rows' = [rows EXCEPT ![v] = r]
  BY <1>1, <1>2, <1>4 DEF Committed
<1>7. /\ e \in Entries /\ e.type = t.task /\ e.near = t.near /\ e.model = t.model
      /\ t.task \in Tasks /\ t.model \in Models \cup {Null} /\ t.at \in Nat
  BY <1>3 DEF Transactions, Entries
<1>8. /\ r \in Rows
      /\ r.model = IF t.task = "similarity" THEN t.model ELSE rows[v].model
      /\ r.status = "APPROVED" => t.task = "approve" \/ rows[v].status = "APPROVED"
  <2>1. PICK o \in Rows : o = rows[v]
    BY DEF Types
  <2>2. QED
    BY <1>4, <1>7, <2>1 DEF Rows
<1>9. Fits(w, t)
  BY <1>1, <1>5 DEF TransactionsFit
<1>10. /\ ledger[v] \in Seq(Entries)
       /\ ledger'[v] = Append(ledger[v], e)
       /\ rows'[v] = r
       /\ \A x \in Invoices : x # v => ledger'[x] = ledger[x] /\ rows'[x] = rows[x]
  BY <1>5, <1>6 DEF Types
<1>11. /\ Len(Steps(w, t)) \in Nat /\ Len(Steps(w, t)) >= 2
       /\ t.task = "similarity" => Len(Steps(w, t)) = 5
  BY StatementsOf
<1>12. /\ HeldBy(locks[<<"run", v>>], w)
       /\ t.task = "similarity" =>
             /\ w = v
             /\ t.model \in Models
             /\ ~Has(v, "similarity")
             /\ HeldBy(locks[<<"model", t.model>>], w)
             /\ ~t.near => \A x \in Invoices \ {v} : rows[x].model # t.model
       /\ t.task = "approve" => Has(v, "similarity") /\ ~Event(v, "similarity").near
  <2>1. t.at >= Len(Steps(w, t)) /\ t.at >= 2 /\ (t.task = "similarity" => t.at > 2)
    BY <1>5, <1>7, <1>11
  <2>2. w \notin Uploads => w = v
    BY <1>2 DEF InvoiceOf
  <2>3. HeldBy(locks[<<"run", v>>], w)
    BY <1>2, <1>9, <2>1 DEF Fits
  <2>4. t.task = "similarity" =>
           /\ w \notin Uploads
           /\ t.model \in Models
           /\ ~Has(v, "similarity")
           /\ HeldBy(locks[<<"model", t.model>>], w)
           /\ ~t.near => \A x \in Invoices \ {v} : rows[x].model # t.model
    BY <1>2, <1>9, <2>1 DEF Fits
  <2>5. t.task = "approve" => Has(v, "similarity") /\ ~Event(v, "similarity").near
    BY <1>2, <1>9 DEF Fits
  <2>6. QED
    BY <2>2, <2>3, <2>4, <2>5
<1>13. /\ Len(ledger'[v]) = Len(ledger[v]) + 1
       /\ \A i, j \in DOMAIN ledger'[v] :
             ledger'[v][i].type = "similarity" /\ ledger'[v][j].type = "similarity" => i = j
       /\ Has(v, "similarity")' <=> Has(v, "similarity") \/ t.task = "similarity"
       /\ Has(v, "similarity") => Event(v, "similarity")' = Event(v, "similarity")
       /\ t.task = "similarity" => Event(v, "similarity")' = e
  BY <1>7, <1>10, <1>12, AppendedEvent DEF RowsFit
<1>14. \A x \in Invoices : x # v =>
          /\ Has(x, "similarity")' <=> Has(x, "similarity")
          /\ Event(x, "similarity")' = Event(x, "similarity")
  BY <1>10 DEF Has, Event
<1>15. Types'
  <2>1. Append(ledger[v], e) \in Seq(Entries)
    BY <1>7, <1>10
  <2>2. ledger' \in [Invoices -> Seq(Entries)] /\ rows' \in [Invoices -> Rows]
    BY <1>5, <1>6, <1>8, <2>1 DEF Types
  <2>3. txn' \in [Writers -> Transactions \cup {Null}]
    BY <1>5 DEF Types
  <2>4. QED
    BY <1>5, <2>2, <2>3, Released DEF Types
<1>16. ASSUME NEW d \in Writers, d # w, txn[d] # Null
       PROVE  Fits(d, txn[d])'
  <2>1. PICK s \in Transactions : s = txn[d]
    BY <1>16 DEF Types
  <2>2. PICK x \in Invoices : x = InvoiceOf(d)
    BY StatementsOf
  <2>3. Fits(d, s)
    BY <1>16, <2>1 DEF TransactionsFit
  <2>4. /\ HeldBy(locks[<<"run", x>>], d) => HeldBy(locks'[<<"run", x>>], d)
        /\ s.model \in Models /\ HeldBy(locks[<<"model", s.model>>], d) =>
              HeldBy(locks'[<<"model", s.model>>], d)
    BY <1>5, <1>16, Released, LockNames
  <2>5. /\ Len(Steps(d, s)) \in Nat /\ s.at \in Nat /\ s.number \in Nat
    BY StatementsOf DEF Transactions
  <2>6. x = v => s.number = 0
    BY <1>12, <1>16, <2>2, <2>3, <2>5 DEF Fits, HeldBy
  <2>7. Len(ledger'[x]) = Len(ledger[x]) \/ s.number = 0
    BY <1>10, <2>6
  <2>8. s.task = "similarity" => d = x /\ ~Has(x, "similarity")'
    BY <1>12, <1>13, <1>14, <1>16, <2>2, <2>3 DEF Fits, InvoiceOf
  <2>9. s.task = "similarity" /\ s.at > 2 /\ ~s.near =>
           \A y \in Invoices \ {x} : rows'[y].model # s.model
    <3>1. SUFFICES ASSUME s.task = "similarity", s.at > 2, ~s.near,
                          NEW y \in Invoices \ {x}
                   PROVE  rows'[y].model # s.model
      OBVIOUS
    <3>2. rows[y].model # s.model /\ HeldBy(locks[<<"model", s.model>>], d)
      BY <2>2, <2>3, <2>5, <3>1 DEF Fits
    <3>3. CASE y = v /\ t.task = "similarity"
      BY <1>8, <1>10, <1>12, <1>16, <3>2, <3>3 DEF HeldBy
    <3>4. CASE ~(y = v /\ t.task = "similarity")
      BY <1>8, <1>10, <3>2, <3>4
    <3>5. QED
      BY <3>3, <3>4
  <2>10. s.task = "approve" => Has(x, "similarity")' /\ ~Event(x, "similarity")'.near
    BY <1>13, <1>14, <2>2, <2>3 DEF Fits
  <2>11. Fits(d, s)'
    BY <2>2, <2>3, <2>4, <2>5, <2>7, <2>8, <2>9, <2>10 DEF Fits
  <2>12. QED
    BY <1>5, <1>16, <2>1, <2>11 DEF Types
<1>17. TransactionsFit'
  BY <1>5, <1>16 DEF TransactionsFit, Types
<1>18. RowsFit'
  <2>1. ASSUME NEW x \in Invoices
        PROVE  /\ \A i, j \in DOMAIN ledger'[x] :
                     ledger'[x][i].type = "similarity" /\ ledger'[x][j].type = "similarity" => i = j
               /\ Has(x, "similarity")' => rows'[x].model = Event(x, "similarity")'.model
               /\ rows'[x].status = "APPROVED" =>
                     Has(x, "similarity")' /\ ~Event(x, "similarity")'.near
    <3>1. CASE x = v
      BY <1>7, <1>8, <1>10, <1>12, <1>13, <3>1 DEF RowsFit
    <3>2. CASE x # v
      BY <1>10, <1>14, <3>2 DEF RowsFit
    <3>3. QED
      BY <3>1, <3>2
  <2>2. QED
    BY <2>1 DEF RowsFit
<1>19. NothingFoundOnce'
  <2>1. ASSUME NEW x \in Invoices, x # v, t.task = "similarity", ~t.near, Has(x, "similarity")
        PROVE  Event(x, "similarity").model # t.model
    BY <1>12, <2>1 DEF RowsFit
  <2>2. QED
    BY <1>7, <1>12, <1>13, <1>14, <2>1 DEF NothingFoundOnce
<1>20. QED
  BY <1>15, <1>17, <1>18, <1>19

-----------------------------------------------------------------------------
(* The inductive invariant. *)
THEOREM TransactionsInvariant == TransactionsSpec => []TInv
<1>1. TInit => TInv
  <2> SUFFICES ASSUME TInit
               PROVE  TInv
    OBVIOUS
  <2>1. \A v \in Invoices : ledger[v] = <<[number |-> 1, type |-> "ingest", near |-> FALSE,
                                          model |-> Null]>>
    BY DEF TInit
  <2>2. [number |-> 1, type |-> "ingest", near |-> FALSE, model |-> Null] \in Entries
    BY DEF Entries
  <2>3. ASSUME NEW v \in Invoices
        PROVE  ledger[v] \in Seq(Entries) /\ ~Has(v, "similarity")
    <3>1. PICK e \in Entries : /\ e.type = "ingest"
                              /\ ledger[v] = <<e>>
      BY <2>1, <2>2
    <3>2. <<e>> \in Seq(Entries) /\ Len(<<e>>) = 1 /\ <<e>>[1] = e
      OBVIOUS
    <3>3. DOMAIN <<e>> = {1}
      OBVIOUS
    <3>4. QED
      BY <3>1, <3>2, <3>3 DEF Has
  <2>4. Types
    <3>1. ledger \in [Invoices -> Seq(Entries)]
      BY <2>3 DEF TInit
    <3>2. locks \in [Locks -> Seq(Writers)]
      BY DEF TInit
    <3>3. rows \in [Invoices -> Rows]
      BY DEF TInit, Rows
    <3>4. QED
      BY <3>1, <3>2, <3>3 DEF TInit, Types
  <2>5. TransactionsFit
    BY DEF TInit, TransactionsFit
  <2>6. RowsFit
    BY <2>3 DEF TInit, RowsFit, Has
  <2>7. NothingFoundOnce
    BY <2>3 DEF NothingFoundOnce
  <2>8. QED
    BY <2>4, <2>5, <2>6, <2>7 DEF TInv
<1>2. TInv /\ [TNext]_tvars => TInv'
  <2> SUFFICES ASSUME TInv, [TNext]_tvars
               PROVE  TInv'
    OBVIOUS
  <2>1. CASE UNCHANGED <<locks, txn, ledger, rows>>
    <3>1. /\ \A v : Has(v, "similarity")' = Has(v, "similarity")
                    /\ Event(v, "similarity")' = Event(v, "similarity")
      BY <2>1, Zenon DEF Has, Event
    <3>2. TransactionsFit'
      BY <2>1, <3>1 DEF TInv, TransactionsFit, Fits
    <3>3. RowsFit' /\ NothingFoundOnce'
      BY <2>1, <3>1 DEF TInv, RowsFit, NothingFoundOnce
    <3>4. QED
      BY <2>1, <3>2, <3>3 DEF TInv, Types
  <2>2. CASE \E v \in Invoices : Settle(v)
    BY <2>1, <2>2 DEF Settle
  <2>3. CASE (\E v \in Invoices : Work(v)) \/ (\E u \in Uploads : Upload(u))
    BY <2>3, BeginStep
  <2>4. ASSUME NEW w \in Writers, Progress(w) \/ Break(w) \/ CommitUnheard(w)
        PROVE  TInv'
    <3>1. CASE AskForLock(w) \/ TakeLock(w) \/ Search(w) \/ ReadNumber(w)
      BY <3>1, AskStep, TakeStep, SearchStep, NumberStep
    <3>2. CASE Commit(w) \/ CommitUnheard(w)
      BY <3>2, CommitStep DEF Commit, CommitUnheard
    <3>3. CASE Conflict(w) \/ Victim(w) \/ Break(w)
      BY <3>3, RollbackStep DEF Conflict, Victim, Break
    <3>4. QED
      BY <2>4, <3>1, <3>2, <3>3 DEF Progress
  <2>5. QED
    BY <2>1, <2>2, <2>3, <2>4 DEF TNext, tvars
<1>3. QED
  BY <1>1, <1>2, PTL DEF TransactionsSpec

(* The queues, transactions, ledgers and rows keep their types.             *)
THEOREM TransactionTypes == TransactionsSpec => []Types
BY TransactionsInvariant, PTL DEF TInv

(* The number a transaction has read stays free until it commits.           *)
THEOREM NumbersStayFree == TransactionsSpec => []NumberStaysFree
<1>1. TInv => NumberStaysFree
  BY DEF TInv, TransactionsFit, Fits, NumberStaysFree
<1>2. QED
  BY <1>1, TransactionsInvariant, PTL

(* Of near duplicates whose embeddings are of one model at most one is      *)
(* approved without a person.                                               *)
THEOREM NearDuplicatesAreSeen == TransactionsSpec => []NearDuplicateIsSeen
<1>1. TInv => NearDuplicateIsSeen
  BY DEF TInv, RowsFit, NothingFoundOnce, NearDuplicateIsSeen
<1>2. QED
  BY <1>1, TransactionsInvariant, PTL

(* No append meets a number that is taken.                                  *)
THEOREM NoConflict == TransactionsSpec => [][\A w \in Writers : ~Conflict(w)]_tvars
<1>1. TInv /\ [TNext]_tvars => [\A w \in Writers : ~Conflict(w)]_tvars
  <2> SUFFICES ASSUME TInv, NEW w \in Writers, Conflict(w)
               PROVE  FALSE
    OBVIOUS
  <2>1. /\ txn[w] # Null /\ txn[w].at > Len(Steps(w, txn[w]))
        /\ txn[w].number # Len(ledger[InvoiceOf(w)]) + 1
    BY DEF Conflict, Statements, Steps
  <2>2. Fits(w, txn[w])
    BY <2>1 DEF TInv, TransactionsFit
  <2>3. QED
    BY <2>1, <2>2 DEF Fits
<1>2. QED
  BY <1>1, TransactionsInvariant, PTL DEF TransactionsSpec

-----------------------------------------------------------------------------
(* The role logins *)

HIDE TransactionsAssumption
USE SessionsAssumption

LSpec == LInit /\ [][LNext]_lvars

UserRows == [password : Nat, failed : Nat, locked : Nat]
Logins == [role : Roles, guess : Nat, key : Keys, row : UserRows]
Sessions == [role : Roles, key : Keys, secret : Secrets, expires : Nat, password : Nat]

LTypeOK ==
  /\ users \in [Roles -> UserRows]
  /\ sessions \subseteq Sessions
  /\ holder \in [Roles -> Requests \cup {NoOne}]
  /\ login \in [Requests -> Logins \cup {NoOne}]
  /\ clock \in Nat
  /\ secret \in Secrets
  /\ wrong \in [Roles -> [count : Nat, last : Nat]]
  /\ sent \in [rotations : Nat, guesses : Nat]

\* An open login holds the lock of its account's row, and what it read is what the row holds:
\* neither another login nor the seed has changed it.
LoginsReadTheRow ==
  \A q \in Requests : login[q] # NoOne =>
    /\ holder[login[q].role] = q
    /\ login[q].row = users[login[q].role]

\* Every session, resolved or not, was opened with the password of the account.
SessionsFit == \A s \in sessions : s.password = users[s.role].password

\* The row counts the wrong passwords, and from the fifth on it is locked for fifteen minutes
\* from the last one.
CountersFit ==
  \A r \in Roles :
    /\ users[r].failed = wrong[r].count
    /\ wrong[r].count >= MaxFailures => users[r].locked = wrong[r].last + LockTime

LInv == LTypeOK /\ LoginsReadTheRow /\ SessionsFit /\ CountersFit

-----------------------------------------------------------------------------
\* An open login as its transaction sees it.
LEMMA OpenLogin ==
  ASSUME LInv, NEW q \in Requests, login[q] # NoOne
  PROVE  /\ login[q] \in Logins
         /\ login[q].role \in Roles
         /\ login[q].row = users[login[q].role]
         /\ \A p \in Requests : p # q /\ login[p] # NoOne => login[p].role # login[q].role
BY DEF LInv, LTypeOK, LoginsReadTheRow, Logins

\* What ends a login leaves every other with its lock.
LEMMA DoneStep ==
  ASSUME LInv, NEW q \in Requests, Done(q)
  PROVE  /\ login' \in [Requests -> Logins \cup {NoOne}]
         /\ holder' \in [Roles -> Requests \cup {NoOne}]
         /\ login'[q] = NoOne
         /\ \A p \in Requests : p # q => login'[p] = login[p]
         /\ \A p \in Requests : p # q /\ login[p] # NoOne => holder'[login[p].role] = p
BY DEF LInv, LTypeOK, LoginsReadTheRow, Done, Logins

\* The steps that change no account and open no session: reading the account, the refusals, a
\* lost connection, a logout, a restart with another secret and the clock.
LEMMA QuietLoginStep ==
  ASSUME LInv,
         \/ \E q \in Requests, r \in Roles, guess \in 0 .. 1 + Rotations, key \in Keys :
              guess \in {0} \cup 1 .. users[r].password /\ BeginLogin(q, r, guess, key)
         \/ \E q \in Requests : RefuseLocked(q) \/ LoseLogin(q)
         \/ \E s \in sessions : Logout(s)
         \/ Restart \/ Tick \/ UNCHANGED lvars
  PROVE  LInv'
<1> USE DEF LInv
<1>1. UNCHANGED <<users, wrong>> /\ sessions' \subseteq sessions
  BY DEF BeginLogin, RefuseLocked, LoseLogin, Logout, Restart, Tick, lvars
<1>2. SessionsFit' /\ CountersFit'
  BY <1>1 DEF SessionsFit, CountersFit
<1>3. sessions' \subseteq Sessions /\ users' \in [Roles -> UserRows]
      /\ wrong' \in [Roles -> [count : Nat, last : Nat]]
  BY <1>1 DEF LTypeOK
<1>4. ASSUME NEW q \in Requests, NEW r \in Roles, NEW guess \in 0 .. 1 + Rotations,
             NEW key \in Keys, BeginLogin(q, r, guess, key)
      PROVE  LTypeOK' /\ LoginsReadTheRow'
  <2>1. PICK new : /\ new = [role |-> r, guess |-> guess, key |-> key, row |-> users[r]]
                   /\ login' = [login EXCEPT ![q] = new]
    BY <1>4 DEF BeginLogin
  <2>2. new \in Logins /\ new.role = r /\ new.row = users[r]
    BY <2>1 DEF LTypeOK, Logins
  <2>3. /\ holder[r] = NoOne
        /\ holder' = [holder EXCEPT ![r] = q]
        /\ UNCHANGED <<clock, secret>>
    BY <1>4 DEF BeginLogin, ReadsLocked
  <2>4. sent' \in [rotations : Nat, guesses : Nat]
    BY <1>4 DEF BeginLogin, LTypeOK
  <2>5. LTypeOK'
    BY <1>3, <2>1, <2>2, <2>3, <2>4 DEF LTypeOK
  <2>6. LoginsReadTheRow'
    BY <1>1, <2>1, <2>2, <2>3 DEF LoginsReadTheRow, LTypeOK, Logins
  <2>7. QED
    BY <2>5, <2>6
<1>5. ASSUME NEW q \in Requests, RefuseLocked(q) \/ LoseLogin(q)
      PROVE  LTypeOK' /\ LoginsReadTheRow'
  <2>1. Done(q) /\ UNCHANGED <<clock, secret, sent>>
    BY <1>5 DEF RefuseLocked, LoseLogin
  <2>2. QED
    BY <1>1, <1>3, <2>1, DoneStep DEF LTypeOK, LoginsReadTheRow
<1>6. ASSUME \/ \E s \in sessions : Logout(s)
             \/ Tick \/ UNCHANGED lvars
      PROVE  LTypeOK' /\ LoginsReadTheRow'
  BY <1>1, <1>3, <1>6 DEF Logout, Tick, lvars, LTypeOK, LoginsReadTheRow
<1>7. CASE Restart
  BY <1>1, <1>2, <1>3, <1>7 DEF Restart, LTypeOK, LoginsReadTheRow
<1>8. QED
  BY <1>2, <1>4, <1>5, <1>6, <1>7

\* A wrong password is counted on top of what the row holds, since no one else has written it.
LEMMA FailureStep ==
  ASSUME LInv, NEW q \in Requests, CountFailure(q)
  PROVE  LInv'
<1> USE DEF LInv
<1>1. PICK r : r = login[q].role
  OBVIOUS
<1>2. /\ login[q] # NoOne /\ r \in Roles /\ login[q].row = users[r]
      /\ \A p \in Requests : p # q /\ login[p] # NoOne => login[p].role # r
  BY <1>1, OpenLogin DEF CountFailure
<1>3. users[r] \in UserRows /\ wrong[r] \in [count : Nat, last : Nat] /\ clock \in Nat
  BY <1>2 DEF LTypeOK
<1>4. /\ Failure(users[r]).failed = users[r].failed + 1
      /\ Failure(users[r]).locked =
           IF users[r].failed + 1 >= MaxFailures THEN clock + LockTime ELSE 0
  BY <1>3 DEF Failure, UserRows, NoLock
<1>5. PICK row : /\ row = [users[r] EXCEPT !.failed = Failure(users[r]).failed,
                                           !.locked = Failure(users[r]).locked]
                 /\ users' = [users EXCEPT ![r] = row]
  BY <1>1, <1>2, <1>3 DEF CountFailure, LTypeOK
<1>6. /\ row \in UserRows /\ row.password = users[r].password
      /\ row.failed = users[r].failed + 1
      /\ row.failed >= MaxFailures => row.locked = clock + LockTime
  <2>1. row = [password |-> users[r].password, failed |-> Failure(users[r]).failed,
               locked |-> Failure(users[r]).locked]
    BY <1>3, <1>5 DEF UserRows
  <2>2. QED
    BY <1>3, <1>4, <2>1 DEF UserRows
<1>7. wrong' = [wrong EXCEPT ![r] = [count |-> wrong[r].count + 1, last |-> clock]]
  BY <1>1, <1>2 DEF CountFailure, LTypeOK
<1>8. Done(q) /\ UNCHANGED <<sessions, clock, secret, sent>>
  BY DEF CountFailure
<1>9. LTypeOK'
  BY <1>2, <1>3, <1>5, <1>6, <1>7, <1>8, DoneStep DEF LTypeOK
<1>10. LoginsReadTheRow'
  BY <1>2, <1>5, <1>8, DoneStep DEF LoginsReadTheRow, LTypeOK, Logins
<1>11. SessionsFit'
  BY <1>2, <1>5, <1>6, <1>8 DEF SessionsFit, LTypeOK, Sessions
<1>12. CountersFit'
  BY <1>2, <1>3, <1>5, <1>6, <1>7 DEF CountersFit, LTypeOK
<1>13. QED
  BY <1>9, <1>10, <1>11, <1>12

\* The right password clears the counter, of an account whose lock is over, and opens a session
\* with the password the row has.
LEMMA SuccessStep ==
  ASSUME LInv, NEW q \in Requests, OpenSession(q)
  PROVE  /\ LInv'
         /\ \A r \in Roles : wrong[r].count >= MaxFailures /\ wrong'[r].count = 0 =>
              clock >= wrong[r].last + LockTime
<1> USE DEF LInv
<1>1. PICK r : r = login[q].role
  OBVIOUS
<1>2. /\ login[q] # NoOne /\ r \in Roles /\ login[q] \in Logins /\ login[q].row = users[r]
      /\ \A p \in Requests : p # q /\ login[p] # NoOne => login[p].role # r
  BY <1>1, OpenLogin DEF OpenSession
<1>3. /\ users[r] \in UserRows /\ wrong[r] \in [count : Nat, last : Nat]
      /\ clock \in Nat /\ clock + SessionTime \in Nat
  BY <1>2 DEF LTypeOK
<1>4. ~(users[r].locked > clock) /\ login[q].guess = users[r].password
  BY <1>2 DEF OpenSession, Locked, Valid
<1>5. PICK new : new = [role |-> r, key |-> login[q].key, secret |-> secret,
                        expires |-> clock + SessionTime, password |-> login[q].guess]
  OBVIOUS
<1>6. new \in Sessions /\ new.role = r /\ new.password = users[r].password
  BY <1>2, <1>3, <1>4, <1>5 DEF LTypeOK, Sessions, Logins
<1>7. Done(q) /\ UNCHANGED <<clock, secret, sent>>
  BY DEF OpenSession
<1>8. CASE UNCHANGED <<users, sessions, wrong>>
  <2>1. LTypeOK' /\ LoginsReadTheRow'
    BY <1>7, <1>8, DoneStep DEF LTypeOK, LoginsReadTheRow
  <2>2. SessionsFit' /\ CountersFit'
    BY <1>8 DEF SessionsFit, CountersFit
  <2>3. QED
    BY <1>8, <2>1, <2>2
<1>9. ASSUME ~UNCHANGED <<users, sessions, wrong>>
      PROVE  /\ LInv'
             /\ \A x \in Roles : wrong[x].count >= MaxFailures /\ wrong'[x].count = 0 =>
                  clock >= wrong[x].last + LockTime
  <2>1. /\ users' = [users EXCEPT ![r].failed = 0, ![r].locked = NoLock]
        /\ wrong' = [wrong EXCEPT ![r] = [count |-> 0, last |-> 0]]
        /\ sessions' \subseteq sessions \cup {new}
    BY <1>1, <1>5, <1>9 DEF OpenSession
  <2>2. PICK row : /\ row = [users[r] EXCEPT !.failed = 0, !.locked = 0]
                   /\ users' = [users EXCEPT ![r] = row]
    BY <1>2, <2>1 DEF LTypeOK, NoLock
  <2>3. /\ row \in UserRows /\ row.password = users[r].password /\ row.failed = 0
    BY <1>3, <2>2 DEF UserRows
  <2>4. LTypeOK'
    <3>1. /\ login' \in [Requests -> Logins \cup {NoOne}]
          /\ holder' \in [Roles -> Requests \cup {NoOne}]
      BY <1>7, DoneStep
    <3>2. users' \in [Roles -> UserRows]
      BY <2>2, <2>3 DEF LTypeOK
    <3>3. wrong' \in [Roles -> [count : Nat, last : Nat]]
      BY <2>1 DEF LTypeOK
    <3>4. sessions' \subseteq Sessions
      BY <1>6, <2>1 DEF LTypeOK
    <3>5. QED
      BY <1>7, <3>1, <3>2, <3>3, <3>4 DEF LTypeOK
  <2>5. LoginsReadTheRow'
    BY <1>2, <1>7, <2>2, DoneStep DEF LoginsReadTheRow, LTypeOK, Logins
  <2>6. SessionsFit'
    BY <1>2, <1>6, <2>1, <2>2, <2>3 DEF SessionsFit, LTypeOK, Sessions
  <2>7. CountersFit'
    BY <1>2, <2>1, <2>2, <2>3 DEF CountersFit, LTypeOK
  <2>8. \A x \in Roles : wrong[x].count >= MaxFailures /\ wrong'[x].count = 0 =>
           clock >= wrong[x].last + LockTime
    BY <1>2, <1>3, <1>4, <2>1 DEF CountersFit, LTypeOK, UserRows
  <2>9. QED
    BY <2>4, <2>5, <2>6, <2>7, <2>8
<1>10. \A x \in Roles : wrong[x].count >= MaxFailures => wrong[x].count # 0
  BY DEF LTypeOK
<1>11. QED
  BY <1>8, <1>9, <1>10

\* The seed waits for the row, so no login has read what it replaces; it deletes the account's
\* sessions with the password they were opened with.
LEMMA SeedStep ==
  ASSUME LInv, NEW r \in Roles, Seed(r)
  PROVE  LInv' /\ sent' # sent
<1> USE DEF LInv
<1>1. users[r] \in UserRows /\ holder[r] = NoOne /\ sent \in [rotations : Nat, guesses : Nat]
  BY DEF Seed, LTypeOK
<1>2. PICK row : /\ row = [password |-> users[r].password + 1, failed |-> 0, locked |-> 0]
                 /\ users' = [users EXCEPT ![r] = row]
  BY DEF Seed, NoLock, LTypeOK
<1>3. row \in UserRows /\ row.failed = 0
  BY <1>1, <1>2 DEF UserRows
<1>4. /\ wrong' = [wrong EXCEPT ![r] = [count |-> 0, last |-> 0]]
      /\ sessions' = {s \in sessions : s.role # r}
      /\ UNCHANGED <<holder, login, clock, secret>>
  BY DEF Seed, SessionsAfterRotation
<1>5. sent' = [sent EXCEPT !.rotations = sent.rotations + 1]
  BY DEF Seed
<1>6. sent' \in [rotations : Nat, guesses : Nat] /\ sent' # sent
  BY <1>1, <1>5
<1>7. LTypeOK'
  BY <1>2, <1>3, <1>4, <1>6 DEF LTypeOK
<1>8. LoginsReadTheRow'
  BY <1>1, <1>2, <1>4 DEF LoginsReadTheRow, LTypeOK, Logins
<1>9. SessionsFit'
  BY <1>2, <1>4 DEF SessionsFit, LTypeOK, Sessions
<1>10. CountersFit'
  BY <1>2, <1>3, <1>4 DEF CountersFit, LTypeOK
<1>11. QED
  BY <1>6, <1>7, <1>8, <1>9, <1>10

-----------------------------------------------------------------------------
\* The inductive invariant.
THEOREM LoginInvariant == LSpec => []LInv
<1>1. LInit => LInv
  <2> SUFFICES ASSUME LInit
               PROVE  LInv
    OBVIOUS
  <2>1. LTypeOK
    BY DEF LInit, LTypeOK, UserRows, NoLock
  <2>2. LoginsReadTheRow /\ SessionsFit /\ CountersFit
    BY DEF LInit, LoginsReadTheRow, SessionsFit, CountersFit
  <2>3. QED
    BY <2>1, <2>2 DEF LInv
<1>2. LInv /\ [LNext]_lvars => LInv'
  BY QuietLoginStep, FailureStep, SuccessStep, SeedStep DEF LNext
<1>3. QED
  BY <1>1, <1>2, PTL DEF LSpec

\* Every row of an account, session, open login and counter keeps its type.
THEOREM LoginTypes == LSpec => []LTypeOK
BY LoginInvariant, PTL DEF LInv

\* A session that resolves was opened with the password its account has now.
THEOREM NoStaleSession == LSpec => []SessionsKnowThePassword
<1>1. LInv => SessionsKnowThePassword
  BY DEF LInv, SessionsFit, SessionsKnowThePassword
<1>2. QED
  BY <1>1, LoginInvariant, PTL

\* After the last failure allowed nobody opens a session for fifteen minutes, and no failure is
\* lost to a login beside it.
THEOREM FailuresLock == LSpec => FiveFailuresLock
<1>1. ASSUME LInv, [LNext]_lvars
      PROVE  \A r \in Roles :
               /\ wrong[r].count >= MaxFailures /\ wrong'[r].count = 0 /\ sent' = sent =>
                    clock >= wrong[r].last + LockTime
               /\ users'[r].failed = wrong'[r].count
  <2>1. LInv'
    BY <1>1, QuietLoginStep, FailureStep, SuccessStep, SeedStep DEF LNext
  <2>2. \A r \in Roles : users'[r].failed = wrong'[r].count
    BY <2>1 DEF LInv, CountersFit
  <2>3. \A r \in Roles : wrong[r].count \in Nat /\ wrong[r].count + 1 # 0
    BY <1>1 DEF LInv, LTypeOK
  <2>4. \A r \in Roles :
           wrong[r].count >= MaxFailures /\ wrong'[r].count = 0 /\ sent' = sent =>
             clock >= wrong[r].last + LockTime
    <3>1. ASSUME NEW q \in Requests, OpenSession(q)
          PROVE  \A r \in Roles : wrong[r].count >= MaxFailures /\ wrong'[r].count = 0 =>
                   clock >= wrong[r].last + LockTime
      BY <1>1, <3>1, SuccessStep
    <3>2. ASSUME NEW q \in Requests, CountFailure(q), NEW r \in Roles, wrong[r].count >= MaxFailures
          PROVE  wrong'[r].count # 0
      BY <1>1, <2>3, <3>2 DEF CountFailure, LInv, LTypeOK
    <3>3. ASSUME NEW r \in Roles, Seed(r)
          PROVE  sent' # sent
      BY <1>1, <3>3, SeedStep
    <3>4. ASSUME \/ \E q \in Requests, r \in Roles, guess \in 0 .. 1 + Rotations, key \in Keys :
                      BeginLogin(q, r, guess, key)
                 \/ \E q \in Requests : RefuseLocked(q) \/ LoseLogin(q)
                 \/ \E s \in sessions : Logout(s)
                 \/ Restart \/ Tick \/ UNCHANGED lvars
          PROVE  wrong' = wrong
      BY <3>4 DEF BeginLogin, RefuseLocked, LoseLogin, Logout, Restart, Tick, lvars
    <3>5. QED
      BY <1>1, <2>3, <3>1, <3>2, <3>3, <3>4 DEF LNext
  <2>5. QED
    BY <2>2, <2>4
<1>2. QED
  BY <1>1, LoginInvariant, PTL DEF LSpec, FiveFailuresLock

=============================================================================
