------------------------------ MODULE Evaluation ------------------------------
(***************************************************************************)
(* The golden evaluation, src/eval/runners/run_pipeline.py, over the       *)
(* controls of InvoiceControls: samples are uploaded in batches that wait  *)
(* for the parents of their duplicates, the workers of one batch process   *)
(* its runs side by side, and the evidence is collected and scored          *)
(* (src/eval/metrics.py, src/eval/diagnostics.py).  A model may misread    *)
(* an invoice, a worker may fail, the evaluation may be cut and run again   *)
(* over what the first one left.                                           *)
(***************************************************************************)
EXTENDS GoldenCases

CONSTANTS
  Suites,       \* manifests to choose from: sequences of golden samples
  Worlds,       \* what may be true of every order instead of the golden ERP
  BatchSize,    \* --workers: the arrival batch and its parallel workers
  Faults,       \* bound: fields misread and workers failed, together
  Evaluations   \* bound: how often the evaluation is run

ASSUME EvaluationAssumption ==
  /\ BatchSize \in 1 .. 16 /\ Faults \in Nat /\ Evaluations \in Nat \ {0}
  /\ \A manifest \in Suites : manifest \in Seq(Range(manifest))
  /\ \A w \in Worlds :
       /\ "lines" \notin DOMAIN w
       /\ "age" \in DOMAIN w => w.age \in Int
       /\ "receipts" \in DOMAIN w => w.receipts \in Seq([1 .. 1 -> Nat])

VARIABLES
  suite,     \* the manifest
  world,     \* the fields in which the orders differ from the golden ones
  answers,   \* sample -> the stored answer to its upload, or Null
  runs,      \* sample -> the run of its invoice
  vectors,   \* the samples whose invoice has an embedding
  phase,     \* of run_pipeline
  done,      \* samples of finished batches
  batch,     \* the positions in the manifest of the batch's samples still to upload
  pending,   \* sample -> the runs given to the workers, with what they were before
  results,   \* sample -> the worker's result
  report,    \* the records of the last complete evaluation
  bound      \* [misreads, failures, evaluations]: counters the bounds are about

vars == <<suite, world, answers, runs, vectors, phase, done, batch, pending, results, report, bound>>

-----------------------------------------------------------------------------

Samples == Range(suite)
Ids == {s.id : s \in Samples}
Of(id) == CHOOSE s \in Samples : s.id = id
None == [i \in {} |-> {}]

\* ERPRepository.snapshot finds an order by the number that was read
ERP == {[f \in DOMAIN o |-> IF f \in DOMAIN world THEN world[f] ELSE o[f]] : o \in Orders(Samples)}
Numbers == {o.number : o \in ERP}
Snapshot(number) ==
  IF \E o \in ERP : o.number = number THEN CHOOSE o \in ERP : o.number = number ELSE Null

\* Extractions that differ from e in at most n fields
Misreadings(e, n) ==
  LET once == IF n > 0 THEN Misread(e, Numbers) ELSE {}
  IN {<<e, 0>>} \cup {<<f, 1>> : f \in once}
     \cup IF n > 1 THEN {<<g, 2>> : g \in UNION {Misread(f, Numbers) : f \in once}} ELSE {}

\* A misreading m with what the pixels correct of it, and the faults of all three
Read(m, bank, order) == <<Reconciled(m[1], bank[1], order[1]), m[2] + bank[2] + order[2]>>

\* ExtractionAgent.extract: what the model reads of the document labelled e, reconciled with
\* the identifiers OCR reads of it, at the cost of at most n faults
Readings(e, n) ==
  LET banks == Seen("bank", e.bank, {"other_bank"})
      orders == Seen("po", e.po_number, Numbers \ {e.po_number})
  IN {r \in {Read(m, b, o) : m \in Misreadings(e, n), b \in banks, o \in orders} : r[2] <= n}

NoRun == [status |-> "NONE"]

Init ==
  /\ suite \in Suites
  /\ world \in Worlds
  /\ answers = [i \in Ids |-> Null]
  /\ runs = [i \in Ids |-> NoRun]
  /\ vectors = {}
  /\ phase = "ready" /\ done = {} /\ batch = {}
  /\ pending = None /\ results = None /\ report = Null
  /\ bound = [misreads |-> 0, failures |-> 0, evaluations |-> 1]

-----------------------------------------------------------------------------
(* The parts of the stack the evaluation drives *)

\* Upload under the sample's own idempotency key: a stored answer replays, the content of an
\* earlier sample is a duplicate of it, anything else is a new run
Answer(s) ==
  LET original == {t \in Samples : /\ answers[t.id] # Null /\ ~answers[t.id].duplicate
                                   /\ Document(t) = Document(s)}
  IN IF answers[s.id] # Null THEN answers[s.id]
     ELSE IF original # {} THEN [run |-> (CHOOSE t \in original : TRUE).id, duplicate |-> TRUE]
     ELSE [run |-> s.id, duplicate |-> FALSE]

\* Mutant: only invoices whose run has settled are compared
ComparableSettled(id, e) ==
  {i \in vectors \ {id} : /\ runs[i].status = "APPROVED"
                          /\ runs[i].read.invoice_number = e.invoice_number
                          /\ runs[i].read.po_number = e.po_number}

\* detect_and_store: the invoices compared have the same invoice and order numbers, both read
Comparable(id, e) ==
  {i \in vectors \ {id} : /\ e.invoice_number # Null /\ e.po_number # Null
                          /\ runs[i].read.invoice_number = e.invoice_number
                          /\ runs[i].read.po_number = e.po_number}

\* The embedding similarity of two readings is the model's choice, except that equal summaries
\* have equal embeddings
Summary(e) == [f \in HeaderFields \ {"bank"} |-> e[f]]
NearChoices(id, e) ==
  IF Comparable(id, e) = {} THEN {FALSE}
  ELSE IF \E i \in Comparable(id, e) : /\ Summary(runs[i].read) = Summary(e)
                                      /\ runs[i].read.lines = e.lines
  THEN {TRUE} ELSE BOOLEAN

\* The audited results of the deterministic nodes, graph/nodes/: ValidateNode.run,
\* Match3WayNode.run, ExceptionTaxonomyNode.run and PolicyNode.run
ValidateNode(e) ==
  LET issues == Validation(e)
  IN [issues |-> issues, status |-> IF issues = {} THEN "PASS" ELSE "FAIL"]
MatchNode(e, po) ==
  LET checks == Checks(e, po)
  IN [checks |-> checks, status |-> MatchStatus(checks, po)]
TaxonomyNode(e, validation, match, po, near) ==
  Taxonomy(e, validation.issues, match.checks, po, near, AgeExceeded(po))
PolicyNode(e, validation, match, taxonomy, po) ==
  Policy(e, validation.issues, match.checks, taxonomy, po)

\* The evidence of a run whose extraction was e, from its validation to the gate
Decision(e, near) ==
  LET po == Snapshot(e.po_number)
      validation == ValidateNode(e)
      match == MatchNode(e, po)
      taxonomy == TaxonomyNode(e, validation, match, po, near)
      policy == PolicyNode(e, validation, match, taxonomy, po)
  IN [taxonomy |-> taxonomy, policy |-> policy, gate |-> Gate(e, match.checks, policy, po)]

\* The route a settled run's worker reports, first or again
Route(run) == IF run.status = "APPROVED" THEN "AUTO_APPROVE" ELSE "REVIEW"
Settled(run) == run.status \in {"APPROVED", "REVIEW"}
Ended(run) == run.status \in {"FAILED", "REFUSED"}

-----------------------------------------------------------------------------
(* run_pipeline *)

\* Mutant: the manifest's order, whether or not the parents are done
ReadyInOrder == {n \in DOMAIN suite : suite[n].id \notin done}

\* schedule_sample_batches: the next samples, in the manifest's order, whose parents are done,
\* by their positions in the manifest
Ready ==
  {n \in DOMAIN suite : /\ suite[n].id \notin done
                        /\ suite[n].parent = Null \/ suite[n].parent \in done}
NextBatch == {n \in Ready : Cardinality({m \in Ready : m <= n}) <= BatchSize}

Start ==
  /\ phase = "ready"
  /\ done # Ids
  /\ phase' = "upload"
  /\ batch' = NextBatch
  /\ done' = done \cup {suite[n].id : n \in NextBatch}
  /\ UNCHANGED <<suite, world, answers, runs, vectors, pending, results, report, bound>>

\* run_pipeline uploads one sample of the batch; a duplicate that is none, or a case that is
\* one unexpectedly, ends the evaluation
Upload ==
  /\ phase = "upload" /\ batch # {}
  /\ LET s == suite[Min(batch)]
         answer == Answer(s)
     IN /\ answers' = [answers EXCEPT ![s.id] = answer]
        /\ IF (s.code = "DUP_EXACT") # answer.duplicate
           THEN phase' = "misfiled" /\ UNCHANGED <<runs, pending>>
           ELSE /\ phase' = phase
                /\ IF answer.duplicate THEN UNCHANGED <<runs, pending>>
                   ELSE /\ runs' = [runs EXCEPT ![s.id] =
                                      IF @ = NoRun THEN [status |-> "QUEUED"] ELSE @]
                        /\ pending' = (s.id :> (runs[s.id] # NoRun /\ runs[s.id].status # "QUEUED"))
                                      @@ pending
        /\ batch' = batch \ {Min(batch)}
  /\ UNCHANGED <<suite, world, vectors, done, results, report, bound>>

Process ==
  /\ phase = "upload" /\ batch = {}
  /\ phase' = "work"
  /\ UNCHANGED <<suite, world, answers, runs, vectors, done, batch, pending, results, report, bound>>

\* The run of one pending sample goes on to be run'
Advance(id, run) == phase = "work" /\ id \in DOMAIN pending /\ runs' = [runs EXCEPT ![id] = run]

Spare == Faults - bound.misreads - bound.failures

\* The model reads the document, or the extraction is escalated to a person
Extract(id) ==
  /\ runs[id].status = "QUEUED"
  /\ \E r \in Readings(Label(Of(id)), Spare) :
       /\ Advance(id, [status |-> "READ", read |-> r[1]])
       /\ bound' = [bound EXCEPT !.misreads = @ + r[2]]
  /\ UNCHANGED <<suite, world, answers, vectors, phase, done, batch, pending, results, report>>

Escalate(id) ==
  /\ runs[id].status = "QUEUED" /\ Spare > 0
  /\ Advance(id, [status |-> "REVIEW", escalated |-> TRUE])
  /\ bound' = [bound EXCEPT !.failures = @ + 1]
  /\ UNCHANGED <<suite, world, answers, vectors, phase, done, batch, pending, results, report>>

\* NearDuplicateAgent.detect: search and store under the embedding model's lock
Search(id) ==
  /\ runs[id].status = "READ"
  /\ \E near \in NearChoices(id, runs[id].read) :
       Advance(id, [status |-> "COMPARED", read |-> runs[id].read, near |-> near])
  /\ vectors' = vectors \cup {id}
  /\ UNCHANGED <<suite, world, answers, phase, done, batch, pending, results, report, bound>>

\* The approval or the queued exception the evidence leads to; evidence its model refuses ends
\* the run
Ending(e, near, evidence) ==
  IF PolicyAccepted(evidence.policy, e) /\ GateAccepted(evidence.gate)
  THEN [status |-> IF evidence.gate.route = "AUTO_APPROVE" THEN "APPROVED" ELSE "REVIEW",
        escalated |-> FALSE, read |-> e, near |-> near, evidence |-> evidence]
  ELSE [status |-> "REFUSED", read |-> e]

\* The nodes from Validate to Gate, and what they lead to
Decide(id) ==
  /\ runs[id].status = "COMPARED"
  /\ Advance(id, Ending(runs[id].read, runs[id].near, Decision(runs[id].read, runs[id].near)))
  /\ UNCHANGED <<suite, world, answers, vectors, phase, done, batch, pending, results, report, bound>>

\* The run is dead-lettered at whatever point it reached
Fail(id) ==
  /\ ~Settled(runs[id]) /\ ~Ended(runs[id]) /\ Spare > 0
  /\ Advance(id, [runs[id] EXCEPT !.status = "FAILED"])
  /\ bound' = [bound EXCEPT !.failures = @ + 1]
  /\ UNCHANGED <<suite, world, answers, vectors, phase, done, batch, pending, results, report>>

\* The worker prints the run's result: its route, or the error that ended it
Emit(id) ==
  /\ phase = "work" /\ id \in DOMAIN pending \ DOMAIN results
  /\ Settled(runs[id]) \/ Ended(runs[id])
  /\ results' = (id :> IF Settled(runs[id]) THEN Route(runs[id]) ELSE "error") @@ results
  /\ UNCHANGED <<suite, world, answers, runs, vectors, phase, done, batch, pending, report, bound>>

\* worker.process returned a result for every run of the batch
NextOrCollect ==
  /\ phase = "work" /\ DOMAIN pending \subseteq DOMAIN results
  /\ phase' = IF done = Ids THEN "collect" ELSE "ready"
  /\ UNCHANGED <<suite, world, answers, runs, vectors, done, batch, pending, results, report, bound>>

\* One RunRecord per upload, from the API's view of the invoice
Record(s) ==
  LET answer == answers[s.id]
      result == IF answer.duplicate THEN "REJECT" ELSE results[s.id]
  IN [sample |-> s, duplicate |-> answer.duplicate, detail |-> runs[answer.run],
      replayed |-> answer.run \in DOMAIN pending /\ pending[answer.run],
      error |-> result = "error" \/ (answer.duplicate /\ answer.run \in DOMAIN results
                                     /\ results[answer.run] = "error"),
      route |-> IF result = "error" THEN "NONE" ELSE result]

Collect ==
  /\ phase = "collect"
  /\ report' = {Record(s) : s \in Samples}
  /\ phase' = "reported"
  /\ UNCHANGED <<suite, world, answers, runs, vectors, done, batch, pending, results, bound>>

\* The evaluation is cut between two batches, or done, and is run again from the start
Rerun ==
  /\ phase \in {"ready", "upload", "collect", "reported"} /\ bound.evaluations < Evaluations
  /\ phase' = "ready" /\ done' = {} /\ batch' = {}
  /\ pending' = None /\ results' = None /\ report' = Null
  /\ bound' = [bound EXCEPT !.evaluations = @ + 1]
  /\ UNCHANGED <<suite, world, answers, runs, vectors>>

Work == \E id \in DOMAIN pending :
          Extract(id) \/ Escalate(id) \/ Search(id) \/ Decide(id) \/ Fail(id) \/ Emit(id)
Next == Start \/ Upload \/ Process \/ Work \/ NextOrCollect \/ Collect \/ Rerun
Spec == Init /\ [][Next]_vars

-----------------------------------------------------------------------------
(* metrics.py and diagnostics.py, over one report *)

\* _auto_approved, and _codes with the code of an upload that was a duplicate
AutoApproved(r) == r.route = "AUTO_APPROVE" /\ r.detail.status = "APPROVED"
Decided(r) == "evidence" \in DOMAIN r.detail
Codes(r) == (IF Decided(r) THEN Range(r.detail.evidence.taxonomy.codes) ELSE {})
            \cup (IF r.duplicate THEN {"DUP_EXACT"} ELSE {})

\* _correct_route
CorrectRoute(r) ==
  CASE r.sample.code = "CLEAN" -> AutoApproved(r)
    [] r.sample.code = "DUP_EXACT" -> r.duplicate /\ r.route = "REJECT"
    [] OTHER -> r.route = "REVIEW" /\ r.detail.status = "REVIEW"

\* score_fields of one record: how many of the labelled fields were read, misread and not read;
\* every golden label has one line, so whatever is read of another is wrong
FieldCounts(r, fields) ==
  LET label == Label(r.sample)
      read == IF "read" \in DOMAIN r.detail THEN r.detail.read ELSE Null
      got(f) == IF read = Null THEN Null
                ELSE IF f \in HeaderFields THEN read[f]
                ELSE IF read.lines = <<>> THEN Null ELSE read.lines[1][f]
      wanted(f) == IF f \in HeaderFields THEN label[f] ELSE label.lines[1][f]
      right == {f \in fields : got(f) = wanted(f)}
      wrong == {f \in fields \ right : got(f) # Null}
      extra == IF read = Null THEN {}
               ELSE {p \in (2 .. Len(read.lines)) \X (fields \cap LineFields) :
                       read.lines[p[1]][p[2]] # Null}
  IN [tp |-> Cardinality(right), fp |-> Cardinality(wrong) + Cardinality(extra),
      fn |-> Cardinality(fields \ right)]

\* _rate and _f1: a metric is unavailable when its denominator is 0
Share(part, all, evidence) ==
  [num |-> Cardinality(part), den |-> Cardinality(all), evidence |-> Cardinality(evidence)]
F1(records, fields) ==
  LET scored == {r \in records : ~r.duplicate}
      total(count(_)) == MapThenSumSet(LAMBDA r : count(FieldCounts(r, fields)), scored)
      tp == total(LAMBDA c : c.tp)
  IN [num |-> 2 * tp, den |-> 2 * tp + total(LAMBDA c : c.fp + c.fn),
      evidence |-> Cardinality({r \in scored : "read" \in DOMAIN r.detail})]

MoneyFields == {"subtotal", "tax_amount", "total_amount", "unit_price", "line_total"}

\* The rates of score_primary_metrics, as fractions with the records that are evidence of them
Metrics(records) ==
  LET clean == {r \in records : r.sample.code = "CLEAN"}
      anomalies == records \ clean
      auto == {r \in clean : AutoApproved(r)}
  IN [exception_recall |-> Share({r \in anomalies : r.sample.code \in Codes(r)}, anomalies,
                                {r \in anomalies : r.duplicate \/ Decided(r)}),
      false_escalation_rate |-> Share(clean \ auto, clean, clean),
      stp_rate |-> Share(auto, clean, clean),
      routing_accuracy |-> Share({r \in records : CorrectRoute(r)}, records, records),
      field_f1 |-> F1(records, HeaderFields \cup LineFields),
      money_field_f1 |-> F1(records, MoneyFields)]

\* complete_suite: every record is this evaluation's own work
Complete(records) == \A r \in records : ~r.error /\ ~r.replayed

\* score_primary_metrics refuses a report that is not the labels' own
Scorable(records) == \A r \in records : r.duplicate <=> r.sample.code = "DUP_EXACT"

\* _cost: is what the invoice cost known?  Every call of its own run stated its cost
CostKnown(r) ==
  \/ r.duplicate
  \/ /\ ~r.error /\ ~r.replayed /\ r.route # "NONE"
     /\ "read" \in DOMAIN r.detail => "near" \in DOMAIN r.detail

\* PRIMARY_TARGETS, in thousandths
Floors == [exception_recall |-> 980, field_f1 |-> 950, money_field_f1 |-> 970,
           routing_accuracy |-> 950, stp_rate |-> 700]
Ceilings == [false_escalation_rate |-> 50]
RateTolerance == 5

\* eval/ci_gate.py: a report with a metric that is unavailable or lacks evidence is refused
Supports(records, metrics) ==
  /\ Complete(records)
  /\ \A r \in records : CostKnown(r)
  /\ \A key \in DOMAIN metrics : metrics[key].den # 0 /\ metrics[key].evidence # 0

\* The rows of compare_reports: does the candidate keep every target and lose no more than the tolerance
\* against the baseline
Keeps(before, after) ==
  LET gain(key) == after[key].num * before[key].den - before[key].num * after[key].den
      slack(key) == RateTolerance * before[key].den * after[key].den
  IN /\ \A key \in DOMAIN Floors :
          /\ 1000 * after[key].num >= Floors[key] * after[key].den
          /\ -1000 * gain(key) <= slack(key)
     /\ \A key \in DOMAIN Ceilings :
          /\ 1000 * after[key].num <= Ceilings[key] * after[key].den
          /\ 1000 * gain(key) <= slack(key)

\* compare_reports, of the records and the metrics of two reports
Released(baseline, before, candidate, after) ==
  Supports(baseline, before) /\ Supports(candidate, after) /\ Keeps(before, after)

\* confusion of one code
Confusion(records, code) ==
  LET expected == {r \in records : r.sample.code = code}
      observed == {r \in records : code \in Codes(r)}
  IN [tp |-> Cardinality(expected \cap observed), fp |-> Cardinality(observed \ expected),
      fn |-> Cardinality(expected \ observed),
      tn |-> Cardinality(records \ (expected \cup observed))]

\* calibration: the records whose gate score falls in each tenth
Calibration(records) ==
  LET score(r) == r.detail.evidence.gate.score
  IN [bin \in 0 .. 9 |->
        {r \in records : Decided(r) /\ Min({9, (score(r).num \div score(r).den) \div 10}) = bin}]

\* Mutant: the sweep wants more than the threshold
WouldAutoAbove(r, tau) ==
  /\ Decided(r)
  /\ r.detail.evidence.gate.policy_status = "AUTO_APPROVE_ELIGIBLE"
  /\ ~AtLeast([num |-> -r.detail.evidence.gate.score.num,
               den |-> r.detail.evidence.gate.score.den], -tau)

\* tau_sweep: would the sample be approved at the threshold tau
WouldAuto(r, tau) ==
  /\ Decided(r)
  /\ r.detail.evidence.gate.policy_status = "AUTO_APPROVE_ELIGIBLE"
  /\ AtLeast(r.detail.evidence.gate.score, tau)

-----------------------------------------------------------------------------
(* What the controls and the evaluation promise *)

\* The vendor, the order and the goods an invoice is paid against, written without the
\* controls: the same vendor, account, currency and open order; no more of a line than was
\* received, at the ordered price; net and tax that add up to the amount; all of it within the
\* tolerances (a unit, or one part in 200 of what is compared).
Near(a, b) == RelativeParts * Gap(a, b) <= Max({RelativeParts, b})
Owed(e, po) ==
  /\ po # Null /\ po.status \notin {"CLOSED", "CANCELLED"} /\ po.age \in 0 .. MaxAge
  /\ <<po.number, po.vendor, po.bank, po.currency>>
       = <<e.po_number, e.vendor_name, e.bank, e.currency>>
  /\ e.total_amount \in 0 .. Bands[e.currency].auto
  /\ Len(e.lines) = Len(po.lines)
  /\ \A n \in DOMAIN po.lines :
       LET billed == e.lines[n]
       IN /\ billed.quantity \in 1 .. Received(po, n)
          /\ Near(billed.unit_price, po.lines[n].unit_price)
          /\ Near(billed.line_total, billed.quantity * po.lines[n].unit_price)
  /\ LET net == MapThenSumSet(LAMBDA n : e.lines[n].line_total, DOMAIN e.lines)
         tax == MapThenSumSet(LAMBDA n : HalfUp(e.lines[n].line_total * e.lines[n].tax_rate, 100),
                              DOMAIN e.lines)
     IN Gap(e.total_amount, net + tax) <= 3 * Tolerance[e.currency]

\* An invoice is approved without a person only if it is owed, and no confidence in what it
\* says is below 90 percent: the composite threshold leaves the match and policy terms no room
\* to make up for a field read at 89.  Several controls stand between each clause and an
\* approval, none of them alone.
AutoApprovedIsOwed ==
  \A id \in Ids :
    runs[id].status = "APPROVED" =>
      /\ Owed(runs[id].read, Snapshot(runs[id].read.po_number))
      /\ FieldTerm(runs[id].read) >= 90

\* One invoice is paid once: two approved runs were never read as the same invoice, whatever
\* the order and the overlap in which their workers search and store the embeddings.
OnePaymentPerInvoice ==
  \A i, j \in Ids :
    i # j /\ runs[i].status = "APPROVED" /\ runs[j].status = "APPROVED" =>
      Summary(runs[i].read) # Summary(runs[j].read) \/ runs[i].read.lines # runs[j].read.lines

\* The scores of a report say that every label was found
LabelsFound(records, metrics) ==
  /\ Scorable(records)
  /\ \A r \in records : CorrectRoute(r)
  /\ \A key \in DOMAIN Floors : metrics[key].num = metrics[key].den
  /\ \A key \in DOMAIN Ceilings : metrics[key].num = 0
  /\ \A code \in Anomalies \cup Duplicates :
       /\ Confusion(records, code).fn = 0
       /\ Confusion(records, code).fp =
            IF code = "TAX_ERR" THEN Cardinality({r \in records : r.sample.code = "MATH_ERR"}) ELSE 0
  /\ \A r \in records : r.sample.code = "CLEAN" => r \in Calibration(records)[9]
  /\ Released(records, metrics, records, metrics) <=> \A r \in records : ~r.replayed
  /\ bound.evaluations = 1 => Released(records, metrics, records, metrics)

\* The golden labels are what the controls find: when every document is read as its label and
\* no worker fails, each sample is ingested as labelled (the evaluation is never misfiled),
\* takes its labelled route and shows its code, also when the evaluation is repeated over the
\* finished runs, and the scores say so: no code is missed, none is seen in vain but the tax
\* error that the line of a MATH_ERR sample makes too, and every clean sample scores in the top
\* tenth.  The release gate takes such a report, always the one of a first evaluation, unless it
\* found a finished run: a repetition is no evidence for a release, however good it looks.
GoldenRouting ==
  bound.misreads = 0 /\ bound.failures = 0 /\ ERP = Orders(Samples) =>
    /\ phase # "misfiled"
    /\ report # Null => LabelsFound(report, Metrics(report))

\* No reading makes a control refuse its own evidence: whatever was misread, the policy that
\* found nothing knows a payable amount within the automatic band, and every term of the gate
\* and its score stay between zero and one, so a run ends with a decision.
NoEvidenceRefused == \A id \in Ids : runs[id].status # "REFUSED"

\* The threshold sweep, at the deployed threshold, says of every record what the gate did: it
\* would be approved exactly if the invoice its evidence belongs to was.  For an exact
\* duplicate that is the invoice of its parent, not the rejected upload.
SweepFollowsGate ==
  report # Null =>
    \A r \in report : WouldAuto(r, Threshold) <=> r.detail.status = "APPROVED"

-----------------------------------------------------------------------------
(* A draft is prepared for every run that is not approved *)

\* docs/TRIAGE_AGENT.md:13: a proposed APPROVE is rejected when the policy's status is BLOCK.
ApproveNeverAgainstBlock ==
  \A id \in Ids :
    runs[id].status = "REVIEW" /\ ~runs[id].escalated =>
      LET evidence == runs[id].evidence
      IN evidence.policy.status = "BLOCK" =>
           Draft(evidence.taxonomy, evidence.policy, "APPROVE") # "APPROVE"
=============================================================================
