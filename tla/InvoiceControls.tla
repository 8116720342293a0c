--------------------------- MODULE InvoiceControls ---------------------------
(***************************************************************************)
(* The deterministic controls between an extraction and its disposition,   *)
(* src/src/invoiceops_agent/tools/: validation.py, matching.py,            *)
(* exception_taxonomy.py, policy.py, gate.py, exception_queue.py and        *)
(* triage_evidence.py, and the check agents/triage.py makes of a draft.    *)
(*                                                                         *)
(* Money is counted in the currency's smallest unit, rates, confidences    *)
(* and thresholds in percent.  exact_context() (60 digits) makes the       *)
(* code's decimal arithmetic exact, so integers stand for it; a quotient   *)
(* is compared by cross multiplication.  An unread field is Null.          *)
(***************************************************************************)
EXTENDS Integers, Sequences, FiniteSets, FiniteSetsExt, SequencesExt

CONSTANTS
  Null,        \* a field that was not read
  Tolerance,   \* currency -> absolute tolerance (ValidationConfig.currencies)
  Bands,       \* currency -> [auto, manager, director, cap] (PolicyConfig.bands)
  MaxAge,      \* PolicyConfig.max_po_age_days
  MaxFacts     \* the length triage evidence is cut to (150)

ASSUME ControlsAssumption ==
  /\ Null \notin Int
  /\ \A c \in DOMAIN Tolerance : Tolerance[c] \in Nat
  /\ \A c \in DOMAIN Bands : /\ Bands[c].auto < Bands[c].manager
                             /\ Bands[c].manager < Bands[c].director
                             /\ Bands[c].director < Bands[c].cap
                             /\ Bands[c].auto \in Nat /\ Bands[c].manager \in Nat
                             /\ Bands[c].director \in Nat /\ Bands[c].cap \in Nat
  /\ MaxAge \in Nat /\ MaxFacts \in Nat \ {0}

AutoEnabled == TRUE      \* CompositeGateConfig.auto_approval_enabled
Threshold == 95          \* CompositeGateConfig.threshold
RelativeParts == 200     \* MatchConfig.*_relative_tolerance is one part in 200
DeltaFloor == 100        \* CompositeGateConfig.delta_denominator_floor: 1.00

-----------------------------------------------------------------------------
(* validation.py *)

Gap(a, b) == IF a > b THEN a - b ELSE b - a

\* quantize(quantum) under ROUND_HALF_UP of the non-negative n / d
HalfUp(n, d) == (2 * n + d) \div (2 * d)

Issue(code, field, line) == [code |-> code, field |-> field, line |-> line]

\* _required over the fields of one header or line
Required(values, fields, line) ==
  {Issue("REQUIRED_FIELD", f, line) : f \in {g \in fields : values[g] = Null}}

\* _nonnegative: the issue, and the value later checks may use
Negative(values, fields, line) ==
  {Issue("NEGATIVE_VALUE", f, line) : f \in {g \in fields : values[g] # Null /\ values[g] < 0}}
Unsigned(v) == IF v = Null THEN Null ELSE IF v < 0 THEN Null ELSE v

\* _compare of two values that are both there
Compare(code, field, line, expected, actual, tolerance) ==
  IF Gap(expected, actual) > tolerance THEN {Issue(code, field, line)} ELSE {}

\* _complete_sum
CompleteSum(values) ==
  IF values = <<>> \/ \E i \in DOMAIN values : values[i] = Null THEN Null
  ELSE FoldSeq(LAMBDA v, sum : v + sum, 0, values)

\* The rate of a line when it is a fraction, and the line's rounded tax
Rate(line) == IF line.tax_rate = Null \/ line.tax_rate \notin 0 .. 100 THEN Null ELSE line.tax_rate
LineTax(line) ==
  IF Unsigned(line.line_total) = Null \/ Rate(line) = Null THEN Null
  ELSE HalfUp(line.line_total * line.tax_rate, 100)

LineFields == {"description", "quantity", "unit_price", "tax_rate", "line_total"}

\* _line_values: the issues of line number n
LineIssues(line, n, currency) ==
  Required(line, LineFields, n)
  \cup Negative(line, {"unit_price", "line_total"}, n)
  \cup {Issue("NONPOSITIVE_QUANTITY", "quantity", n) :
          q \in {q \in {line.quantity} : q # Null /\ q <= 0}}
  \cup {Issue("TAX_RATE_OUT_OF_RANGE", "tax_rate", n) :
          r \in {r \in {line.tax_rate} : r # Null /\ r \notin 0 .. 100}}
  \cup IF /\ currency \in DOMAIN Tolerance
          /\ line.quantity # Null /\ line.quantity > 0
          /\ Unsigned(line.unit_price) # Null /\ Unsigned(line.line_total) # Null
       THEN Compare("LINE_MATH_MISMATCH", "line_total", n,
                    line.quantity * line.unit_price, line.line_total, Tolerance[currency])
       ELSE {}

\* Mutant: the total is not compared with its parts
SumIssuesWithoutTotal(e) ==
  LET nets == CompleteSum([i \in DOMAIN e.lines |-> Unsigned(e.lines[i].line_total)])
  IN IF nets # Null /\ Unsigned(e.subtotal) # Null
     THEN Compare("SUBTOTAL_MISMATCH", "subtotal", 0, nets, e.subtotal, Tolerance[e.currency])
     ELSE {}

\* The sums _validate compares when the currency has a rule
SumIssues(e) ==
  LET subtotal == Unsigned(e.subtotal)
      tax == Unsigned(e.tax_amount)
      total == Unsigned(e.total_amount)
      nets == CompleteSum([i \in DOMAIN e.lines |-> Unsigned(e.lines[i].line_total)])
      taxes == CompleteSum([i \in DOMAIN e.lines |-> LineTax(e.lines[i])])
      near == Tolerance[e.currency]
  IN (IF nets # Null /\ subtotal # Null
      THEN Compare("SUBTOTAL_MISMATCH", "subtotal", 0, nets, subtotal, near) ELSE {})
     \cup (IF taxes # Null /\ tax # Null
           THEN Compare("TAX_MISMATCH", "tax_amount", 0, taxes, tax, near) ELSE {})
     \cup (IF subtotal # Null /\ tax # Null /\ total # Null
           THEN Compare("TOTAL_MISMATCH", "total_amount", 0, subtotal + tax, total, near) ELSE {})

\* validate_invoice; PASS is the empty set of issues
Validation(e) ==
  Required(e, {"vendor_name", "invoice_number", "currency", "invoice_date",
               "subtotal", "tax_amount", "total_amount"}, 0)
  \cup (IF e.lines = <<>> THEN {Issue("EMPTY_LINES", "line_items", 0)} ELSE {})
  \cup (IF e.currency # Null /\ e.currency \notin DOMAIN Tolerance
        THEN {Issue("UNSUPPORTED_CURRENCY", "currency", 0)} ELSE {})
  \cup Negative(e, {"subtotal", "tax_amount", "total_amount"}, 0)
  \cup (UNION {LineIssues(e.lines[i], i, e.currency) : i \in DOMAIN e.lines})
  \cup (IF e.currency \in DOMAIN Tolerance THEN SumIssues(e) ELSE {})

-----------------------------------------------------------------------------
(* matching.py *)

\* _identity; texts are compared as values, equal after normalisation
Identity(field, line, expected, actual) ==
  [field |-> field, line |-> line, rule |-> "identity",
   status |-> IF actual = Null THEN "UNKNOWN"
              ELSE IF expected = actual THEN "MATCH" ELSE "MISMATCH"]

\* max(absolute, |expected| * relative) admits the difference d; relative is 0 or 1 / RelativeParts
Admits(d, expected, absolute, relative) ==
  RelativeParts * d <= Max({RelativeParts * absolute, relative * Gap(expected, 0)})

\* _numeric; positive is positive_actual
Numeric(field, line, rule, expected, actual, absolute, relative, positive) ==
  [field |-> field, line |-> line, rule |-> rule, expected |-> expected, actual |-> actual,
   status |->
     IF actual = Null \/ expected = Null THEN "UNKNOWN"
     ELSE IF /\ actual >= 0 /\ ~(positive /\ actual = 0)
             /\ Admits(IF rule = "equal" THEN Gap(actual, expected) ELSE actual - expected,
                       expected, absolute, relative)
          THEN "MATCH" ELSE "MISMATCH"]

\* _received: the goods received of one purchase order line, over all receipts
Received(po, n) == MapThenSumSet(LAMBDA r : po.receipts[r][n], DOMAIN po.receipts)
ReceivedValue(po) == MapThenSumSet(LAMBDA n : Received(po, n) * po.lines[n].unit_price,
                                   DOMAIN po.lines)

\* The checks of purchase order line n against the invoice line in its place
LineChecks(e, po, n) ==
  LET ordered == po.lines[n]
      read(f) == IF n \in DOMAIN e.lines THEN e.lines[n][f] ELSE Null
      quantity == read("quantity")
      due == IF quantity = Null THEN Null ELSE quantity * ordered.unit_price
  IN { Identity("description", n, ordered.description, read("description")),
       Numeric("unit_price", n, "equal", ordered.unit_price, read("unit_price"), 1, 1, FALSE),
       Numeric("quantity_ordered", n, "at_most", ordered.quantity, quantity, 0, 0, TRUE),
       Numeric("quantity_received", n, "at_most", Received(po, n), quantity, 0, 0, TRUE),
       Numeric("receipt_vs_order", n, "at_most", ordered.quantity, Received(po, n), 0, 0, FALSE),
       Numeric("line_total", n, "equal", due, read("line_total"), 1, 1, FALSE) }

\* match_invoice: the checks it makes of an invoice against the snapshot it was given
Checks(e, po) ==
  IF po = Null THEN {}
  ELSE { Identity("po_number", 0, po.number, e.po_number),
         Identity("vendor_name", 0, po.vendor, e.vendor_name),
         Identity("currency", 0, po.currency, e.currency),
         Identity("line_count", 0, Len(po.lines), Len(e.lines)),
         Numeric("subtotal_ordered", 0, "at_most", po.total, e.subtotal, 1, 1, FALSE),
         Numeric("subtotal_received", 0, "at_most", ReceivedValue(po), e.subtotal, 1, 1, FALSE),
         Numeric("receipt_vs_order_total", 0, "at_most", po.total, ReceivedValue(po), 1, 1, FALSE) }
       \cup (UNION {LineChecks(e, po, n) : n \in DOMAIN po.lines})

MatchStatus(checks, po) ==
  IF \E c \in checks : c.status = "MISMATCH" THEN "FAIL"
  ELSE IF po = Null \/ \E c \in checks : c.status = "UNKNOWN" THEN "INCOMPLETE" ELSE "PASS"

-----------------------------------------------------------------------------
(* exception_taxonomy.py *)

TaxIssues == {"TAX_MISMATCH", "TAX_RATE_OUT_OF_RANGE"}
MathIssues == {"LINE_MATH_MISMATCH", "SUBTOTAL_MISMATCH", "TOTAL_MISMATCH",
               "NEGATIVE_VALUE", "NONPOSITIVE_QUANTITY"}
QuantityFields == {"quantity_ordered", "quantity_received", "receipt_vs_order",
                   "receipt_vs_order_total"}
CodeOrder == <<"DUP_EXACT", "DUP_NEAR", "MISSING_PO", "BANK_CHANGE", "CCY_MM", "PRICE_MM",
               "QTY_MM", "TAX_ERR", "MATH_ERR", "STALE_PO">>

\* The code of one failed check or issue; "none" stays unresolved
CheckCode(c) ==
  CASE c.status = "MISMATCH" /\ c.field = "currency" -> "CCY_MM"
    [] c.status = "MISMATCH" /\ c.field = "unit_price" -> "PRICE_MM"
    [] c.status = "MISMATCH" /\ c.field \in QuantityFields -> "QTY_MM"
    [] OTHER -> "none"
IssueCode(i) ==
  IF i.code \in TaxIssues THEN "TAX_ERR" ELSE IF i.code \in MathIssues THEN "MATH_ERR" ELSE "none"

\* The bank account read against the vendor's
BankCode(e, po) ==
  IF e.bank = Null \/ po = Null THEN "none" ELSE IF e.bank # po.bank THEN "BANK_CHANGE" ELSE "ok"

Finding(code, source) == [code |-> code, source |-> source]

\* classify_exceptions of a run that has its extraction, validation and match
Taxonomy(e, issues, checks, po, nearDuplicate, stale) ==
  LET failed == {c \in checks : c.status # "MATCH"}
      closed == po # Null /\ po.status \in {"CLOSED", "CANCELLED"}
      all == {Finding(CheckCode(c), c) : c \in failed}
             \cup {Finding(IssueCode(i), i) : i \in issues}
             \cup {Finding(BankCode(e, po), [field |-> "bank"])}
             \cup (IF nearDuplicate THEN {Finding("DUP_NEAR", [field |-> "similarity"])} ELSE {})
             \cup (IF po = Null THEN {Finding("MISSING_PO", [field |-> "po_number"])} ELSE {})
             \cup (IF closed THEN {Finding("STALE_PO", [field |-> "po_status"])}
                   ELSE IF stale THEN {Finding("STALE_PO", [field |-> "policy"])} ELSE {})
      findings == {f \in all : f.code \notin {"none", "ok"}}
      unresolved == {f \in all : f.code = "none"}
  IN [findings |-> findings, unresolved |-> unresolved,
      codes |-> SelectSeq(CodeOrder, LAMBDA code : \E f \in findings : f.code = code),
      status |-> IF findings # {} THEN "EXCEPTION"
                 ELSE IF unresolved # {} THEN "UNCLASSIFIED" ELSE "CLEAN"]

-----------------------------------------------------------------------------
(* policy.py and gate.py *)

AgeExceeded(po) == po # Null /\ po.age > MaxAge

\* approval_tier: upper bounds are inclusive
Tier(amount, currency) ==
  IF amount = Null \/ currency \notin DOMAIN Bands THEN "UNKNOWN"
  ELSE LET band == Bands[currency]
       IN CASE amount < 0 -> "UNKNOWN"
            [] amount \in 0 .. band.auto -> "NONE"
            [] amount \in band.auto + 1 .. band.manager -> "AP_MANAGER"
            [] amount \in band.manager + 1 .. band.director -> "PROCUREMENT_DIRECTOR"
            [] OTHER -> "DUAL_CONTROL"

Blocking == {"EXACT_DUPLICATE", "CANCELLED_PO", "SPEND_CAP_EXCEEDED"}

\* The reasons evaluate_policy finds, each with the condition it is found under
Reasons(e, issues, checks, taxonomy, po) ==
  LET amount == e.total_amount
      tier == Tier(amount, e.currency)
      banded == e.currency \in DOMAIN Bands
      known == amount # Null /\ amount >= 0
      found == [EXACT_DUPLICATE |-> "DUP_EXACT" \in Range(taxonomy.codes),
                CANCELLED_PO |-> po # Null /\ po.status = "CANCELLED",
                CLOSED_PO |-> po # Null /\ po.status = "CLOSED",
                FUTURE_PO |-> po # Null /\ po.age < 0,
                STALE_PO |-> AgeExceeded(po),
                UNSUPPORTED_CURRENCY |-> ~banded,
                UNKNOWN_AMOUNT |-> amount = Null,
                INVALID_AMOUNT |-> amount # Null /\ amount < 0,
                SPEND_CAP_EXCEEDED |-> known /\ banded /\ amount > Bands[e.currency].cap,
                APPROVAL_REQUIRED |-> known /\ tier \notin {"NONE", "UNKNOWN"},
                EXCEPTION_PRESENT |-> taxonomy.status = "EXCEPTION",
                UNRESOLVED_EVIDENCE |-> taxonomy.unresolved # {},
                VALIDATION_FAILED |-> issues # {},
                MATCH_NOT_PASSED |-> MatchStatus(checks, po) # "PASS"]
  IN {r \in DOMAIN found : found[r]}

Policy(e, issues, checks, taxonomy, po) ==
  LET reasons == Reasons(e, issues, checks, taxonomy, po)
  IN [reasons |-> reasons, tier |-> Tier(e.total_amount, e.currency),
      status |-> IF reasons \cap Blocking # {} THEN "BLOCK"
                 ELSE IF reasons # {} THEN "REVIEW" ELSE "AUTO_APPROVE_ELIGIBLE"]

HeaderFields == {"vendor_name", "bank", "invoice_number", "po_number", "currency",
                 "invoice_date", "subtotal", "tax_amount", "total_amount"}

\* minimum_field_confidence: over what was read, and 0 when nothing was
FieldTerm(e) ==
  LET read == {f \in HeaderFields : e[f] # Null}
              \cup {f \in LineFields : \E i \in DOMAIN e.lines : e.lines[i][f] # Null}
  IN IF read = {} THEN 0 ELSE Min({e.confidence[f] : f \in read})

\* The largest of the ratios n / d that the pairs <<n, d>> are
Largest(ratios) == CHOOSE r \in ratios : \A s \in ratios : s.num * r.den <= r.num * s.den

\* Mutant: the ratio of a check is not capped
MatchDeltaUncapped(checks, po) ==
  LET equal == {c \in checks : c.rule = "equal"}
      base(c) == Max({Gap(c.expected, 0), Gap(c.actual, 0), DeltaFloor})
  IN IF po = Null \/ equal = {} \/ \E c \in equal : c.status = "UNKNOWN"
     THEN [num |-> 1, den |-> 1]
     ELSE Largest({[num |-> Gap(c.expected, c.actual), den |-> base(c)] : c \in equal})

\* normalized_match_delta, as a fraction
MatchDelta(checks, po) ==
  LET equal == {c \in checks : c.rule = "equal"}
      base(c) == Max({Gap(c.expected, 0), Gap(c.actual, 0), DeltaFloor})
      ratio(c) == [num |-> Min({base(c), Gap(c.expected, c.actual)}), den |-> base(c)]
  IN IF po = Null \/ equal = {} \/ \E c \in equal : c.status = "UNKNOWN"
     THEN [num |-> 1, den |-> 1]
     ELSE Largest({ratio(c) : c \in equal})

\* CompositeGateConfig.score: weights .50, .30, .20; a fraction of percents
Score(field, delta, status) ==
  LET term == CASE status = "AUTO_APPROVE_ELIGIBLE" -> 2 [] status = "REVIEW" -> 1 [] OTHER -> 0
  IN [num |-> field * delta.den + 60 * (delta.den - delta.num) + 20 * term * delta.den,
      den |-> 2 * delta.den]
AtLeast(score, tau) == score.num >= tau * score.den

\* evaluate_composite_gate
Gate(e, checks, policy, po) ==
  LET field == FieldTerm(e)
      delta == MatchDelta(checks, po)
      score == Score(field, delta, policy.status)
      reason == IF policy.status # "AUTO_APPROVE_ELIGIBLE" THEN "POLICY"
                ELSE IF ~AutoEnabled THEN "AUTO_DISABLED"
                ELSE IF ~AtLeast(score, Threshold) THEN "BELOW_THRESHOLD" ELSE "ELIGIBLE"
  IN [score |-> score, field |-> field, delta |-> delta, reason |-> reason,
      policy_status |-> policy.status,
      route |-> IF reason = "ELIGIBLE" THEN "AUTO_APPROVE" ELSE "REVIEW"]

-----------------------------------------------------------------------------
(* schemas/policy.py and schemas/gate.py: results the models accept *)

\* PolicyResult: auto eligibility needs a known amount and no approver
PolicyAccepted(policy, e) ==
  policy.status = "AUTO_APPROVE_ELIGIBLE" =>
    /\ policy.tier = "NONE"
    /\ e.total_amount # Null /\ e.total_amount >= 0
    /\ e.currency # Null

\* CompositeGateResult: the terms and the score are between zero and one, the reason and the
\* route follow from them
GateAccepted(gate) ==
  /\ gate.field \in 0 .. 100
  /\ gate.delta.num \in 0 .. gate.delta.den
  /\ gate.score.num \in 0 .. 100 * gate.score.den
  /\ gate.score = Score(gate.field, gate.delta, gate.policy_status)
  /\ gate.reason = "POLICY" <=> gate.policy_status # "AUTO_APPROVE_ELIGIBLE"
  /\ gate.route = "AUTO_APPROVE" <=>
       /\ gate.policy_status = "AUTO_APPROVE_ELIGIBLE"
       /\ AutoEnabled /\ AtLeast(gate.score, Threshold)

-----------------------------------------------------------------------------
(* exception_queue.py, triage_evidence.py and the check of agents/triage.py *)

\* project_exception; taxonomy and policy are Null after an escalated extraction
Priority(codes, policy, escalated) ==
  IF policy = "BLOCK" \/ Range(codes) \cap {"BANK_CHANGE", "DUP_NEAR"} # {} THEN 3
  ELSE IF codes # <<>> \/ escalated \/ policy = "REVIEW" THEN 2 ELSE 1
ExceptionType(codes, escalated) ==
  IF codes # <<>> THEN Head(codes)
  ELSE IF escalated THEN "EXTRACTION_ESCALATION" ELSE "LOW_CONFIDENCE"

\* gather_triage_evidence: "policy:status" comes after two facts of the workflow, the
\* classification's status and one fact per finding, and the list is cut at MaxFacts
NamesPolicy(taxonomy) == 3 + Cardinality(taxonomy.findings) < MaxFacts

\* prepare: what becomes of a draft that proposes an action
Draft(taxonomy, policy, action) ==
  IF action = "APPROVE" /\ NamesPolicy(taxonomy) /\ policy.status = "BLOCK"
  THEN "POLICY_CONFLICT" ELSE action
=============================================================================
