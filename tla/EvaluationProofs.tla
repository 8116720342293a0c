-------------------------- MODULE EvaluationProofs --------------------------
(***************************************************************************)
(* Proofs about the controls of InvoiceControls and their evaluation,      *)
(* Evaluation: for every manifest, every batch size, every number of       *)
(* faults and evaluations, every tolerance, approval band and age limit,   *)
(* and every state of the purchase orders EvaluationAssumption allows.     *)
(***************************************************************************)
EXTENDS Evaluation, FiniteSetTheorems, SequenceTheorems, WellFoundedInduction, TLAPS

-----------------------------------------------------------------------------
(* What the policy and the gate let pass *)

\* A policy that finds no reason saw an open order, in a currency and an amount it knows, no
\* exception and nothing unresolved, no issue, and a match that passed.
LEMMA NoReasons ==
  ASSUME NEW e, NEW issues, NEW checks, NEW taxonomy, NEW po,
         Reasons(e, issues, checks, taxonomy, po) = {}
  PROVE  /\ ~(po # Null /\ po.status = "CANCELLED") /\ ~(po # Null /\ po.status = "CLOSED")
         /\ ~(po # Null /\ po.age < 0) /\ ~AgeExceeded(po)
         /\ e.currency \in DOMAIN Bands
         /\ e.total_amount # Null /\ ~(e.total_amount < 0)
         /\ ~(e.total_amount >= 0 /\ Tier(e.total_amount, e.currency) \notin {"NONE", "UNKNOWN"})
         /\ taxonomy.status # "EXCEPTION" /\ taxonomy.unresolved = {}
         /\ issues = {}
         /\ MatchStatus(checks, po) = "PASS"
<1> DEFINE R == Reasons(e, issues, checks, taxonomy, po)
<1>1. po # Null /\ po.status = "CANCELLED" => "CANCELLED_PO" \in R
  BY DEF Reasons
<1>2. po # Null /\ po.status = "CLOSED" => "CLOSED_PO" \in R
  BY DEF Reasons
<1>3. po # Null /\ po.age < 0 => "FUTURE_PO" \in R
  BY DEF Reasons
<1>4. AgeExceeded(po) => "STALE_PO" \in R
  BY DEF Reasons
<1>5. e.currency \notin DOMAIN Bands => "UNSUPPORTED_CURRENCY" \in R
  BY DEF Reasons
<1>6. e.total_amount = Null => "UNKNOWN_AMOUNT" \in R
  BY DEF Reasons
<1>7. e.total_amount # Null /\ e.total_amount < 0 => "INVALID_AMOUNT" \in R
  BY DEF Reasons
<1>8. /\ e.total_amount # Null /\ e.total_amount >= 0
      /\ Tier(e.total_amount, e.currency) \notin {"NONE", "UNKNOWN"}
      => "APPROVAL_REQUIRED" \in R
  BY DEF Reasons
<1>9. taxonomy.status = "EXCEPTION" => "EXCEPTION_PRESENT" \in R
  BY DEF Reasons
<1>10. taxonomy.unresolved # {} => "UNRESOLVED_EVIDENCE" \in R
  BY DEF Reasons
<1>11. issues # {} => "VALIDATION_FAILED" \in R
  BY DEF Reasons
<1>12. MatchStatus(checks, po) # "PASS" => "MATCH_NOT_PASSED" \in R
  BY DEF Reasons
<1> HIDE DEF R
<1>13. R = {}
  BY DEF R
<1> QED BY <1>1, <1>2, <1>3, <1>4, <1>5, <1>6, <1>7, <1>8, <1>9, <1>10, <1>11, <1>12, <1>13

\* The gate approves exactly what its policy allows and its score supports.
LEMMA GateRoute ==
  ASSUME NEW e, NEW checks, NEW policy, NEW po
  PROVE  Gate(e, checks, policy, po).route = "AUTO_APPROVE" <=>
           /\ Gate(e, checks, policy, po).policy_status = "AUTO_APPROVE_ELIGIBLE"
           /\ AtLeast(Gate(e, checks, policy, po).score, Threshold)
<1> DEFINE score == Score(FieldTerm(e), MatchDelta(checks, po), policy.status)
           high == AtLeast(score, Threshold)
<1>1. Gate(e, checks, policy, po).score = score
  BY DEF Gate
<1>2. Gate(e, checks, policy, po).policy_status = policy.status
  BY DEF Gate
<1>3. Gate(e, checks, policy, po).route =
        IF policy.status = "AUTO_APPROVE_ELIGIBLE" /\ high THEN "AUTO_APPROVE" ELSE "REVIEW"
  BY DEF Gate, AutoEnabled
<1> HIDE DEF score
<1> QED BY <1>1, <1>2, <1>3

\* The evidence of a reading, part by part.
LEMMA DecisionParts ==
  ASSUME NEW e, NEW near
  PROVE  LET po == Snapshot(e.po_number)
             issues == Validation(e)
             checks == Checks(e, po)
             taxonomy == Taxonomy(e, issues, checks, po, near, AgeExceeded(po))
             policy == Policy(e, issues, checks, taxonomy, po)
             evidence == Decision(e, near)
         IN /\ evidence.taxonomy = taxonomy
            /\ evidence.policy = policy
            /\ evidence.gate = Gate(e, checks, policy, po)
<1> DEFINE po == Snapshot(e.po_number)
           issues == Validation(e)
           checks == Checks(e, po)
           taxonomy == Taxonomy(e, issues, checks, po, near, AgeExceeded(po))
           policy == Policy(e, issues, checks, taxonomy, po)
<1> HIDE DEF po, issues, checks
<1>1. ValidateNode(e).issues = issues
  BY DEF ValidateNode, issues
<1>2. MatchNode(e, po).checks = checks
  BY DEF MatchNode, checks
<1>3. TaxonomyNode(e, ValidateNode(e), MatchNode(e, po), po, near) = taxonomy
  BY <1>1, <1>2 DEF TaxonomyNode
<1> HIDE DEF taxonomy
<1>4. PolicyNode(e, ValidateNode(e), MatchNode(e, po), taxonomy, po) = policy
  BY <1>1, <1>2 DEF PolicyNode
<1> HIDE DEF policy
<1>5. Decision(e, near) = [taxonomy |-> taxonomy, policy |-> policy,
                           gate |-> Gate(e, checks, policy, po)]
  BY <1>2, <1>3, <1>4 DEF Decision, po
<1>6. /\ Decision(e, near).taxonomy = taxonomy
      /\ Decision(e, near).policy = policy
      /\ Decision(e, near).gate = Gate(e, checks, policy, po)
  BY <1>5
<1> QED BY <1>6 DEF po, issues, checks, taxonomy, policy

\* A taxonomy with no finding and nothing unresolved found an order, with the account that was
\* read if one was, and no near duplicate.
LEMMA CleanTaxonomy ==
  ASSUME NEW e, NEW issues, NEW checks, NEW po, NEW near, NEW stale,
         Taxonomy(e, issues, checks, po, near, stale).status # "EXCEPTION",
         Taxonomy(e, issues, checks, po, near, stale).unresolved = {}
  PROVE  /\ near # TRUE
         /\ po # Null
         /\ e.bank # Null /\ e.bank = po.bank
<1> DEFINE failed == {c \in checks : c.status # "MATCH"}
           closed == po # Null /\ po.status \in {"CLOSED", "CANCELLED"}
           all == {Finding(CheckCode(c), c) : c \in failed}
                  \cup {Finding(IssueCode(i), i) : i \in issues}
                  \cup {Finding(BankCode(e, po), [field |-> "bank"])}
                  \cup (IF near THEN {Finding("DUP_NEAR", [field |-> "similarity"])} ELSE {})
                  \cup (IF po = Null THEN {Finding("MISSING_PO", [field |-> "po_number"])} ELSE {})
                  \cup (IF closed THEN {Finding("STALE_PO", [field |-> "po_status"])}
                        ELSE IF stale THEN {Finding("STALE_PO", [field |-> "policy"])} ELSE {})
           findings == {f \in all : f.code \notin {"none", "ok"}}
           unresolved == {f \in all : f.code = "none"}
           taxonomy == Taxonomy(e, issues, checks, po, near, stale)
<1>1. near = TRUE => Finding("DUP_NEAR", [field |-> "similarity"]) \in all
  OBVIOUS
<1>2. po = Null => Finding("MISSING_PO", [field |-> "po_number"]) \in all
  OBVIOUS
<1>3. Finding(BankCode(e, po), [field |-> "bank"]) \in all
  OBVIOUS
<1> HIDE DEF all
<1>4. taxonomy.status = IF findings # {} THEN "EXCEPTION"
                        ELSE IF unresolved # {} THEN "UNCLASSIFIED" ELSE "CLEAN"
  BY DEF Taxonomy, all
<1>5. taxonomy.unresolved = unresolved
  BY DEF Taxonomy, all
<1>6. \A f \in all : f.code = "ok"
  BY <1>4, <1>5
<1>7. near # TRUE /\ po # Null
  BY <1>1, <1>2, <1>6 DEF Finding
<1>8. BankCode(e, po) = "ok"
  BY <1>3, <1>6 DEF Finding
<1> QED BY <1>7, <1>8 DEF BankCode

\* A match that passed had an order, and every check of it did.
LEMMA PassedMatch ==
  ASSUME NEW checks, NEW po, MatchStatus(checks, po) = "PASS"
  PROVE  /\ po # Null
         /\ \A c \in checks : c.status # "MISMATCH" /\ c.status # "UNKNOWN"
BY DEF MatchStatus

\* What an identity check that passed compared was read and equal.
LEMMA PassedIdentity ==
  ASSUME NEW field, NEW line, NEW expected, NEW actual,
         Identity(field, line, expected, actual).status \notin {"MISMATCH", "UNKNOWN"}
  PROVE  actual # Null /\ expected = actual
BY DEF Identity

\* Of an invoice whose match passed, the order it names is the order it is compared with, and
\* so are its vendor, its currency and the number of its lines.
LEMMA PassedHeader ==
  ASSUME NEW e, NEW po, MatchStatus(Checks(e, po), po) = "PASS"
  PROVE  /\ e.po_number # Null /\ po.number = e.po_number
         /\ po.vendor = e.vendor_name
         /\ po.currency = e.currency
         /\ Len(po.lines) = Len(e.lines)
<1>1. po # Null /\ \A c \in Checks(e, po) : c.status \notin {"MISMATCH", "UNKNOWN"}
  BY PassedMatch
<1>2. {Identity("po_number", 0, po.number, e.po_number),
       Identity("vendor_name", 0, po.vendor, e.vendor_name),
       Identity("currency", 0, po.currency, e.currency),
       Identity("line_count", 0, Len(po.lines), Len(e.lines))} \subseteq Checks(e, po)
  BY <1>1 DEF Checks
<1> QED BY <1>1, <1>2, PassedIdentity

\* An invoice with no issue has its seven required header fields.
LEMMA ValidHeader ==
  ASSUME NEW e, Validation(e) = {}
  PROVE  \A f \in {"vendor_name", "invoice_number", "currency", "invoice_date",
                   "subtotal", "tax_amount", "total_amount"} : e[f] # Null
<1>1. Required(e, {"vendor_name", "invoice_number", "currency", "invoice_date",
                   "subtotal", "tax_amount", "total_amount"}, 0) = {}
  BY DEF Validation
<1> QED BY <1>1 DEF Required

\* What an invoice approved without a person went through: an open order no older than the
\* limit, a valid reading, a match that passed and no sign of a duplicate.
LEMMA ApprovedEvidence ==
  ASSUME NEW e, NEW near, Decision(e, near).gate.route = "AUTO_APPROVE"
  PROVE  LET po == Snapshot(e.po_number)
             gate == Decision(e, near).gate
         IN /\ near # TRUE
            /\ po # Null /\ po.status # "CANCELLED" /\ po.status # "CLOSED"
            /\ ~(po.age < 0) /\ ~(po.age > MaxAge)
            /\ e.bank = po.bank
            /\ e.currency \in DOMAIN Bands
            /\ e.total_amount # Null /\ ~(e.total_amount < 0)
            /\ ~(e.total_amount >= 0 /\ Tier(e.total_amount, e.currency) \notin {"NONE", "UNKNOWN"})
            /\ Validation(e) = {}
            /\ MatchStatus(Checks(e, po), po) = "PASS"
            /\ gate = Gate(e, Checks(e, po), Decision(e, near).policy, po)
            /\ Decision(e, near).policy.status = "AUTO_APPROVE_ELIGIBLE"
<1> DEFINE po == Snapshot(e.po_number)
           issues == Validation(e)
           checks == Checks(e, po)
           taxonomy == Taxonomy(e, issues, checks, po, near, AgeExceeded(po))
           policy == Policy(e, issues, checks, taxonomy, po)
<1>1. Decision(e, near).policy = policy /\ Decision(e, near).gate = Gate(e, checks, policy, po)
  BY DecisionParts
<1>2. Gate(e, checks, policy, po).policy_status = policy.status
  BY DEF Gate
<1>3. policy.status = "AUTO_APPROVE_ELIGIBLE"
  BY <1>1, <1>2, GateRoute
<1> HIDE DEF po, issues, checks, taxonomy
<1>4. Reasons(e, issues, checks, taxonomy, po) = {}
  BY <1>3 DEF Policy
<1>5. /\ ~(po # Null /\ po.status = "CANCELLED") /\ ~(po # Null /\ po.status = "CLOSED")
      /\ ~(po # Null /\ po.age < 0) /\ ~AgeExceeded(po)
      /\ e.currency \in DOMAIN Bands
      /\ e.total_amount # Null /\ ~(e.total_amount < 0)
      /\ ~(e.total_amount >= 0 /\ Tier(e.total_amount, e.currency) \notin {"NONE", "UNKNOWN"})
      /\ taxonomy.status # "EXCEPTION" /\ taxonomy.unresolved = {}
      /\ issues = {}
      /\ MatchStatus(checks, po) = "PASS"
  BY <1>4, NoReasons
<1>6. near # TRUE /\ po # Null /\ e.bank = po.bank
  <2>1. taxonomy.status # "EXCEPTION" /\ taxonomy.unresolved = {}
    BY <1>5
  <2>2. PICK stale : stale = AgeExceeded(po)
    OBVIOUS
  <2>3. /\ Taxonomy(e, issues, checks, po, near, stale).status # "EXCEPTION"
        /\ Taxonomy(e, issues, checks, po, near, stale).unresolved = {}
    BY <2>1, <2>2 DEF taxonomy
  <2> QED BY <2>3, CleanTaxonomy
<1> QED BY <1>1, <1>3, <1>5, <1>6 DEF AgeExceeded, po, issues, checks

-----------------------------------------------------------------------------
(* What may be read of a document *)

Amounts == Int \cup {Null}
Confidences == [HeaderFields \cup LineFields -> 0 .. 100]
AllSamples == UNION {Range(manifest) : manifest \in Suites}
Descriptions == {<<"item", Case(s).id>> : s \in AllSamples} \cup {<<"OTHER", "item">>}
Lines == [description : Descriptions, quantity : Amounts, unit_price : Amounts,
          tax_rate : Amounts, line_total : Amounts]

\* An extraction: amounts are whole numbers of the smallest unit or were not read, and every
\* confidence is a percentage.
ReadingFits(e) ==
  /\ DOMAIN e = HeaderFields \cup {"lines", "confidence"}
  /\ e.subtotal \in Amounts /\ e.tax_amount \in Amounts /\ e.total_amount \in Amounts
  /\ e.lines \in Seq(Lines)
  /\ e.confidence \in Confidences

\* The label of a golden sample is an extraction.
LEMMA LabelFits ==
  ASSUME NEW s \in AllSamples
  PROVE  ReadingFits(Label(s))
<1> DEFINE c == Case(s)
           quantity == Quantity + (IF c.code = "QTY_MM" THEN 1 ELSE 0)
           price == Price + (IF c.code = "PRICE_MM" THEN 500 ELSE 0)
           subtotal == quantity * price
           tax == HalfUp(subtotal * 20, 100) + (IF c.code = "TAX_ERR" THEN 700 ELSE 0)
           line == [description |-> <<"item", c.id>>, quantity |-> quantity,
                    unit_price |-> price, tax_rate |-> 20,
                    line_total |-> subtotal + (IF c.code = "MATH_ERR" THEN 700 ELSE 0)]
           label == CaseLabel(c)
<1>1. quantity \in Int /\ price \in Int
  BY GoldenAssumption
<1>2. subtotal \in Int
  <2> HIDE DEF quantity, price
  <2> QED BY <1>1
<1> HIDE DEF subtotal
<1>3. HalfUp(subtotal * 20, 100) \in Int
  BY <1>2 DEF HalfUp
<1>4. tax \in Int
  BY <1>3
<1>5. <<"item", c.id>> \in Descriptions
  BY DEF Descriptions
<1>6. line \in Lines
  <2> DEFINE total == subtotal + (IF c.code = "MATH_ERR" THEN 700 ELSE 0)
             text == <<"item", c.id>>
  <2>1. total \in Int
    BY <1>2
  <2>2. text \in Descriptions
    BY <1>5
  <2> HIDE DEF total, quantity, price, text
  <2>3. line = [description |-> text, quantity |-> quantity, unit_price |-> price,
                tax_rate |-> 20, line_total |-> total]
    BY DEF total, text
  <2> QED BY <1>1, <2>1, <2>2, <2>3 DEF Lines, Amounts
<1>7. /\ DOMAIN label = HeaderFields \cup {"lines", "confidence"}
      /\ label.subtotal = subtotal /\ label.tax_amount = tax
      /\ label.total_amount = subtotal + tax
      /\ label.lines = <<line>>
      /\ label.confidence = [f \in HeaderFields \cup LineFields |-> 100]
  BY DEF CaseLabel, subtotal, HeaderFields
<1> HIDE DEF line, tax, label
<1>8. ReadingFits(label)
  BY <1>2, <1>4, <1>6, <1>7 DEF ReadingFits, Amounts, Confidences
<1> QED BY <1>8 DEF Label, label

\* Whatever an amount may be misread as is an amount or nothing.
LEMMA OffFits ==
  ASSUME NEW v \in Amounts, v # Null, NEW w \in Off(v)
  PROVE  w \in Amounts
<1>1. v \in Int /\ v \div 200 \in Int
  BY DEF Amounts
<1> QED BY <1>1 DEF Off, Amounts

\* A misreading of an extraction is an extraction.
LEMMA MisreadFits ==
  ASSUME NEW e, ReadingFits(e), NEW numbers, NEW m \in Misread(e, numbers)
  PROVE  ReadingFits(m)
<1> USE DEF ReadingFits
<1> DEFINE line == e.lines[1]
<1>1. \/ \E f \in DOMAIN Texts : \E v \in Texts[f] : m = [e EXCEPT ![f] = v]
      \/ \E f \in {"subtotal", "tax_amount", "total_amount"} :
           e[f] # Null /\ \E v \in Off(e[f]) : m = [e EXCEPT ![f] = v]
      \/ \E n \in numbers \cup {Null} : m = [e EXCEPT !.po_number = n]
      \/ \E f \in {"bank", "line_total"}, c \in {89, 90} : m = [e EXCEPT !.confidence[f] = c]
      \/ m = [e EXCEPT !.lines = <<>>]
      \/ e.lines # <<>> /\ m = [e EXCEPT !.lines = Append(@, line)]
      \/ e.lines # <<>> /\ m = [e EXCEPT !.lines[1] = [line EXCEPT !.description = <<"OTHER", "item">>]]
      \/ /\ e.lines # <<>>
         /\ \E f \in {"quantity", "unit_price", "tax_rate", "line_total"} :
              line[f] # Null /\ \E v \in Off(line[f]) :
                m = [e EXCEPT !.lines[1] = [line EXCEPT ![f] = v]]
  <2> DEFINE texts == UNION {{[e EXCEPT ![f] = v] : v \in Texts[f]} : f \in DOMAIN Texts}
             amounts == UNION {{[e EXCEPT ![f] = v] : v \in Off(e[f])} :
                          f \in {f \in {"subtotal", "tax_amount", "total_amount"} : e[f] # Null}}
             orders == {[e EXCEPT !.po_number = n] : n \in numbers \cup {Null}}
             unsure == {[e EXCEPT !.confidence[f] = c] : f \in {"bank", "line_total"}, c \in {89, 90}}
             lined(new) == [e EXCEPT !.lines[1] = new]
             other == {[e EXCEPT !.lines = Append(@, line)],
                       lined([line EXCEPT !.description = <<"OTHER", "item">>])}
             lines == UNION {{lined([line EXCEPT ![f] = v]) : v \in Off(line[f])} :
                        f \in {f \in {"quantity", "unit_price", "tax_rate", "line_total"} :
                                 line[f] # Null}}
  <2>1. Misread(e, numbers) =
          texts \cup amounts \cup orders \cup unsure \cup {[e EXCEPT !.lines = <<>>]}
          \cup IF e.lines = <<>> THEN {} ELSE other \cup lines
    BY DEF Misread
  <2>2. m \in texts => \E f \in DOMAIN Texts : \E v \in Texts[f] : m = [e EXCEPT ![f] = v]
    BY Zenon
  <2>3. m \in amounts => \E f \in {"subtotal", "tax_amount", "total_amount"} :
          e[f] # Null /\ \E v \in Off(e[f]) : m = [e EXCEPT ![f] = v]
    OBVIOUS
  <2>4. m \in orders => \E n \in numbers \cup {Null} : m = [e EXCEPT !.po_number = n]
    OBVIOUS
  <2>5. m \in unsure => \E f \in {"bank", "line_total"}, c \in {89, 90} :
          m = [e EXCEPT !.confidence[f] = c]
    OBVIOUS
  <2>6. m \in other => \/ m = [e EXCEPT !.lines = Append(@, line)]
                       \/ m = lined([line EXCEPT !.description = <<"OTHER", "item">>])
    BY Zenon
  <2>7. m \in lines => \E f \in {"quantity", "unit_price", "tax_rate", "line_total"} :
          line[f] # Null /\ \E v \in Off(line[f]) : m = lined([line EXCEPT ![f] = v])
    BY Zenon
  <2> HIDE DEF texts, amounts, orders, unsure, other, lines
  <2> QED BY Zenon, <2>1, <2>2, <2>3, <2>4, <2>5, <2>6, <2>7
<1>2. DOMAIN Texts = {"vendor_name", "bank", "invoice_number", "currency", "invoice_date"}
  BY DEF Texts
<1>3. CASE \E f \in DOMAIN Texts : \E v \in Texts[f] : m = [e EXCEPT ![f] = v]
  <2>1. PICK f \in {"vendor_name", "bank", "invoice_number", "currency", "invoice_date"} :
          \E v : m = [e EXCEPT ![f] = v]
    BY <1>2, <1>3
  <2>2. PICK v : m = [e EXCEPT ![f] = v]
    BY <2>1
  <2> QED BY <2>2
<1>4. CASE \E f \in {"subtotal", "tax_amount", "total_amount"} :
             e[f] # Null /\ \E v \in Off(e[f]) : m = [e EXCEPT ![f] = v]
  <2>1. PICK f \in {"subtotal", "tax_amount", "total_amount"} :
          e[f] # Null /\ \E v \in Off(e[f]) : m = [e EXCEPT ![f] = v]
    BY <1>4
  <2>2. PICK v \in Off(e[f]) : m = [e EXCEPT ![f] = v]
    BY <2>1
  <2>3. e[f] \in Amounts
    BY <2>1
  <2>4. v \in Amounts
    BY <2>1, <2>3, OffFits
  <2> QED BY <2>2, <2>4
<1>5. CASE \E n \in numbers \cup {Null} : m = [e EXCEPT !.po_number = n]
  BY <1>5
<1>6. CASE \E f \in {"bank", "line_total"}, c \in {89, 90} : m = [e EXCEPT !.confidence[f] = c]
  <2>1. PICK f \in {"bank", "line_total"}, c \in {89, 90} : m = [e EXCEPT !.confidence[f] = c]
    BY <1>6
  <2>2. f \in HeaderFields \cup LineFields /\ c \in 0 .. 100
    BY DEF HeaderFields, LineFields
  <2>3. [e.confidence EXCEPT ![f] = c] \in Confidences
    BY <2>2 DEF Confidences
  <2> QED BY <2>1, <2>3
<1>7. CASE m = [e EXCEPT !.lines = <<>>]
  BY <1>7
<1>8. ASSUME e.lines # <<>>
      PROVE  line \in Lines /\ \A new \in Lines : [e.lines EXCEPT ![1] = new] \in Seq(Lines)
  BY <1>8
<1>9. CASE e.lines # <<>> /\ m = [e EXCEPT !.lines = Append(@, line)]
  BY <1>8, <1>9
<1>10. ASSUME NEW new \in Lines, e.lines # <<>>, m = [e EXCEPT !.lines[1] = new]
       PROVE  ReadingFits(m)
  BY <1>8, <1>10
<1>11. CASE e.lines # <<>> /\ m = [e EXCEPT !.lines[1] = [line EXCEPT !.description = <<"OTHER", "item">>]]
  <2>1. PICK text : text = <<"OTHER", "item">>
    OBVIOUS
  <2>2. text \in Descriptions
    BY <2>1 DEF Descriptions
  <2>3. [line EXCEPT !.description = text] \in Lines
    BY <1>8, <1>11, <2>2 DEF Lines
  <2> QED BY <1>10, <1>11, <2>1, <2>3
<1>12. CASE /\ e.lines # <<>>
            /\ \E f \in {"quantity", "unit_price", "tax_rate", "line_total"} :
                 line[f] # Null /\ \E v \in Off(line[f]) :
                   m = [e EXCEPT !.lines[1] = [line EXCEPT ![f] = v]]
  <2>1. PICK f \in {"quantity", "unit_price", "tax_rate", "line_total"} :
          line[f] # Null /\ \E v \in Off(line[f]) :
            m = [e EXCEPT !.lines[1] = [line EXCEPT ![f] = v]]
    BY <1>12
  <2>2. PICK v \in Off(line[f]) : m = [e EXCEPT !.lines[1] = [line EXCEPT ![f] = v]]
    BY <2>1
  <2>3. line[f] \in Amounts
    BY <1>8, <1>12 DEF Lines
  <2>4. v \in Amounts
    BY <2>1, <2>3, OffFits
  <2>5. [line EXCEPT ![f] = v] \in Lines
    BY <1>8, <1>12, <2>4 DEF Lines
  <2> QED BY <1>10, <1>12, <2>2, <2>5
<1> QED BY <1>1, <1>3, <1>4, <1>5, <1>6, <1>7, <1>9, <1>11, <1>12

\* A set of natural numbers that is not empty has a least element, which Min chooses.
LEMMA LeastNatural ==
  ASSUME NEW S, S \subseteq Nat, S # {}
  PROVE  Min(S) \in S /\ \A y \in S : Min(S) <= y
<1>1. PICK below : below = {p \in Nat \X Nat : p[1] < p[2]}
  OBVIOUS
<1>2. IsWellFoundedOn(below, Nat)
  BY <1>1, NatLessThanWellFounded DEF OpToRel
<1>3. PICK x \in S : \A y \in S : ~ (<<y, x>> \in below)
  BY <1>2, WFMin
<1>4. ASSUME NEW y \in S
      PROVE  x <= y
  <2>1. <<y, x>> \notin below /\ y \in Nat /\ x \in Nat
    BY <1>3
  <2>2. ~ (y < x)
    BY <1>1, <2>1
  <2> QED BY <2>1, <2>2
<1> QED BY <1>4 DEF Min

\* What the pixels correct of an extraction leaves an extraction.
LEMMA ReconciledFits ==
  ASSUME NEW e, ReadingFits(e), NEW bank, NEW number
  PROVE  ReadingFits(Reconciled(e, bank, number))
<1> DEFINE over(f, seen) == seen # Null /\ e[f] # Null /\ seen # e[f]
           replaced == {f \in {"bank", "po_number"} :
                          over(f, IF f = "bank" THEN bank ELSE number)}
           sure == [f \in DOMAIN e.confidence |->
                      IF f \in replaced THEN Min({e.confidence[f], 95}) ELSE e.confidence[f]]
           r == Reconciled(e, bank, number)
<1>1. sure \in Confidences
  <2>1. ASSUME NEW f \in DOMAIN e.confidence
        PROVE  e.confidence[f] \in 0 .. 100 /\ Min({e.confidence[f], 95}) \in 0 .. 100
    <3>1. e.confidence[f] \in 0 .. 100
      BY DEF ReadingFits, Confidences
    <3>2. Min({e.confidence[f], 95}) \in {e.confidence[f], 95}
      BY <3>1, LeastNatural
    <3> QED BY <3>1, <3>2
  <2>2. DOMAIN e.confidence = HeaderFields \cup LineFields
    BY DEF ReadingFits, Confidences
  <2> HIDE DEF replaced
  <2> QED BY <2>1, <2>2 DEF Confidences
<1>2. r = [e EXCEPT !.bank = IF "bank" \in replaced THEN bank ELSE e.bank,
                    !.po_number = IF "po_number" \in replaced THEN number ELSE e.po_number,
                    !.confidence = sure]
  BY Zenon DEF Reconciled
<1> HIDE DEF sure, r, replaced
<1>3. /\ DOMAIN r = DOMAIN e
      /\ r.subtotal = e.subtotal /\ r.tax_amount = e.tax_amount
      /\ r.total_amount = e.total_amount /\ r.lines = e.lines
      /\ "confidence" \in DOMAIN e => r.confidence = sure
  BY <1>2
<1>4. ReadingFits(r)
  BY <1>1, <1>3 DEF ReadingFits
<1> QED BY <1>4 DEF r

\* A reading is a misreading of at most n fields with what the pixels correct of it.
LEMMA ReadingParts ==
  ASSUME NEW e, NEW n
  PROVE  \A r \in Readings(e, n) : \E m \in Misreadings(e, n) : \E b, o :
           r[1] = Reconciled(m[1], b[1], o[1])
<1>1. ASSUME NEW r \in Readings(e, n)
      PROVE  \E m \in Misreadings(e, n), b \in Seen("bank", e.bank, {"other_bank"}),
               o \in Seen("po", e.po_number, Numbers \ {e.po_number}) :
                 r = Read(m, b, o)
  BY DEF Readings
<1>2. ASSUME NEW m, NEW b, NEW o
      PROVE  Read(m, b, o)[1] = Reconciled(m[1], b[1], o[1])
  BY DEF Read
<1> QED BY <1>1, <1>2

\* Whatever the model and the pixels read of a golden document is an extraction.
LEMMA ReadingsFit ==
  ASSUME NEW s \in AllSamples, NEW n, NEW r \in Readings(Label(s), n)
  PROVE  ReadingFits(r[1])
<1> DEFINE once == IF n > 0 THEN Misread(Label(s), Numbers) ELSE {}
<1>1. PICK m \in Misreadings(Label(s), n) : \E b, o : r[1] = Reconciled(m[1], b[1], o[1])
  BY ReadingParts
<1>2. \/ m = <<Label(s), 0>>
      \/ \E f \in once : m = <<f, 1>>
      \/ \E f \in once : \E g \in Misread(f, Numbers) : m = <<g, 2>>
  <2> DEFINE twice == UNION {Misread(f, Numbers) : f \in once}
  <2>1. Misreadings(Label(s), n) =
          {<<Label(s), 0>>} \cup {<<f, 1>> : f \in once}
          \cup IF n > 1 THEN {<<g, 2>> : g \in twice} ELSE {}
    BY DEF Misreadings
  <2>2. \A g \in twice : \E f \in once : g \in Misread(f, Numbers)
    BY Zenon
  <2> HIDE DEF once, twice
  <2> QED BY <2>1, <2>2
<1>3. \A f \in once : ReadingFits(f)
  BY LabelFits, MisreadFits
<1> HIDE DEF once
<1>4. \A f \in once : \A g \in Misread(f, Numbers) : ReadingFits(g)
  BY <1>3, MisreadFits
<1>5. ReadingFits(m[1])
  <2>1. CASE m = <<Label(s), 0>>
    <3>1. m[1] = Label(s)
      BY <2>1
    <3> QED BY <3>1, LabelFits
  <2>2. ASSUME NEW f \in once, m = <<f, 1>> PROVE ReadingFits(m[1])
    <3>1. m[1] = f
      BY <2>2
    <3> QED BY <1>3, <3>1
  <2>3. ASSUME NEW f \in once, NEW g \in Misread(f, Numbers), m = <<g, 2>>
        PROVE  ReadingFits(m[1])
    <3>1. m[1] = g
      BY <2>3
    <3> QED BY <1>4, <3>1
  <2> QED BY <1>2, <2>1, <2>2, <2>3
<1> QED BY <1>1, <1>5, ReconciledFits

-----------------------------------------------------------------------------
(* What the gate accepts *)

\* The one line of a golden order at its price, what was received of it, and a known age.
OrderFits(po) ==
  /\ \E text : po.lines = << [description |-> text, quantity |-> 2 * Quantity, unit_price |-> Price] >>
  /\ po.receipts \in Seq([1 .. 1 -> Nat])
  /\ po.age \in Int

\* Every order the ERP has is such an order, whatever the world changed of it.
LEMMA SnapshotFits ==
  ASSUME world \in Worlds, NEW number, Snapshot(number) # Null
  PROVE  OrderFits(Snapshot(number))
<1>1. Snapshot(number) \in ERP
  BY DEF Snapshot
<1>2. PICK o \in Orders(Samples) :
        Snapshot(number) = [f \in DOMAIN o |-> IF f \in DOMAIN world THEN world[f] ELSE o[f]]
  BY <1>1 DEF ERP
<1>3. PICK s : o = Order(s)
  BY DEF Orders
<1>4. /\ {"lines", "age", "receipts"} \subseteq DOMAIN o
      /\ o.lines = << [description |-> <<"item", s.id>>, quantity |-> 2 * Quantity,
                       unit_price |-> Price] >>
      /\ o.age = 14 /\ o.receipts = << <<Quantity>> >>
  BY <1>3 DEF Order
<1>5. o.receipts \in Seq([1 .. 1 -> Nat])
  <2>1. <<Quantity>> \in [1 .. 1 -> Nat]
    BY GoldenAssumption
  <2> QED BY <1>4, <2>1
<1>6. /\ "lines" \notin DOMAIN world
      /\ "age" \in DOMAIN world => world.age \in Int
      /\ "receipts" \in DOMAIN world => world.receipts \in Seq([1 .. 1 -> Nat])
  BY EvaluationAssumption
<1>7. /\ Snapshot(number).lines = o.lines
      /\ Snapshot(number).age \in Int
      /\ Snapshot(number).receipts \in Seq([1 .. 1 -> Nat])
  <2>1. \A f \in {"lines", "age", "receipts"} :
          Snapshot(number)[f] = IF f \in DOMAIN world THEN world[f] ELSE o[f]
    BY <1>2, <1>4
  <2>2. Snapshot(number).lines = o.lines
    BY <1>6, <2>1
  <2>3. Snapshot(number).age \in Int
    BY <1>4, <1>6, <2>1
  <2>4. Snapshot(number).receipts \in Seq([1 .. 1 -> Nat])
    BY <1>5, <1>6, <2>1
  <2> QED BY <2>2, <2>3, <2>4
<1> QED BY <1>4, <1>7 DEF OrderFits

\* The confidence in what was read is a percentage.
LEMMA FieldTermFits ==
  ASSUME NEW e, ReadingFits(e)
  PROVE  FieldTerm(e) \in 0 .. 100
<1> DEFINE read == {f \in HeaderFields : e[f] # Null}
                   \cup {f \in LineFields : \E i \in DOMAIN e.lines : e.lines[i][f] # Null}
           all == {e.confidence[f] : f \in read}
<1>1. read \subseteq HeaderFields \cup LineFields
  OBVIOUS
<1>2. FieldTerm(e) = IF read = {} THEN 0 ELSE Min(all)
  BY DEF FieldTerm
<1> HIDE DEF read
<1>3. all \subseteq 0 .. 100
  <2>1. e.confidence \in Confidences
    BY DEF ReadingFits
  <2>2. \A f \in read : e.confidence[f] \in 0 .. 100
    BY <1>1, <2>1 DEF Confidences
  <2> QED BY <2>2
<1>4. CASE read # {}
  <2>1. all # {} /\ all \subseteq Nat
    BY <1>3, <1>4
  <2> HIDE DEF all
  <2> QED BY <1>2, <1>3, <1>4, <2>1, LeastNatural
<1> QED BY <1>2, <1>4

\* The parts of a numeric check, which is unknown exactly when a side is missing.
LEMMA NumericParts ==
  ASSUME NEW field, NEW line, NEW rule, NEW expected, NEW actual, NEW absolute, NEW relative,
         NEW positive
  PROVE  LET c == Numeric(field, line, rule, expected, actual, absolute, relative, positive)
         IN /\ c.rule = rule /\ c.expected = expected /\ c.actual = actual
            /\ c.status = "UNKNOWN" <=> (actual = Null \/ expected = Null)
<1> DEFINE matches == /\ actual >= 0 /\ ~(positive /\ actual = 0)
                      /\ Admits(IF rule = "equal" THEN Gap(actual, expected) ELSE actual - expected,
                                expected, absolute, relative)
           status == IF actual = Null \/ expected = Null THEN "UNKNOWN"
                     ELSE IF matches THEN "MATCH" ELSE "MISMATCH"
           c == Numeric(field, line, rule, expected, actual, absolute, relative, positive)
<1>1. c = [field |-> field, line |-> line, rule |-> rule, expected |-> expected,
           actual |-> actual, status |-> status]
  BY DEF Numeric
<1>2. c.rule = rule /\ c.expected = expected /\ c.actual = actual /\ c.status = status
  <2> HIDE DEF status, c
  <2> QED BY <1>1
<1>3. status = "UNKNOWN" <=> (actual = Null \/ expected = Null)
  <2> HIDE DEF matches
  <2> QED OBVIOUS
<1> HIDE DEF c, status
<1>4. /\ c.rule = rule /\ c.expected = expected /\ c.actual = actual
      /\ c.status = "UNKNOWN" <=> (actual = Null \/ expected = Null)
  BY <1>2, <1>3
<1> QED BY <1>4 DEF c

\* It matches only what its sign and its tolerance admit.
LEMMA NumericMatches ==
  ASSUME NEW field, NEW line, NEW rule, NEW expected, NEW actual, NEW absolute, NEW relative,
         NEW positive,
         Numeric(field, line, rule, expected, actual, absolute, relative, positive).status
           \notin {"UNKNOWN", "MISMATCH"}
  PROVE  /\ actual # Null /\ expected # Null
         /\ actual >= 0 /\ ~(positive /\ actual = 0)
         /\ Admits(IF rule = "equal" THEN Gap(actual, expected) ELSE actual - expected,
                   expected, absolute, relative)
<1> DEFINE matches == /\ actual >= 0 /\ ~(positive /\ actual = 0)
                      /\ Admits(IF rule = "equal" THEN Gap(actual, expected) ELSE actual - expected,
                                expected, absolute, relative)
<1>1. Numeric(field, line, rule, expected, actual, absolute, relative, positive).status =
        IF actual = Null \/ expected = Null THEN "UNKNOWN"
        ELSE IF matches THEN "MATCH" ELSE "MISMATCH"
  BY DEF Numeric
<1>2. actual # Null /\ expected # Null /\ matches
  <2> HIDE DEF matches
  <2> QED BY <1>1
<1> QED BY <1>2

\* What an invoice says in the place of the order's one line.
Billed(e, f) == IF 1 \in DOMAIN e.lines THEN e.lines[1][f] ELSE Null

\* What is billed is an amount or was not read.
LEMMA BilledFits ==
  ASSUME NEW e, ReadingFits(e), NEW f \in {"quantity", "unit_price", "tax_rate", "line_total"}
  PROVE  Billed(e, f) \in Amounts
<1>1. CASE 1 \in DOMAIN e.lines
  <2>1. e.lines[1] \in Lines
    BY <1>1 DEF ReadingFits
  <2> QED BY <1>1, <2>1 DEF Billed, Lines
<1>2. CASE 1 \notin DOMAIN e.lines
  BY <1>2 DEF Billed, Amounts
<1> QED BY <1>1, <1>2

\* The checks of the one line of an order.
LEMMA GoldenLineChecks ==
  ASSUME NEW e, NEW po, OrderFits(po)
  PROVE  LET quantity == Billed(e, "quantity")
             due == IF quantity = Null THEN Null ELSE quantity * Price
         IN LineChecks(e, po, 1) =
              { Identity("description", 1, po.lines[1].description, Billed(e, "description")),
                Numeric("unit_price", 1, "equal", Price, Billed(e, "unit_price"), 1, 1, FALSE),
                Numeric("quantity_ordered", 1, "at_most", 2 * Quantity, quantity, 0, 0, TRUE),
                Numeric("quantity_received", 1, "at_most", Received(po, 1), quantity, 0, 0, TRUE),
                Numeric("receipt_vs_order", 1, "at_most", 2 * Quantity, Received(po, 1), 0, 0, FALSE),
                Numeric("line_total", 1, "equal", due, Billed(e, "line_total"), 1, 1, FALSE) }
<1>1. po.lines[1].unit_price = Price /\ po.lines[1].quantity = 2 * Quantity
  BY DEF OrderFits
<1> QED BY <1>1 DEF LineChecks, Billed

\* The two checks that compare amounts for equality: the price and the total of the line.
LEMMA EqualChecks ==
  ASSUME NEW e, NEW po, OrderFits(po), po # Null,
         NEW c \in Checks(e, po), c.rule = "equal"
  PROVE  LET quantity == Billed(e, "quantity")
             due == IF quantity = Null THEN Null ELSE quantity * Price
         IN \/ c = Numeric("unit_price", 1, "equal", Price, Billed(e, "unit_price"), 1, 1, FALSE)
            \/ c = Numeric("line_total", 1, "equal", due, Billed(e, "line_total"), 1, 1, FALSE)
<1>1. DOMAIN po.lines = {1}
  BY DEF OrderFits
<1>2. \A field, line, expected, actual : Identity(field, line, expected, actual).rule # "equal"
  BY DEF Identity
<1>3. \A field, line, expected, actual, absolute, relative, positive :
        Numeric(field, line, "at_most", expected, actual, absolute, relative, positive).rule # "equal"
  BY DEF Numeric
<1>4. ~ \E field, line, expected, actual : c = Identity(field, line, expected, actual)
  BY <1>2
<1>5. ~ \E field, line, expected, actual, absolute, relative, positive :
        c = Numeric(field, line, "at_most", expected, actual, absolute, relative, positive)
  BY <1>3
<1>6. c \in LineChecks(e, po, 1)
  <2> DEFINE inLines == UNION {LineChecks(e, po, n) : n \in DOMAIN po.lines}
  <2>1. \/ \E field, line, expected, actual : c = Identity(field, line, expected, actual)
        \/ \E field, line, expected, actual, absolute, relative, positive :
             c = Numeric(field, line, "at_most", expected, actual, absolute, relative, positive)
        \/ c \in inLines
    <3> HIDE DEF inLines
    <3>1. Checks(e, po) =
            { Identity("po_number", 0, po.number, e.po_number),
              Identity("vendor_name", 0, po.vendor, e.vendor_name),
              Identity("currency", 0, po.currency, e.currency),
              Identity("line_count", 0, Len(po.lines), Len(e.lines)),
              Numeric("subtotal_ordered", 0, "at_most", po.total, e.subtotal, 1, 1, FALSE),
              Numeric("subtotal_received", 0, "at_most", ReceivedValue(po), e.subtotal, 1, 1, FALSE),
              Numeric("receipt_vs_order_total", 0, "at_most", po.total, ReceivedValue(po), 1, 1, FALSE) }
            \cup inLines
      BY DEF Checks, inLines
    <3> QED BY <3>1
  <2>2. c \in inLines
    <3> HIDE DEF inLines
    <3> QED BY <1>4, <1>5, <2>1
  <2> QED BY <1>1, <2>2
<1> DEFINE quantity == Billed(e, "quantity")
           due == IF quantity = Null THEN Null ELSE quantity * Price
           price == Numeric("unit_price", 1, "equal", Price, Billed(e, "unit_price"), 1, 1, FALSE)
           total == Numeric("line_total", 1, "equal", due, Billed(e, "line_total"), 1, 1, FALSE)
<1>7. \/ \E field, line, expected, actual : c = Identity(field, line, expected, actual)
      \/ \E field, line, expected, actual, absolute, relative, positive :
           c = Numeric(field, line, "at_most", expected, actual, absolute, relative, positive)
      \/ c = price \/ c = total
  <2>1. LineChecks(e, po, 1) =
          { Identity("description", 1, po.lines[1].description, Billed(e, "description")),
            price,
            Numeric("quantity_ordered", 1, "at_most", 2 * Quantity, quantity, 0, 0, TRUE),
            Numeric("quantity_received", 1, "at_most", Received(po, 1), quantity, 0, 0, TRUE),
            Numeric("receipt_vs_order", 1, "at_most", 2 * Quantity, Received(po, 1), 0, 0, FALSE),
            total }
    BY GoldenLineChecks
  <2> HIDE DEF quantity, price, total
  <2> QED BY <1>6, <2>1
<1>8. c = price \/ c = total
  <2> HIDE DEF price, total
  <2> QED BY <1>4, <1>5, <1>7
<1> QED BY <1>8

\* A set of at most three numbers has a largest one, which Max chooses, and Min the smaller of two.
LEMMA MaxOfThree ==
  ASSUME NEW a \in Int, NEW b \in Int, NEW c \in Int
  PROVE  /\ Max({a, b, c}) \in {a, b, c}
         /\ Max({a, b, c}) >= a /\ Max({a, b, c}) >= b /\ Max({a, b, c}) >= c
<1>1. \E x \in {a, b, c} : \A y \in {a, b, c} : x >= y
  <2>1. CASE a >= b /\ a >= c BY <2>1
  <2>2. CASE b >= a /\ b >= c BY <2>2
  <2>3. CASE c >= a /\ c >= b BY <2>3
  <2> QED BY <2>1, <2>2, <2>3
<1> QED BY <1>1 DEF Max

\* The smaller of two natural numbers is at most either.
LEMMA MinOfTwo ==
  ASSUME NEW a \in Nat, NEW b \in Nat
  PROVE  Min({a, b}) \in Nat /\ Min({a, b}) <= a /\ Min({a, b}) <= b
BY LeastNatural

\* Of two fractions one is the larger.
LEMMA LargestOfTwo ==
  ASSUME NEW a, NEW b, NEW R, R \subseteq {a, b}, R # {},
         \A r \in R : r.num \in Nat /\ r.den \in Nat
  PROVE  Largest(R) \in R
<1>1. ASSUME NEW r \in R, NEW s \in R
      PROVE  s.num * r.den <= r.num * s.den \/ r.num * s.den <= s.num * r.den
  BY <1>1
<1>2. ASSUME NEW r \in R PROVE r.num * r.den <= r.num * r.den
  BY <1>2
<1>3. \E r \in R : \A s \in R : s.num * r.den <= r.num * s.den
  BY <1>1, <1>2
<1> QED BY <1>3 DEF Largest

\* What such a check compares are whole numbers, unless one is missing.
LEMMA EqualSides ==
  ASSUME NEW e, ReadingFits(e), NEW po, OrderFits(po), po # Null,
         NEW c \in Checks(e, po), c.rule = "equal", c.status # "UNKNOWN"
  PROVE  c.expected \in Int /\ c.actual \in Int
<1> DEFINE quantity == Billed(e, "quantity")
           due == IF quantity = Null THEN Null ELSE quantity * Price
<1>1. Billed(e, "unit_price") \in Amounts /\ Billed(e, "line_total") \in Amounts
      /\ quantity \in Amounts
  BY BilledFits
<1>2. due \in Amounts /\ Price \in Amounts
  <2> HIDE DEF quantity
  <2> QED BY <1>1, GoldenAssumption DEF Amounts
<1>3. ASSUME NEW field, NEW expected \in Amounts, NEW actual \in Amounts, NEW positive,
             c = Numeric(field, 1, "equal", expected, actual, 1, 1, positive)
      PROVE  c.expected \in Int /\ c.actual \in Int
  <2> DEFINE n == Numeric(field, 1, "equal", expected, actual, 1, 1, positive)
  <2>1. n.expected = expected /\ n.actual = actual
        /\ (n.status = "UNKNOWN" <=> (actual = Null \/ expected = Null))
    BY NumericParts
  <2>2. c = n
    BY <1>3
  <2> HIDE DEF n
  <2> QED BY <2>1, <2>2 DEF Amounts
<1>4. \/ c = Numeric("unit_price", 1, "equal", Price, Billed(e, "unit_price"), 1, 1, FALSE)
      \/ c = Numeric("line_total", 1, "equal", due, Billed(e, "line_total"), 1, 1, FALSE)
  BY EqualChecks
<1> HIDE DEF due
<1> QED BY <1>1, <1>2, <1>3, <1>4

\* The delta of a match is between zero and one.
LEMMA MatchDeltaFits ==
  ASSUME NEW e, ReadingFits(e), NEW po, po # Null => OrderFits(po)
  PROVE  LET delta == MatchDelta(Checks(e, po), po)
         IN delta.den \in Nat \ {0} /\ delta.num \in 0 .. delta.den
<1> DEFINE checks == Checks(e, po)
           equal == {c \in checks : c.rule = "equal"}
           base(c) == Max({Gap(c.expected, 0), Gap(c.actual, 0), DeltaFloor})
           ratio(c) == [num |-> Min({base(c), Gap(c.expected, c.actual)}), den |-> base(c)]
           R == {ratio(c) : c \in equal}
           one == po = Null \/ equal = {} \/ \E c \in equal : c.status = "UNKNOWN"
           delta == MatchDelta(checks, po)
<1>1. delta = IF one THEN [num |-> 1, den |-> 1] ELSE Largest(R)
  BY DEF MatchDelta
<1>2. CASE one
  BY <1>1, <1>2
<1>3. CASE ~one
  <2>1. po # Null /\ equal # {} /\ \A c \in equal : c.status # "UNKNOWN"
    BY <1>3
  <2>2. ASSUME NEW c \in equal
        PROVE  c.expected \in Int /\ c.actual \in Int
    BY <2>1, EqualSides
  <2>3. PICK a, b : \A c \in equal : c = a \/ c = b
    BY <2>1, EqualChecks
  <2> HIDE DEF equal
  <2>4. ASSUME NEW c \in equal
        PROVE  ratio(c).den \in Nat \ {0} /\ ratio(c).num \in 0 .. ratio(c).den
    <3>1. /\ Gap(c.expected, 0) \in Nat /\ Gap(c.actual, 0) \in Nat
          /\ Gap(c.expected, c.actual) \in Nat
      BY <2>2 DEF Gap
    <3>2. base(c) \in Nat \ {0}
      <4>1. ASSUME NEW g \in Nat, NEW h \in Nat PROVE Max({g, h, 100}) \in Nat \ {0}
        <5>1. Max({g, h, 100}) \in {g, h, 100} /\ Max({g, h, 100}) >= 100
          BY MaxOfThree
        <5> QED BY <5>1
      <4> QED BY <3>1, <4>1 DEF DeltaFloor
    <3> HIDE DEF base
    <3>3. Min({base(c), Gap(c.expected, c.actual)}) \in 0 .. base(c)
      BY <3>1, <3>2, MinOfTwo
    <3> QED BY <3>2, <3>3
  <2> HIDE DEF ratio
  <2>5. Largest(R) \in R
    <3>1. R \subseteq {ratio(a), ratio(b)} /\ R # {}
      BY <2>1, <2>3
    <3>2. \A r \in R : r.num \in Nat /\ r.den \in Nat
      BY <2>4
    <3> HIDE DEF R
    <3> QED BY <3>1, <3>2, LargestOfTwo
  <2>6. PICK c \in equal : delta = ratio(c)
    BY <1>1, <1>3, <2>5
  <2> QED BY <2>4, <2>6
<1> QED BY <1>2, <1>3

\* The score of terms within their bounds is within its own.
LEMMA ScoreFits ==
  ASSUME NEW field \in 0 .. 100, NEW delta, delta.den \in Nat \ {0}, delta.num \in 0 .. delta.den,
         NEW status
  PROVE  Score(field, delta, status).num \in 0 .. 100 * Score(field, delta, status).den
<1> DEFINE term == CASE status = "AUTO_APPROVE_ELIGIBLE" -> 2 [] status = "REVIEW" -> 1 [] OTHER -> 0
           score == Score(field, delta, status)
<1>1. term \in 0 .. 2
  OBVIOUS
<1>2. PICK d \in Nat \ {0}, n \in Nat : d = delta.den /\ n = delta.num /\ n <= d
  OBVIOUS
<1>3. score = [num |-> field * d + 60 * (d - n) + 20 * term * d, den |-> 2 * d]
  BY <1>2 DEF Score
<1> HIDE DEF term
<1>4. score.num = field * d + 60 * (d - n) + 20 * term * d /\ score.den = 2 * d
  BY <1>3
<1> HIDE DEF score
<1>5. field * d \in 0 .. 100 * d
  OBVIOUS
<1>6. term * d \in 0 .. 2 * d
  BY <1>1
<1>7. score.num \in 0 .. 100 * score.den
  <2>1. PICK a \in 0 .. 100 * d, b \in 0 .. 2 * d : a = field * d /\ b = term * d
    BY <1>5, <1>6
  <2>2. 20 * term * d = 20 * b
    BY <1>1, <2>1
  <2>3. score.num = a + 60 * (d - n) + 20 * b
    BY <1>4, <2>1, <2>2
  <2>4. a \in Int /\ 0 <= a /\ a <= 100 * d /\ b \in Int /\ 0 <= b /\ b <= 2 * d
    BY <2>1
  <2>5. a + 60 * (d - n) + 20 * b \in 0 .. 200 * d
    BY <1>2, <2>4
  <2>6. 100 * score.den = 200 * d
    BY <1>4
  <2> QED BY <2>3, <2>5, <2>6
<1> QED BY <1>7 DEF score

\* A tier that needs no approver is that of a known amount within the automatic band.
LEMMA TierNone ==
  ASSUME NEW amount \in Int, NEW currency \in DOMAIN Bands, amount >= 0,
         Tier(amount, currency) \in {"NONE", "UNKNOWN"}
  PROVE  Tier(amount, currency) = "NONE" /\ amount \in 0 .. Bands[currency].auto
<1>1. amount # Null
  BY ControlsAssumption
<1>2. Bands[currency].auto \in Nat
  BY ControlsAssumption
<1> QED BY <1>1, <1>2 DEF Tier

\* No model refuses the evidence of a reading: the policy that found nothing knows a payable
\* amount, and every term of the gate and its score are within their bounds.
LEMMA EvidenceAccepted ==
  ASSUME world \in Worlds, NEW e, ReadingFits(e), NEW near
  PROVE  /\ PolicyAccepted(Decision(e, near).policy, e)
         /\ GateAccepted(Decision(e, near).gate)
<1> DEFINE po == Snapshot(e.po_number)
           issues == Validation(e)
           checks == Checks(e, po)
           taxonomy == Taxonomy(e, issues, checks, po, near, AgeExceeded(po))
           policy == Policy(e, issues, checks, taxonomy, po)
           gate == Gate(e, checks, policy, po)
<1>1. Decision(e, near).policy = policy /\ Decision(e, near).gate = gate
  BY DecisionParts
<1>2. po # Null => OrderFits(po)
  BY SnapshotFits
<1>3. /\ MatchDelta(checks, po).den \in Nat \ {0}
      /\ MatchDelta(checks, po).num \in 0 .. MatchDelta(checks, po).den
  BY <1>2, MatchDeltaFits
<1> HIDE DEF po, issues, checks, taxonomy
<1>4. PolicyAccepted(policy, e)
  <2>1. policy.tier = Tier(e.total_amount, e.currency)
        /\ (policy.status = "AUTO_APPROVE_ELIGIBLE" => Reasons(e, issues, checks, taxonomy, po) = {})
    BY DEF Policy
  <2>2. SUFFICES ASSUME Reasons(e, issues, checks, taxonomy, po) = {}
                 PROVE  /\ Tier(e.total_amount, e.currency) = "NONE"
                        /\ e.total_amount # Null /\ e.total_amount >= 0 /\ e.currency # Null
    <3> HIDE DEF policy
    <3> QED BY <2>1 DEF PolicyAccepted
  <2>3. /\ e.currency \in DOMAIN Bands
        /\ e.total_amount # Null /\ ~(e.total_amount < 0)
        /\ ~(e.total_amount >= 0 /\ Tier(e.total_amount, e.currency) \notin {"NONE", "UNKNOWN"})
        /\ issues = {}
    BY <2>2, NoReasons
  <2>4. e.total_amount \in Int /\ e.total_amount >= 0
    BY <2>3 DEF ReadingFits, Amounts
  <2>5. e.currency # Null
    BY <2>3, ValidHeader DEF issues
  <2> QED BY <2>3, <2>4, <2>5, TierNone
<1> DEFINE score == Score(FieldTerm(e), MatchDelta(checks, po), policy.status)
           reason == IF policy.status # "AUTO_APPROVE_ELIGIBLE" THEN "POLICY"
                     ELSE IF ~AutoEnabled THEN "AUTO_DISABLED"
                     ELSE IF ~AtLeast(score, Threshold) THEN "BELOW_THRESHOLD" ELSE "ELIGIBLE"
<1> HIDE DEF policy
<1>5. score.num \in 0 .. 100 * score.den
  BY <1>3, FieldTermFits, ScoreFits
<1>6. /\ gate.field = FieldTerm(e) /\ gate.delta = MatchDelta(checks, po) /\ gate.score = score
      /\ gate.policy_status = policy.status /\ gate.reason = reason
  <2> HIDE DEF score, reason
  <2>1. gate = [score |-> score, field |-> FieldTerm(e), delta |-> MatchDelta(checks, po),
                reason |-> reason, policy_status |-> policy.status,
                route |-> IF reason = "ELIGIBLE" THEN "AUTO_APPROVE" ELSE "REVIEW"]
    BY DEF Gate, score, reason
  <2> HIDE DEF gate
  <2> QED BY <2>1
<1>7. gate.route = "AUTO_APPROVE" <=>
        gate.policy_status = "AUTO_APPROVE_ELIGIBLE" /\ AtLeast(gate.score, Threshold)
  BY GateRoute
<1>8. gate.reason = "POLICY" <=> gate.policy_status # "AUTO_APPROVE_ELIGIBLE"
  <2> HIDE DEF score, gate
  <2> QED BY <1>6
<1>9. GateAccepted(gate)
  <2>1. gate.score = Score(gate.field, gate.delta, gate.policy_status)
    <3> HIDE DEF gate
    <3> QED BY <1>6
  <2> HIDE DEF gate, score
  <2> QED BY <1>3, <1>5, <1>6, <1>7, <1>8, <2>1, FieldTermFits DEF GateAccepted, AutoEnabled
<1> QED BY <1>1, <1>4, <1>9

-----------------------------------------------------------------------------
(* Sums over finite sets *)

\* Of the parts of a finite set, one has no other strictly within it.
LEMMA SmallestSet ==
  ASSUME NEW S, IsFiniteSet(S), NEW T, T \subseteq SUBSET S, T # {}
  PROVE  \E x \in T : \A y \in T : ~(y \subseteq x /\ y # x)
<1>1. T \subseteq FiniteSubsetsOf(S)
  BY FS_Subset DEF FiniteSubsetsOf
<1>2. PICK x \in T : \A y \in T : <<y, x>> \notin StrictSubsetOrdering(S)
  BY <1>1, FS_StrictSubsetOrderingWellFounded, WFMin
<1>3. \A y \in T : y \in SUBSET S
  OBVIOUS
<1> QED BY <1>2, <1>3 DEF StrictSubsetOrdering

\* sums gives every subset of D the sum of its weights, one element at a time.
First(s) == CHOOSE x \in s : TRUE
Sums(D, weight, sums) ==
  sums = [s \in SUBSET D |-> IF s = {} THEN 0 ELSE weight[First(s)] + sums[s \ {First(s)}]]

\* What remains of a set without its first element is strictly within it.
LEMMA Remaining ==
  ASSUME NEW s, s # {}
  PROVE  First(s) \in s /\ s \ {First(s)} \subseteq s /\ s \ {First(s)} # s
BY DEF First

\* Sums at a set and at what remains of it.
LEMMA SumsAt ==
  ASSUME NEW D, NEW weight, NEW sums, Sums(D, weight, sums), NEW s \in SUBSET D
  PROVE  /\ s = {} => sums[s] = 0
         /\ s # {} => sums[s] = weight[First(s)] + sums[s \ {First(s)}]
<1> DEFINE value(t) == IF t = {} THEN 0 ELSE weight[First(t)] + sums[t \ {First(t)}]
<1>1. sums = [t \in SUBSET D |-> value(t)]
  BY DEF Sums
<1>2. sums[s] = value(s)
  <2> HIDE DEF value
  <2> QED BY <1>1
<1> QED BY <1>2

\* The sums of a set and of a part of it agree on the part.
LEMMA SumsAgree ==
  ASSUME NEW D, IsFiniteSet(D), NEW weight, NEW all, Sums(D, weight, all),
         NEW B \in SUBSET D, NEW part, Sums(B, weight, part)
  PROVE  \A s \in SUBSET B : all[s] = part[s]
<1> DEFINE T == {s \in SUBSET B : all[s] # part[s]}
<1> SUFFICES ASSUME T # {} PROVE FALSE
  OBVIOUS
<1>1. PICK x \in T : \A y \in T : ~(y \subseteq x /\ y # x)
  <2>1. T \subseteq SUBSET D
    OBVIOUS
  <2>2. T # {}
    OBVIOUS
  <2> HIDE DEF T
  <2> QED BY <2>1, <2>2, SmallestSet
<1>2. x \in SUBSET B /\ x \in SUBSET D /\ all[x] # part[x]
  OBVIOUS
<1>3. x # {}
  BY <1>2, SumsAt
<1>4. PICK rest : rest = x \ {First(x)}
  OBVIOUS
<1>5. rest \subseteq x /\ rest # x
  BY <1>3, <1>4, Remaining
<1>6. all[rest] = part[rest]
  BY <1>1, <1>2, <1>5
<1>7. all[x] = weight[First(x)] + all[rest] /\ part[x] = weight[First(x)] + part[rest]
  BY <1>2, <1>3, <1>4, SumsAt
<1> QED BY <1>2, <1>6, <1>7

\* Every finite set has its sums.
LEMMA SumsExist ==
  ASSUME NEW D, IsFiniteSet(D), NEW weight
  PROVE  \E sums : Sums(D, weight, sums)
<1> DEFINE T == {s \in SUBSET D : ~ \E sums : Sums(s, weight, sums)}
<1> SUFFICES ASSUME T # {} PROVE FALSE
  OBVIOUS
<1>1. PICK B \in T : \A y \in T : ~(y \subseteq B /\ y # B)
  <2>1. T \subseteq SUBSET D
    OBVIOUS
  <2>2. T # {}
    OBVIOUS
  <2> HIDE DEF T
  <2> QED BY <2>1, <2>2, SmallestSet
<1>2. B \in SUBSET D /\ ~ \E sums : Sums(B, weight, sums)
  OBVIOUS
<1> DEFINE sumsOf(t) == CHOOSE sums : Sums(t, weight, sums)
           value(t) == sumsOf(t)[t]
           g == [s \in SUBSET B |-> IF s = {} THEN 0 ELSE weight[First(s)] + value(s \ {First(s)})]
<1>3. ASSUME NEW t \in SUBSET B, t # B
      PROVE  Sums(t, weight, sumsOf(t)) /\ IsFiniteSet(t)
  <2>1. \E sums : Sums(t, weight, sums)
    BY <1>1, <1>2, <1>3
  <2>2. IsFiniteSet(t)
    BY <1>2, FS_Subset
  <2> QED BY <2>1, <2>2
<1> HIDE DEF T, sumsOf
<1>4. ASSUME NEW t \in SUBSET B, t # B
      PROVE  value(t) = g[t]
  <2>1. Sums(t, weight, sumsOf(t)) /\ IsFiniteSet(t)
    BY <1>3, <1>4
  <2>2. CASE t = {}
    <3>1. sumsOf(t)[t] = 0
      BY <2>1, <2>2, SumsAt
    <3> QED BY <2>2, <3>1
  <2>3. CASE t # {}
    <3>1. PICK rest : rest = t \ {First(t)}
      OBVIOUS
    <3>2. rest \in SUBSET t /\ rest # t
      BY <2>3, <3>1, Remaining
    <3>3. Sums(rest, weight, sumsOf(rest))
      BY <1>3, <1>4, <3>2
    <3>4. sumsOf(t)[rest] = sumsOf(rest)[rest]
      BY <2>1, <3>2, <3>3, SumsAgree
    <3>5. sumsOf(t)[t] = weight[First(t)] + sumsOf(t)[rest]
      BY <2>1, <2>3, <3>1, SumsAt
    <3>6. g[t] = weight[First(t)] + value(rest)
      BY <2>3, <3>1
    <3> QED BY <3>4, <3>5, <3>6
  <2> QED BY <2>2, <2>3
<1> HIDE DEF value
<1>5. ASSUME NEW s \in SUBSET B, s # {}
      PROVE  weight[First(s)] + value(s \ {First(s)}) = weight[First(s)] + g[s \ {First(s)}]
  <2>1. s \ {First(s)} \in SUBSET B /\ s \ {First(s)} # B
    BY <1>5, Remaining
  <2> QED BY <1>4, <2>1
<1>6. g = [s \in SUBSET B |-> IF s = {} THEN 0 ELSE weight[First(s)] + g[s \ {First(s)}]]
  <2>1. g = [s \in SUBSET B |-> g[s]]
    OBVIOUS
  <2>2. ASSUME NEW s \in SUBSET B
        PROVE  g[s] = IF s = {} THEN 0 ELSE weight[First(s)] + g[s \ {First(s)}]
    <3>1. CASE s = {} BY <3>1
    <3>2. CASE s # {}
      <4>1. g[s] = weight[First(s)] + value(s \ {First(s)})
        BY <3>2
      <4> QED BY <1>5, <3>2, <4>1
    <3> QED BY <3>1, <3>2
  <2> HIDE DEF g
  <2> QED BY <2>1, <2>2
<1> HIDE DEF g
<1>7. Sums(B, weight, g)
  BY <1>6 DEF Sums
<1> QED BY <1>2, <1>7

\* The sum of whole numbers is one.
LEMMA SumIsInteger ==
  ASSUME NEW D, IsFiniteSet(D), NEW weight, \A x \in D : weight[x] \in Int,
         NEW sums, Sums(D, weight, sums)
  PROVE  sums[D] \in Int
<1> DEFINE T == {s \in SUBSET D : sums[s] \notin Int}
<1> SUFFICES ASSUME T # {} PROVE FALSE
  OBVIOUS
<1>1. PICK x \in T : \A y \in T : ~(y \subseteq x /\ y # x)
  <2>1. T \subseteq SUBSET D
    OBVIOUS
  <2>2. T # {}
    OBVIOUS
  <2> HIDE DEF T
  <2> QED BY <2>1, <2>2, SmallestSet
<1>2. x \in SUBSET D /\ sums[x] \notin Int
  OBVIOUS
<1> HIDE DEF T
<1>3. x # {}
  <2>1. x = {} => sums[x] = 0
    BY <1>2, SumsAt
  <2> QED BY <1>2, <2>1
<1>4. PICK rest : rest = x \ {First(x)}
  OBVIOUS
<1>5. First(x) \in x /\ rest \subseteq x /\ rest # x
  BY <1>3, <1>4, Remaining
<1>6. sums[rest] \in Int
  <2>1. rest \notin T /\ rest \in SUBSET D
    BY <1>1, <1>2, <1>5
  <2> QED BY <2>1 DEF T
<1>7. sums[x] = weight[First(x)] + sums[rest]
  BY <1>2, <1>3, <1>4, SumsAt
<1> QED BY <1>2, <1>5, <1>6, <1>7

\* What was received of the order's line is a whole number, over however many receipts.
LEMMA ReceivedIsInteger ==
  ASSUME NEW po, OrderFits(po)
  PROVE  Received(po, 1) \in Int
<1> DEFINE D == DOMAIN po.receipts
           weight == [r \in D |-> po.receipts[r][1]]
           Adds(it) == it = [s \in SUBSET D |->
                               IF s = {} THEN 0
                               ELSE po.receipts[CHOOSE x \in s : TRUE][1] + it[s \ {CHOOSE x \in s : TRUE}]]
           sum == CHOOSE it : Adds(it)
<1>1. Received(po, 1) = sum[D]
  BY DEF Received, MapThenSumSet, MapThenFoldSet
<1>2. IsFiniteSet(D) /\ \A r \in D : weight[r] \in Int
  <2>1. po.receipts \in Seq([1 .. 1 -> Nat])
    BY DEF OrderFits
  <2>2. D = 1 .. Len(po.receipts) /\ Len(po.receipts) \in Nat
    BY <2>1
  <2>3. \A r \in D : po.receipts[r][1] \in Int
    BY <2>1, <2>2
  <2> QED BY <2>2, <2>3, FS_Interval
<1>3. ASSUME NEW it PROVE Adds(it) <=> Sums(D, weight, it)
  <2>1. ASSUME NEW s \in SUBSET D, s # {}
        PROVE  po.receipts[CHOOSE x \in s : TRUE][1] = weight[First(s)]
    <3>1. First(s) \in D
      BY <2>1, Remaining
    <3> QED BY <3>1 DEF First
  <2> HIDE DEF weight
  <2>2. [s \in SUBSET D |-> IF s = {} THEN 0
                            ELSE po.receipts[CHOOSE x \in s : TRUE][1] + it[s \ {CHOOSE x \in s : TRUE}]]
        = [s \in SUBSET D |-> IF s = {} THEN 0 ELSE weight[First(s)] + it[s \ {First(s)}]]
    BY <2>1 DEF First
  <2> QED BY <2>2 DEF Sums
<1> HIDE DEF D, weight, Adds
<1>4. Adds(sum)
  <2>1. \E it : Adds(it)
    BY <1>2, <1>3, SumsExist
  <2> QED BY <2>1
<1> HIDE DEF sum
<1>5. sum[D] \in Int
  BY <1>2, <1>3, <1>4, SumIsInteger
<1> QED BY <1>1, <1>5

\* The sum over one position is the value there.
LEMMA SumOfOne ==
  ASSUME NEW weight, weight[1] \in Int, NEW sums, Sums({1}, weight, sums)
  PROVE  sums[{1}] = weight[1]
<1>1. First({1}) = 1 /\ {1} \ {1} = {}
  BY DEF First
<1>2. sums[{}] = 0
  BY SumsAt
<1>3. sums[{1}] = weight[First({1})] + sums[{1} \ {First({1})}]
  BY SumsAt
<1> QED BY <1>1, <1>2, <1>3

\* The net and the tax of the lines of an invoice.
Net(lines) == MapThenSumSet(LAMBDA n : lines[n].line_total, DOMAIN lines)
Tax(lines) ==
  MapThenSumSet(LAMBDA n : HalfUp(lines[n].line_total * lines[n].tax_rate, 100), DOMAIN lines)

\* The net of an invoice with one line is that of the line.
LEMMA NetOfOneLine ==
  ASSUME NEW lines, DOMAIN lines = {1}, lines[1].line_total \in Int
  PROVE  Net(lines) = lines[1].line_total
<1> DEFINE D == DOMAIN lines
           weight == [n \in D |-> lines[n].line_total]
           Adds(it) == it = [s \in SUBSET D |->
                               IF s = {} THEN 0
                               ELSE lines[CHOOSE x \in s : TRUE].line_total + it[s \ {CHOOSE x \in s : TRUE}]]
           sum == CHOOSE it : Adds(it)
<1>1. Net(lines) = sum[D]
  BY DEF Net, MapThenSumSet, MapThenFoldSet
<1>2. IsFiniteSet(D) /\ D = {1} /\ weight[1] = lines[1].line_total
  BY FS_Singleton
<1>3. ASSUME NEW it PROVE Adds(it) <=> Sums(D, weight, it)
  <2>1. ASSUME NEW s \in SUBSET D, s # {}
        PROVE  lines[CHOOSE x \in s : TRUE].line_total = weight[First(s)]
    <3>1. First(s) \in D
      BY <2>1, Remaining
    <3> QED BY <3>1 DEF First
  <2> HIDE DEF weight, D
  <2>2. [s \in SUBSET D |-> IF s = {} THEN 0
                            ELSE lines[CHOOSE x \in s : TRUE].line_total + it[s \ {CHOOSE x \in s : TRUE}]]
        = [s \in SUBSET D |-> IF s = {} THEN 0 ELSE weight[First(s)] + it[s \ {First(s)}]]
    BY <2>1 DEF First
  <2> QED BY <2>2 DEF Sums
<1> HIDE DEF D, weight, Adds
<1>4. Adds(sum)
  <2>1. \E it : Adds(it)
    BY <1>2, <1>3, SumsExist
  <2> QED BY <2>1
<1> HIDE DEF sum
<1>5. sum[D] = weight[1]
  BY <1>2, <1>3, <1>4, SumOfOne
<1> QED BY <1>1, <1>2, <1>5

\* Its tax is that of the line.
LEMMA TaxOfOneLine ==
  ASSUME NEW lines, DOMAIN lines = {1},
         HalfUp(lines[1].line_total * lines[1].tax_rate, 100) \in Int
  PROVE  Tax(lines) = HalfUp(lines[1].line_total * lines[1].tax_rate, 100)
<1> DEFINE D == DOMAIN lines
           tax(n) == HalfUp(lines[n].line_total * lines[n].tax_rate, 100)
           weight == [n \in D |-> tax(n)]
           Adds(it) == it = [s \in SUBSET D |->
                               IF s = {} THEN 0
                               ELSE tax(CHOOSE x \in s : TRUE) + it[s \ {CHOOSE x \in s : TRUE}]]
           sum == CHOOSE it : Adds(it)
<1>1. Tax(lines) = sum[D]
  BY DEF Tax, MapThenSumSet, MapThenFoldSet
<1> HIDE DEF tax
<1>2. IsFiniteSet(D) /\ D = {1} /\ weight[1] = tax(1)
  BY FS_Singleton
<1>3. ASSUME NEW it PROVE Adds(it) <=> Sums(D, weight, it)
  <2>1. ASSUME NEW s \in SUBSET D, s # {}
        PROVE  tax(CHOOSE x \in s : TRUE) = weight[First(s)]
    <3>1. First(s) \in D
      BY <2>1, Remaining
    <3> QED BY <3>1 DEF First
  <2> HIDE DEF weight, D
  <2>2. [s \in SUBSET D |-> IF s = {} THEN 0
                            ELSE tax(CHOOSE x \in s : TRUE) + it[s \ {CHOOSE x \in s : TRUE}]]
        = [s \in SUBSET D |-> IF s = {} THEN 0 ELSE weight[First(s)] + it[s \ {First(s)}]]
    BY <2>1 DEF First
  <2> QED BY <2>2 DEF Sums
<1> HIDE DEF D, weight, Adds
<1>4. Adds(sum)
  <2>1. \E it : Adds(it)
    BY <1>2, <1>3, SumsExist
  <2> QED BY <2>1
<1> HIDE DEF sum
<1>5. tax(1) \in Int
  BY DEF tax
<1>6. sum[D] = weight[1]
  BY <1>2, <1>3, <1>4, <1>5, SumOfOne
<1> QED BY <1>1, <1>2, <1>6 DEF tax

\* The complete sum of one value is the value.
LEMMA CompleteSumOfOne ==
  ASSUME NEW values, DOMAIN values = {1}, values[1] \in Int
  PROVE  CompleteSum(values) = values[1]
<1> DEFINE sum == CHOOSE it : Sums(DOMAIN values, values, it)
<1>1. FoldSeq(LAMBDA v, total : v + total, 0, values) = sum[DOMAIN values]
  BY DEF FoldSeq, FoldFunction, FoldFunctionOnSet, MapThenFoldSet, Sums, First
<1>2. Sums({1}, values, sum)
  <2>1. \E it : Sums({1}, values, it)
    BY FS_Singleton, SumsExist
  <2> QED BY <2>1
<1> HIDE DEF sum
<1>3. sum[DOMAIN values] = values[1]
  BY <1>2, SumOfOne
<1>4. values # <<>> /\ \A i \in DOMAIN values : values[i] # Null
  BY ControlsAssumption
<1>5. CompleteSum(values) = FoldSeq(LAMBDA v, total : v + total, 0, values)
  BY <1>4 DEF CompleteSum
<1> QED BY <1>1, <1>3, <1>5

-----------------------------------------------------------------------------
(* What an approved invoice is owed *)

\* A score at the threshold leaves the match and the policy no room for a field below 90 percent.
LEMMA FieldAtThreshold ==
  ASSUME NEW field \in 0 .. 100, NEW delta, delta.den \in Nat \ {0}, delta.num \in 0 .. delta.den,
         AtLeast(Score(field, delta, "AUTO_APPROVE_ELIGIBLE"), Threshold)
  PROVE  field >= 90
<1> DEFINE score == Score(field, delta, "AUTO_APPROVE_ELIGIBLE")
<1>1. PICK d \in Nat \ {0}, n \in Nat : d = delta.den /\ n = delta.num /\ n <= d
  OBVIOUS
<1>2. score = [num |-> field * d + 60 * (d - n) + 20 * 2 * d, den |-> 2 * d]
  BY <1>1 DEF Score
<1>3. score.num = field * d + 60 * (d - n) + 40 * d /\ score.den = 2 * d
  BY <1>2
<1>4. score.num >= 95 * score.den
  BY DEF AtLeast, Threshold
<1> HIDE DEF score
<1>5. PICK fd \in Int : fd = field * d
  OBVIOUS
<1>6. fd >= 90 * d
  <2>1. fd + 60 * (d - n) + 40 * d >= 95 * (2 * d)
    BY <1>3, <1>4, <1>5
  <2> QED BY <1>1, <2>1
<1>7. ASSUME field <= 89 PROVE FALSE
  <2>1. fd <= 89 * d
    BY <1>5, <1>7
  <2> QED BY <1>6, <2>1
<1> QED BY <1>7

\* An invoice with no issue has no issue on its line.
LEMMA ValidLine ==
  ASSUME NEW e, ReadingFits(e), Validation(e) = {}, DOMAIN e.lines = {1}
  PROVE  LET line == e.lines[1]
         IN /\ line.quantity \in Nat \ {0} /\ line.unit_price \in Nat
            /\ line.line_total \in Nat /\ line.tax_rate \in 0 .. 100
<1> DEFINE line == e.lines[1]
<1>1. LineIssues(line, 1, e.currency) = {}
  <2>1. (UNION {LineIssues(e.lines[i], i, e.currency) : i \in DOMAIN e.lines}) = {}
    BY DEF Validation
  <2> QED BY <2>1
<1>2. line \in Lines
  BY DEF ReadingFits
<1> HIDE DEF line
<1>3. /\ line.quantity \in Amounts /\ line.unit_price \in Amounts /\ line.line_total \in Amounts
      /\ line.tax_rate \in Amounts
  BY <1>2 DEF Lines
<1>4. /\ Required(line, LineFields, 1) = {}
      /\ Negative(line, {"unit_price", "line_total"}, 1) = {}
      /\ {q \in {line.quantity} : q # Null /\ q <= 0} = {}
      /\ {r \in {line.tax_rate} : r # Null /\ r \notin 0 .. 100} = {}
  BY <1>1 DEF LineIssues
<1>5. \A f \in LineFields : line[f] # Null
  BY <1>4 DEF Required
<1>6. ~(line.unit_price < 0) /\ ~(line.line_total < 0)
  BY <1>4, <1>5 DEF Negative, LineFields
<1>7. ~(line.quantity <= 0) /\ line.tax_rate \in 0 .. 100
  BY <1>4, <1>5 DEF LineFields
<1>8. /\ line.quantity \in Nat \ {0} /\ line.unit_price \in Nat
      /\ line.line_total \in Nat /\ line.tax_rate \in 0 .. 100
  BY <1>3, <1>5, <1>6, <1>7 DEF LineFields, Amounts
<1> QED BY <1>8 DEF line

\* A comparison that found nothing is within its tolerance.
LEMMA ComparedWithin ==
  ASSUME NEW code, NEW field, NEW line, NEW expected \in Int, NEW actual \in Int, NEW near \in Nat,
         Compare(code, field, line, expected, actual, near) = {}
  PROVE  Gap(expected, actual) <= near
BY DEF Compare, Gap

\* The total of an invoice with one line and no issue is that of the line and its tax, within
\* the tolerance of three comparisons.
LEMMA ValidTotal ==
  ASSUME NEW e, ReadingFits(e), Validation(e) = {}, DOMAIN e.lines = {1}
  PROVE  LET net == e.lines[1].line_total
             tax == HalfUp(e.lines[1].line_total * e.lines[1].tax_rate, 100)
         IN /\ tax \in Int
            /\ Gap(e.total_amount, net + tax) <= 3 * Tolerance[e.currency]
<1> DEFINE line == e.lines[1]
           net == line.line_total
           tax == HalfUp(line.line_total * line.tax_rate, 100)
           nets == [i \in DOMAIN e.lines |-> Unsigned(e.lines[i].line_total)]
           taxes == [i \in DOMAIN e.lines |-> LineTax(e.lines[i])]
           near == Tolerance[e.currency]
<1>1. net \in Nat /\ line.tax_rate \in 0 .. 100
  BY ValidLine
<1>2. tax \in Int
  <2> HIDE DEF line
  <2> QED BY <1>1 DEF HalfUp
<1>3. Null \notin Int
  BY ControlsAssumption
<1>4. CompleteSum(nets) = net
  <2>1. nets[1] = net /\ DOMAIN nets = {1}
    BY <1>1, <1>3 DEF Unsigned
  <2> HIDE DEF nets
  <2> QED BY <1>1, <2>1, CompleteSumOfOne
<1>5. CompleteSum(taxes) = tax
  <2>1. LineTax(line) = tax
    <3> HIDE DEF line
    <3> QED BY <1>1, <1>3 DEF LineTax, Unsigned, Rate
  <2>2. taxes[1] = tax /\ DOMAIN taxes = {1}
    BY <2>1
  <2> HIDE DEF taxes
  <2> QED BY <1>2, <2>2, CompleteSumOfOne
<1>6. /\ e.currency \in DOMAIN Tolerance
      /\ e.subtotal \in Nat /\ e.tax_amount \in Nat /\ e.total_amount \in Nat
  <2>1. e.currency # Null /\ e.subtotal # Null /\ e.tax_amount # Null /\ e.total_amount # Null
    BY ValidHeader
  <2>2. /\ (IF e.currency # Null /\ e.currency \notin DOMAIN Tolerance
            THEN {Issue("UNSUPPORTED_CURRENCY", "currency", 0)} ELSE {}) = {}
        /\ Negative(e, {"subtotal", "tax_amount", "total_amount"}, 0) = {}
    BY DEF Validation
  <2>3. e.currency \in DOMAIN Tolerance
    BY <2>1, <2>2
  <2>4. ~(e.subtotal < 0) /\ ~(e.tax_amount < 0) /\ ~(e.total_amount < 0)
    BY <2>1, <2>2 DEF Negative
  <2> QED BY <2>1, <2>3, <2>4 DEF ReadingFits, Amounts
<1>7. near \in Nat
  BY <1>6, ControlsAssumption
<1>8. SumIssues(e) = {}
  BY <1>6 DEF Validation
<1>9. Unsigned(e.subtotal) = e.subtotal /\ Unsigned(e.tax_amount) = e.tax_amount
      /\ Unsigned(e.total_amount) = e.total_amount
  BY <1>3, <1>6 DEF Unsigned
<1> HIDE DEF nets, taxes, net, tax, near
<1>10. /\ Compare("SUBTOTAL_MISMATCH", "subtotal", 0, net, e.subtotal, near) = {}
       /\ Compare("TAX_MISMATCH", "tax_amount", 0, tax, e.tax_amount, near) = {}
       /\ Compare("TOTAL_MISMATCH", "total_amount", 0, e.subtotal + e.tax_amount, e.total_amount, near) = {}
  <2>1. net # Null /\ tax # Null /\ e.subtotal # Null /\ e.tax_amount # Null /\ e.total_amount # Null
    BY <1>1, <1>2, <1>3, <1>6
  <2> QED BY <1>4, <1>5, <1>8, <1>9, <2>1 DEF SumIssues, nets, taxes, near
<1>11. /\ Gap(net, e.subtotal) <= near
       /\ Gap(tax, e.tax_amount) <= near
       /\ Gap(e.subtotal + e.tax_amount, e.total_amount) <= near
  <2>1. PICK code, field : Compare(code, field, 0, net, e.subtotal, near) = {}
    BY <1>10
  <2>2. PICK code2, field2 : Compare(code2, field2, 0, tax, e.tax_amount, near) = {}
    BY <1>10
  <2>3. PICK code3, field3 :
          Compare(code3, field3, 0, e.subtotal + e.tax_amount, e.total_amount, near) = {}
    BY <1>10
  <2>4. net \in Int /\ e.subtotal \in Int /\ e.tax_amount \in Int /\ e.total_amount \in Int
        /\ e.subtotal + e.tax_amount \in Int
    BY <1>1, <1>6
  <2>5. Gap(net, e.subtotal) <= near
    BY <1>7, <2>1, <2>4, ComparedWithin
  <2>6. Gap(tax, e.tax_amount) <= near
    BY <1>2, <1>7, <2>2, <2>4, ComparedWithin
  <2>7. Gap(e.subtotal + e.tax_amount, e.total_amount) <= near
    BY <1>7, <2>3, <2>4, ComparedWithin
  <2> QED BY <2>5, <2>6, <2>7
<1>12. Gap(e.total_amount, net + tax) <= 3 * near
  BY <1>1, <1>2, <1>6, <1>7, <1>11 DEF Gap
<1> QED BY <1>2, <1>12 DEF net, tax, near

\* An amount that was found equal is near the expected one.
LEMMA MatchedEqual ==
  ASSUME NEW field, NEW expected \in Nat, NEW actual \in Int, NEW positive,
         Numeric(field, 1, "equal", expected, actual, 1, 1, positive).status
           \notin {"UNKNOWN", "MISMATCH"}
  PROVE  Near(actual, expected)
<1>1. Admits(IF "equal" = "equal" THEN Gap(actual, expected) ELSE actual - expected, expected, 1, 1)
  BY NumericMatches
<1>2. RelativeParts * Gap(actual, expected) <= Max({RelativeParts * 1, 1 * Gap(expected, 0)})
  BY <1>1 DEF Admits
<1>3. {RelativeParts * 1, 1 * Gap(expected, 0)} = {RelativeParts, expected}
  BY DEF RelativeParts, Gap
<1> QED BY <1>2, <1>3 DEF Near

\* A quantity that was found to be at most what was expected is.
LEMMA MatchedAtMost ==
  ASSUME NEW field, NEW expected \in Int, NEW actual \in Int, NEW positive,
         Numeric(field, 1, "at_most", expected, actual, 0, 0, positive).status
           \notin {"UNKNOWN", "MISMATCH"}
  PROVE  actual <= expected
<1>1. Admits(IF "at_most" = "equal" THEN Gap(actual, expected) ELSE actual - expected, expected, 0, 0)
  BY NumericMatches
<1>2. RelativeParts * (actual - expected) <= Max({RelativeParts * 0, 0 * Gap(expected, 0)})
  BY <1>1 DEF Admits
<1>3. {RelativeParts * 0, 0 * Gap(expected, 0)} = {0}
  BY DEF RelativeParts, Gap
<1>4. Max({0}) = 0
  BY DEF Max
<1>5. Max({RelativeParts * 0, 0 * Gap(expected, 0)}) = 0
  BY <1>3, <1>4
<1> QED BY <1>2, <1>5 DEF RelativeParts

\* A line whose match passed bills no more than was received, at the ordered price.
LEMMA PassedLine ==
  ASSUME NEW e, NEW po, OrderFits(po), po # Null, MatchStatus(Checks(e, po), po) = "PASS",
         DOMAIN e.lines = {1}, e.lines[1].quantity \in Nat \ {0},
         e.lines[1].unit_price \in Int, e.lines[1].line_total \in Int
  PROVE  LET billed == e.lines[1]
         IN /\ billed.quantity \in 1 .. Received(po, 1)
            /\ Near(billed.unit_price, Price)
            /\ Near(billed.line_total, billed.quantity * Price)
<1> DEFINE quantity == Billed(e, "quantity")
           due == IF quantity = Null THEN Null ELSE quantity * Price
<1>1. /\ quantity = e.lines[1].quantity
      /\ Billed(e, "unit_price") = e.lines[1].unit_price
      /\ Billed(e, "line_total") = e.lines[1].line_total
  BY DEF Billed
<1>2. due = e.lines[1].quantity * Price /\ due \in Nat
  <2>1. quantity # Null /\ quantity \in Nat
    BY <1>1, ControlsAssumption
  <2> HIDE DEF quantity
  <2> QED BY <1>1, <2>1, GoldenAssumption
<1>3. \A c \in LineChecks(e, po, 1) : c.status \notin {"UNKNOWN", "MISMATCH"}
  <2>1. DOMAIN po.lines = {1}
    BY DEF OrderFits
  <2>2. LineChecks(e, po, 1) \subseteq Checks(e, po)
    BY <2>1 DEF Checks
  <2> QED BY <2>2, PassedMatch
<1> DEFINE received(positive) ==
             Numeric("quantity_received", 1, "at_most", Received(po, 1), quantity, 0, 0, positive)
           price(positive) ==
             Numeric("unit_price", 1, "equal", Price, Billed(e, "unit_price"), 1, 1, positive)
           total(positive) ==
             Numeric("line_total", 1, "equal", due, Billed(e, "line_total"), 1, 1, positive)
<1>4. received(TRUE) \in LineChecks(e, po, 1)
  BY GoldenLineChecks, ZenonT(30)
<1>5. price(FALSE) \in LineChecks(e, po, 1)
  BY GoldenLineChecks, ZenonT(30)
<1>6. total(FALSE) \in LineChecks(e, po, 1)
  BY GoldenLineChecks, ZenonT(30)
<1> HIDE DEF received, price, total
<1>7. \E positive : received(positive).status \notin {"UNKNOWN", "MISMATCH"}
  BY <1>3, <1>4
<1>8. \E positive : price(positive).status \notin {"UNKNOWN", "MISMATCH"}
  BY <1>3, <1>5
<1>9. \E positive : total(positive).status \notin {"UNKNOWN", "MISMATCH"}
  BY <1>3, <1>6
<1> HIDE DEF due
<1>10. quantity <= Received(po, 1) /\ Received(po, 1) \in Int
  BY <1>1, <1>7, ReceivedIsInteger, MatchedAtMost DEF received
<1>11. Near(e.lines[1].unit_price, Price)
  BY <1>1, <1>8, GoldenAssumption, MatchedEqual DEF price
<1>12. Near(e.lines[1].line_total, due)
  BY <1>1, <1>2, <1>9, MatchedEqual DEF total
<1> QED BY <1>1, <1>2, <1>10, <1>11, <1>12

\* What an approved reading e and its order po went through.
Passed(e, po) ==
  /\ po # Null /\ po.status # "CANCELLED" /\ po.status # "CLOSED"
  /\ ~(po.age < 0) /\ ~(po.age > MaxAge)
  /\ e.bank = po.bank
  /\ e.currency \in DOMAIN Bands
  /\ e.total_amount # Null /\ ~(e.total_amount < 0)
  /\ ~(e.total_amount >= 0 /\ Tier(e.total_amount, e.currency) \notin {"NONE", "UNKNOWN"})
  /\ Validation(e) = {}
  /\ MatchStatus(Checks(e, po), po) = "PASS"
  /\ FieldTerm(e) >= 90

\* A reading that went through the controls is owed.
LEMMA PassedIsOwed ==
  ASSUME NEW e, ReadingFits(e), NEW po, po # Null => OrderFits(po), Passed(e, po)
  PROVE  Owed(e, po)
<1>1. po # Null /\ OrderFits(po) /\ Validation(e) = {} /\ MatchStatus(Checks(e, po), po) = "PASS"
  BY DEF Passed
<1>2. po.status \notin {"CLOSED", "CANCELLED"} /\ po.age \in 0 .. MaxAge
  BY <1>1, ControlsAssumption DEF Passed, OrderFits
<1>3. /\ po.number = e.po_number /\ po.vendor = e.vendor_name /\ po.currency = e.currency
      /\ Len(po.lines) = Len(e.lines) /\ po.bank = e.bank
  BY <1>1, PassedHeader DEF Passed
<1>4. e.total_amount \in 0 .. Bands[e.currency].auto
  <2>1. e.total_amount \in Int /\ e.total_amount >= 0
    BY DEF Passed, ReadingFits, Amounts
  <2> QED BY <2>1, TierNone DEF Passed
<1>5. DOMAIN po.lines = {1} /\ Len(po.lines) = 1 /\ po.lines[1].unit_price = Price
  BY <1>1 DEF OrderFits
<1>6. DOMAIN e.lines = {1}
  <2>1. e.lines \in Seq(Lines)
    BY DEF ReadingFits
  <2>2. PICK lines \in Seq(Lines) : lines = e.lines
    BY <2>1
  <2>3. DOMAIN lines = 1 .. Len(lines)
    OBVIOUS
  <2>4. Len(lines) = 1
    BY <1>3, <1>5, <2>2
  <2> QED BY <2>2, <2>3, <2>4
<1>7. LET line == e.lines[1]
      IN /\ line.quantity \in Nat \ {0} /\ line.unit_price \in Nat
         /\ line.line_total \in Nat /\ line.tax_rate \in 0 .. 100
  BY <1>1, <1>6, ValidLine
<1>8. LET billed == e.lines[1]
      IN /\ billed.quantity \in 1 .. Received(po, 1)
         /\ Near(billed.unit_price, Price)
         /\ Near(billed.line_total, billed.quantity * Price)
  BY <1>1, <1>6, <1>7, PassedLine
<1>9. Gap(e.total_amount, Net(e.lines) + Tax(e.lines)) <= 3 * Tolerance[e.currency]
  <2>1. /\ HalfUp(e.lines[1].line_total * e.lines[1].tax_rate, 100) \in Int
        /\ Gap(e.total_amount, e.lines[1].line_total
                 + HalfUp(e.lines[1].line_total * e.lines[1].tax_rate, 100)) <= 3 * Tolerance[e.currency]
    BY <1>1, <1>6, ValidTotal
  <2>2. Net(e.lines) = e.lines[1].line_total
    BY <1>6, <1>7, NetOfOneLine
  <2>3. Tax(e.lines) = HalfUp(e.lines[1].line_total * e.lines[1].tax_rate, 100)
    BY <1>6, <2>1, TaxOfOneLine
  <2> QED BY <2>1, <2>2, <2>3
<1>10. \A n \in DOMAIN po.lines :
         LET billed == e.lines[n]
         IN /\ billed.quantity \in 1 .. Received(po, n)
            /\ Near(billed.unit_price, po.lines[n].unit_price)
            /\ Near(billed.line_total, billed.quantity * po.lines[n].unit_price)
  BY <1>5, <1>8
<1> QED BY <1>1, <1>2, <1>3, <1>4, <1>9, <1>10 DEF Owed, Net, Tax

-----------------------------------------------------------------------------
(* The runs of an evaluation *)

Statuses == {"NONE", "QUEUED", "READ", "COMPARED", "APPROVED", "REVIEW", "FAILED"}

\* The gate's evidence says that the invoice is approved.
SaysApproved(evidence) ==
  /\ evidence.gate.policy_status = "AUTO_APPROVE_ELIGIBLE"
  /\ AtLeast(evidence.gate.score, Threshold)

\* A run has what its status says: a reading once it is read, the answer of the near-duplicate
\* search once it is compared, and evidence when it is decided, which is on the side of the
\* decision.
RunFits(run) ==
  /\ "status" \in DOMAIN run /\ run.status \in Statuses
  /\ run.status \in {"READ", "COMPARED", "APPROVED"} => ReadingFits(run.read)
  /\ run.status \in {"COMPARED", "APPROVED"} => run.near \in BOOLEAN
  /\ run.status = "APPROVED" => "evidence" \in DOMAIN run
  /\ "evidence" \in DOMAIN run => /\ run.status \in {"APPROVED", "REVIEW"}
                                  /\ run.status = "APPROVED" <=> SaysApproved(run.evidence)

\* An approved invoice has no field read below 90 percent.
LEMMA ApprovedField ==
  ASSUME world \in Worlds, NEW e, ReadingFits(e), NEW near,
         Decision(e, near).gate.route = "AUTO_APPROVE"
  PROVE  FieldTerm(e) >= 90
<1> DEFINE po == Snapshot(e.po_number)
           checks == Checks(e, po)
           delta == MatchDelta(checks, po)
           policy == Decision(e, near).policy
           gate == Decision(e, near).gate
<1>1. gate = Gate(e, checks, policy, po) /\ policy.status = "AUTO_APPROVE_ELIGIBLE"
  BY ApprovedEvidence
<1>2. AtLeast(gate.score, Threshold)
  BY DecisionParts, GateRoute
<1>3. gate.score = Score(FieldTerm(e), delta, policy.status)
  BY <1>1 DEF Gate
<1>4. po # Null => OrderFits(po)
  BY SnapshotFits
<1>5. delta.den \in Nat \ {0} /\ delta.num \in 0 .. delta.den
  BY <1>4, MatchDeltaFits
<1>6. FieldTerm(e) \in 0 .. 100
  BY FieldTermFits
<1> HIDE DEF delta, gate, policy
<1>7. AtLeast(Score(FieldTerm(e), delta, "AUTO_APPROVE_ELIGIBLE"), Threshold)
  BY <1>1, <1>2, <1>3
<1> QED BY <1>5, <1>6, <1>7, FieldAtThreshold

\* What the evidence of a comparison leads to.
LEMMA EndingFits ==
  ASSUME world \in Worlds, NEW e, ReadingFits(e), NEW near \in BOOLEAN
  PROVE  LET run == Ending(e, near, Decision(e, near))
         IN /\ RunFits(run)
            /\ run.status \in {"APPROVED", "REVIEW"}
            /\ run.status = "APPROVED" =>
                 /\ run.read = e /\ run.near = FALSE /\ near = FALSE
                 /\ Passed(e, Snapshot(e.po_number))
<1> DEFINE evidence == Decision(e, near)
           accepted == PolicyAccepted(evidence.policy, e) /\ GateAccepted(evidence.gate)
           run == Ending(e, near, evidence)
<1>1. evidence.gate.route = "AUTO_APPROVE" <=> SaysApproved(evidence)
  BY DecisionParts, GateRoute DEF SaysApproved
<1>2. ASSUME evidence.gate.route = "AUTO_APPROVE"
      PROVE  near = FALSE /\ Passed(e, Snapshot(e.po_number))
  BY <1>2, ApprovedEvidence, ApprovedField DEF Passed
<1>3. accepted
  BY EvidenceAccepted
<1> HIDE DEF evidence
<1>4. /\ RunFits(run)
      /\ run.status \in {"APPROVED", "REVIEW"}
      /\ run.status = "APPROVED" =>
           /\ run.read = e /\ run.near = FALSE /\ near = FALSE
           /\ Passed(e, Snapshot(e.po_number))
  <2>1. run = [status |-> IF evidence.gate.route = "AUTO_APPROVE" THEN "APPROVED" ELSE "REVIEW",
               escalated |-> FALSE, read |-> e, near |-> near, evidence |-> evidence]
    BY <1>3 DEF Ending
  <2>2. /\ run.status = IF evidence.gate.route = "AUTO_APPROVE" THEN "APPROVED" ELSE "REVIEW"
        /\ run.read = e /\ run.near = near /\ run.evidence = evidence
        /\ "evidence" \in DOMAIN run /\ "status" \in DOMAIN run
    BY <2>1
  <2> HIDE DEF run
  <2>3. RunFits(run)
    BY <1>1, <2>2 DEF RunFits, Statuses
  <2>4. /\ run.status \in {"APPROVED", "REVIEW"}
        /\ run.status = "APPROVED" =>
             /\ run.read = e /\ run.near = FALSE /\ near = FALSE
             /\ Passed(e, Snapshot(e.po_number))
    BY <1>2, <2>2
  <2> QED BY <2>3, <2>4 DEF run
<1> QED BY <1>4 DEF evidence

\* What a step may do to a run.
RunMoves(i) ==
  \/ runs[i] = NoRun /\ runs'[i] = [status |-> "QUEUED"]
  \/ /\ runs[i].status = "QUEUED"
     /\ \E r \in Readings(Label(Of(i)), Spare) : runs'[i] = [status |-> "READ", read |-> r[1]]
  \/ runs[i].status = "QUEUED" /\ runs'[i] = [status |-> "REVIEW", escalated |-> TRUE]
  \/ /\ runs[i].status = "READ" /\ i \in vectors'
     /\ \E near \in NearChoices(i, runs[i].read) :
          runs'[i] = [status |-> "COMPARED", read |-> runs[i].read, near |-> near]
  \/ /\ runs[i].status = "COMPARED"
     /\ runs'[i] = Ending(runs[i].read, runs[i].near, Decision(runs[i].read, runs[i].near))
  \/ /\ runs[i].status \notin {"APPROVED", "REVIEW", "FAILED", "REFUSED"}
     /\ runs'[i] = [runs[i] EXCEPT !.status = "FAILED"]

\* A step changes one run at most, as its status allows; the manifest, the orders and the stored
\* embeddings stay.
RunsMove ==
  /\ UNCHANGED <<suite, world>> /\ vectors \subseteq vectors' /\ DOMAIN runs' = Ids
  /\ \A i \in Ids : \/ runs'[i] = runs[i]
                    \/ RunMoves(i) /\ \A j \in Ids \ {i} : runs'[j] = runs[j]

\* Every action moves the runs that way.
LEMMA RunsStep ==
  ASSUME [Next]_vars, DOMAIN runs = Ids
  PROVE  RunsMove
<1> USE DEF RunsMove
<1>1. CASE UNCHANGED vars
  BY <1>1 DEF vars
<1>2. CASE Start \/ Process \/ NextOrCollect \/ Collect \/ Rerun
  BY <1>2 DEF Start, Process, NextOrCollect, Collect, Rerun
<1>3. CASE Upload
  <2>1. UNCHANGED <<suite, world, vectors>>
    BY <1>3 DEF Upload
  <2>2. CASE runs' = runs
    BY <2>1, <2>2
  <2>3. CASE \E id : runs' = [runs EXCEPT ![id] = IF @ = NoRun THEN [status |-> "QUEUED"] ELSE @]
    BY <2>1, <2>3 DEF RunMoves
  <2>4. runs' = runs \/ \E id : runs' = [runs EXCEPT ![id] =
                                         IF @ = NoRun THEN [status |-> "QUEUED"] ELSE @]
    BY <1>3 DEF Upload
  <2> QED BY <2>2, <2>3, <2>4
<1>4. ASSUME NEW id, Extract(id) PROVE RunsMove
  BY <1>4 DEF Extract, Advance, RunMoves
<1>5. ASSUME NEW id, Escalate(id) PROVE RunsMove
  BY <1>5 DEF Escalate, Advance, RunMoves
<1>6. ASSUME NEW id, Search(id) PROVE RunsMove
  BY <1>6 DEF Search, Advance, RunMoves
<1>7. ASSUME NEW id, Decide(id) PROVE RunsMove
  BY <1>7 DEF Decide, Advance, RunMoves
<1>8. ASSUME NEW id, Fail(id) PROVE RunsMove
  BY <1>8 DEF Fail, Advance, RunMoves, Settled, Ended
<1>9. ASSUME NEW id, Emit(id) PROVE RunsMove
  BY <1>9 DEF Emit
<1> QED BY <1>1, <1>2, <1>3, <1>4, <1>5, <1>6, <1>7, <1>8, <1>9 DEF Next, Work


-----------------------------------------------------------------------------
(* The inductive invariant of an evaluation *)

SuiteFits == suite \in Suites /\ world \in Worlds
DomainsFit == DOMAIN runs = Ids /\ DOMAIN answers = Ids
RunsFit == \A i \in Ids : RunFits(runs[i])

\* An approved run went through the controls and has no near duplicate.
ApprovedFit ==
  \A i \in Ids : runs[i].status = "APPROVED" =>
    runs[i].near = FALSE /\ Passed(runs[i].read, Snapshot(runs[i].read.po_number))

\* A run that was compared left its embedding.
Compared(run) == run.status \in {"COMPARED", "APPROVED"}
StoredFit == \A i \in Ids : Compared(runs[i]) => i \in vectors

\* Of two runs read as the same invoice, one saw the other.
SameInvoice(a, b) ==
  Summary(a) = Summary(b) /\ a.lines = b.lines /\ a.invoice_number # Null /\ a.po_number # Null
TwinsFit ==
  \A i, j \in Ids :
    i # j /\ Compared(runs[i]) /\ Compared(runs[j]) /\ SameInvoice(runs[i].read, runs[j].read) =>
      runs[i].near = TRUE \/ runs[j].near = TRUE

\* What was uploaded has an answer that names a run; a finished sample was uploaded or is still
\* in the batch, and what is collected is every sample.
AnswersFit == \A i \in Ids : answers[i] # Null => answers[i].run \in Ids
BatchFit ==
  /\ batch \subseteq DOMAIN suite
  /\ phase \in {"ready", "work", "collect", "reported"} => batch = {}
  /\ \A i \in done : answers[i].run \in Ids \/ \E n \in batch : suite[n].id = i
  /\ phase = "collect" => done = Ids

\* What a report says of a run is what the run was.
ReportFit == report # Null => \A r \in report : RunFits(r.detail)

EvaluationInv ==
  /\ SuiteFits /\ DomainsFit /\ RunsFit /\ ApprovedFit /\ StoredFit /\ TwinsFit
  /\ AnswersFit /\ BatchFit /\ ReportFit

-----------------------------------------------------------------------------
(* It holds initially, and every step keeps it *)

\* The samples of the manifest are golden ones, each found by its own name.
LEMMA OfSample ==
  ASSUME suite \in Suites, NEW i \in Ids
  PROVE  Of(i) \in AllSamples /\ Of(i).id = i
<1>1. \E s \in Samples : s.id = i
  BY DEF Ids
<1>2. Of(i) \in Samples /\ Of(i).id = i
  BY <1>1 DEF Of
<1> QED BY <1>2 DEF Samples, AllSamples

\* Every position of the manifest names a sample.
LEMMA SampleAt ==
  ASSUME NEW n \in DOMAIN suite
  PROVE  suite[n] \in Samples /\ suite[n].id \in Ids
BY DEF Samples, Ids, Range

\* A manifest of golden samples that were not uploaded satisfies the invariant.
LEMMA InitFits == Init => EvaluationInv
<1> SUFFICES ASSUME Init PROVE EvaluationInv
  OBVIOUS
<1>1. \A i \in Ids : runs[i] = NoRun /\ answers[i] = Null
  BY DEF Init
<1>2. NoRun.status = "NONE" /\ DOMAIN NoRun = {"status"}
  BY DEF NoRun
<1>3. RunFits(NoRun)
  BY <1>2 DEF RunFits, Statuses
<1>4. SuiteFits /\ DomainsFit
  BY DEF Init, SuiteFits, DomainsFit
<1>5. RunsFit
  BY <1>1, <1>3 DEF RunsFit
<1>6. ApprovedFit /\ StoredFit /\ TwinsFit
  BY <1>1, <1>2 DEF ApprovedFit, StoredFit, TwinsFit, Compared
<1>7. AnswersFit /\ BatchFit /\ ReportFit
  BY <1>1 DEF Init, AnswersFit, BatchFit, ReportFit
<1> QED BY <1>4, <1>5, <1>6, <1>7 DEF EvaluationInv

\* A run that is moved keeps what its status says.
LEMMA MovedRunFits ==
  ASSUME EvaluationInv, NEW i \in Ids, RunMoves(i), UNCHANGED <<suite, world>>
  PROVE  RunFits(runs'[i])
<1>1. RunFits(runs[i])
  BY DEF EvaluationInv, RunsFit
<1>2. CASE runs'[i] = [status |-> "QUEUED"]
  BY <1>2 DEF RunFits, Statuses
<1>3. CASE \E r \in Readings(Label(Of(i)), Spare) : runs'[i] = [status |-> "READ", read |-> r[1]]
  <2>1. PICK r \in Readings(Label(Of(i)), Spare) : runs'[i] = [status |-> "READ", read |-> r[1]]
    BY <1>3
  <2>2. Of(i) \in AllSamples
    BY OfSample DEF EvaluationInv, SuiteFits
  <2>3. ReadingFits(r[1])
    BY <2>2, ReadingsFit
  <2> QED BY <2>1, <2>3 DEF RunFits, Statuses
<1>4. CASE runs'[i] = [status |-> "REVIEW", escalated |-> TRUE]
  BY <1>4 DEF RunFits, Statuses
<1>5. CASE /\ runs[i].status = "READ"
           /\ \E near \in NearChoices(i, runs[i].read) :
                runs'[i] = [status |-> "COMPARED", read |-> runs[i].read, near |-> near]
  <2>1. PICK near \in BOOLEAN :
          runs'[i] = [status |-> "COMPARED", read |-> runs[i].read, near |-> near]
    BY <1>5 DEF NearChoices
  <2>2. ReadingFits(runs[i].read)
    BY <1>1, <1>5 DEF RunFits
  <2> QED BY <2>1, <2>2 DEF RunFits, Statuses
<1>6. CASE /\ runs[i].status = "COMPARED"
           /\ runs'[i] = Ending(runs[i].read, runs[i].near, Decision(runs[i].read, runs[i].near))
  <2>1. ReadingFits(runs[i].read) /\ runs[i].near \in BOOLEAN
    BY <1>1, <1>6 DEF RunFits
  <2>2. world \in Worlds
    BY DEF EvaluationInv, SuiteFits
  <2> QED BY <1>6, <2>1, <2>2, EndingFits
<1>7. CASE /\ runs[i].status \notin {"APPROVED", "REVIEW", "FAILED", "REFUSED"}
           /\ runs'[i] = [runs[i] EXCEPT !.status = "FAILED"]
  <2>1. "evidence" \notin DOMAIN runs[i]
    BY <1>1, <1>7 DEF RunFits
  <2>2. DOMAIN runs'[i] = DOMAIN runs[i]
    BY <1>7
  <2>3. "status" \in DOMAIN runs[i] => runs'[i].status = "FAILED"
    BY <1>7
  <2> QED BY <1>1, <1>7, <2>1, <2>2, <2>3 DEF RunFits, Statuses
<1> QED BY <1>2, <1>3, <1>4, <1>5, <1>6, <1>7 DEF RunMoves


\* What changes a run that is compared: the search, which keeps its reading, and the decision,
\* which keeps the answer of the search too.
LEMMA MovedCompared ==
  ASSUME EvaluationInv, NEW i \in Ids, RunMoves(i), Compared(runs'[i])
  PROVE  \/ /\ runs[i].status = "READ" /\ runs'[i].status = "COMPARED" /\ i \in vectors'
            /\ runs'[i].read = runs[i].read
            /\ runs'[i].near \in NearChoices(i, runs[i].read)
         \/ /\ runs[i].status = "COMPARED" /\ runs'[i].status = "APPROVED"
            /\ runs'[i].read = runs[i].read
            /\ runs'[i].near = FALSE /\ runs[i].near = FALSE
            /\ Passed(runs[i].read, Snapshot(runs[i].read.po_number))
<1>1. RunFits(runs[i])
  BY DEF EvaluationInv, RunsFit
<1>2. runs'[i].status \in {"COMPARED", "APPROVED"}
  BY DEF Compared
<1>3. CASE \/ runs'[i] = [status |-> "QUEUED"]
           \/ \E r \in Readings(Label(Of(i)), Spare) : runs'[i] = [status |-> "READ", read |-> r[1]]
           \/ runs'[i] = [status |-> "REVIEW", escalated |-> TRUE]
  <2>1. runs'[i] = [status |-> "QUEUED"] => runs'[i].status = "QUEUED"
    OBVIOUS
  <2>2. ASSUME NEW r, runs'[i] = [status |-> "READ", read |-> r[1]]
        PROVE  runs'[i].status = "READ"
    BY <2>2
  <2>3. runs'[i] = [status |-> "REVIEW", escalated |-> TRUE] => runs'[i].status = "REVIEW"
    OBVIOUS
  <2> QED BY <1>2, <1>3, <2>1, <2>2, <2>3
<1>4. CASE /\ runs[i].status = "READ" /\ i \in vectors'
           /\ \E near \in NearChoices(i, runs[i].read) :
                runs'[i] = [status |-> "COMPARED", read |-> runs[i].read, near |-> near]
  BY <1>4
<1>5. CASE /\ runs[i].status = "COMPARED"
           /\ runs'[i] = Ending(runs[i].read, runs[i].near, Decision(runs[i].read, runs[i].near))
  <2>1. ReadingFits(runs[i].read) /\ runs[i].near \in BOOLEAN
    BY <1>1, <1>5 DEF RunFits
  <2>2. PICK e, near : e = runs[i].read /\ near = runs[i].near
    OBVIOUS
  <2>3. LET run == Ending(e, near, Decision(e, near))
        IN /\ run.status \in {"APPROVED", "REVIEW"}
           /\ run.status = "APPROVED" =>
                /\ run.read = e /\ run.near = FALSE /\ near = FALSE
                /\ Passed(e, Snapshot(e.po_number))
    BY <2>1, <2>2, EndingFits DEF EvaluationInv, SuiteFits
  <2> QED BY <1>2, <1>5, <2>2, <2>3
<1>6. CASE /\ runs[i].status \notin {"APPROVED", "REVIEW", "FAILED", "REFUSED"}
           /\ runs'[i] = [runs[i] EXCEPT !.status = "FAILED"]
  <2>1. runs'[i].status = "FAILED"
    BY <1>1, <1>6 DEF RunFits
  <2> QED BY <1>2, <1>6, <2>1
<1> QED BY <1>3, <1>4, <1>5, <1>6 DEF RunMoves


\* The orders are what they were, as long as the manifest and their state are.
LEMMA SnapshotStays ==
  ASSUME UNCHANGED <<suite, world>>
  PROVE  Ids' = Ids /\ Samples' = Samples /\ \A number : Snapshot(number)' = Snapshot(number)
BY DEF Snapshot, ERP, Samples, Ids

\* Every step keeps the manifest, and what each run says of itself.
LEMMA RunsStay ==
  ASSUME EvaluationInv, [Next]_vars
  PROVE  SuiteFits' /\ DOMAIN runs' = Ids' /\ RunsFit' /\ ApprovedFit' /\ StoredFit'
<1>1. DOMAIN runs = Ids /\ SuiteFits
  BY DEF EvaluationInv, DomainsFit
<1>2. UNCHANGED <<suite, world>> /\ vectors \subseteq vectors' /\ DOMAIN runs' = Ids
  BY <1>1, RunsStep DEF RunsMove
<1>3. Ids' = Ids /\ \A number : Snapshot(number)' = Snapshot(number)
  BY <1>2, SnapshotStays
<1>4. ASSUME NEW i \in Ids
      PROVE  /\ RunFits(runs'[i])
             /\ runs'[i].status = "APPROVED" =>
                  /\ runs'[i].near = FALSE
                  /\ Passed(runs'[i].read, Snapshot(runs'[i].read.po_number))
             /\ Compared(runs'[i]) => i \in vectors'
  <2>1. CASE runs'[i] = runs[i]
    BY <1>2, <2>1 DEF EvaluationInv, RunsFit, ApprovedFit, StoredFit
  <2>2. CASE RunMoves(i)
    <3>1. RunFits(runs'[i])
      BY <1>2, <2>2, MovedRunFits
    <3>2. CASE ~Compared(runs'[i])
      BY <3>1, <3>2 DEF Compared
    <3>3. CASE Compared(runs'[i])
      <4>1. runs[i].status = "COMPARED" => i \in vectors'
        BY <1>2 DEF EvaluationInv, StoredFit, Compared
      <4> QED BY <2>2, <3>1, <3>3, <4>1, MovedCompared
    <3> QED BY <3>2, <3>3
  <2> QED BY <1>1, <2>1, <2>2, RunsStep DEF RunsMove
<1>5. RunsFit'
  BY <1>3, <1>4 DEF RunsFit
<1>6. ApprovedFit'
  BY <1>3, <1>4 DEF ApprovedFit
<1>7. StoredFit'
  BY <1>3, <1>4 DEF StoredFit, Compared
<1> QED BY <1>1, <1>2, <1>3, <1>5, <1>6, <1>7 DEF SuiteFits


\* The search of a run that reads what a stored one reads sees it.
LEMMA SearchSees ==
  ASSUME NEW i, NEW j \in vectors \ {i}, NEW e, SameInvoice(e, runs[j].read)
  PROVE  NearChoices(i, e) = {TRUE}
<1>1. /\ Summary(runs[j].read) = Summary(e) /\ runs[j].read.lines = e.lines
      /\ e.invoice_number # Null /\ e.po_number # Null
  BY DEF SameInvoice
<1>2. runs[j].read.invoice_number = e.invoice_number /\ runs[j].read.po_number = e.po_number
  <2>1. \A f \in {"invoice_number", "po_number"} :
          Summary(runs[j].read)[f] = runs[j].read[f] /\ Summary(e)[f] = e[f]
    BY DEF Summary, HeaderFields
  <2> QED BY <1>1, <2>1
<1>3. j \in Comparable(i, e)
  BY <1>1, <1>2 DEF Comparable
<1> QED BY <1>1, <1>3 DEF NearChoices

\* Reading the same invoice goes both ways.
LEMMA SameInvoiceSymmetric ==
  ASSUME NEW a, NEW b, SameInvoice(a, b)
  PROVE  SameInvoice(b, a)
<1>1. \A f \in {"invoice_number", "po_number"} : Summary(a)[f] = a[f] /\ Summary(b)[f] = b[f]
  BY DEF Summary, HeaderFields
<1>2. Summary(a) = Summary(b) /\ a.lines = b.lines /\ a.invoice_number # Null /\ a.po_number # Null
  BY DEF SameInvoice
<1>3. b.invoice_number # Null /\ b.po_number # Null
  BY <1>1, <1>2
<1> QED BY <1>2, <1>3 DEF SameInvoice

\* Every step keeps that one of two twins saw the other.
LEMMA TwinsStay ==
  ASSUME EvaluationInv, [Next]_vars
  PROVE  TwinsFit'
<1>1. RunsMove /\ Ids' = Ids
  BY RunsStep, SnapshotStays DEF EvaluationInv, DomainsFit, RunsMove
<1>2. ASSUME NEW i \in Ids, NEW j \in Ids \ {i}, RunMoves(i), runs'[j] = runs[j],
             Compared(runs'[i]), Compared(runs[j]), SameInvoice(runs'[i].read, runs[j].read)
      PROVE  runs'[i].near = TRUE \/ runs[j].near = TRUE
  <2>1. j \in vectors
    BY <1>2 DEF EvaluationInv, StoredFit
  <2>2. CASE /\ runs'[i].read = runs[i].read
             /\ runs'[i].near \in NearChoices(i, runs[i].read)
    BY <1>2, <2>1, <2>2, SearchSees
  <2>3. CASE /\ runs[i].status = "COMPARED" /\ runs'[i].read = runs[i].read
             /\ runs[i].near = FALSE
    <3>1. Compared(runs[i])
      BY <2>3 DEF Compared
    <3>2. runs[i].near = TRUE \/ runs[j].near = TRUE
      BY <1>2, <2>3, <3>1 DEF EvaluationInv, TwinsFit
    <3> QED BY <2>3, <3>2
  <2> QED BY <1>2, <2>2, <2>3, MovedCompared
<1>3. ASSUME NEW i \in Ids, NEW j \in Ids, i # j, Compared(runs'[i]), Compared(runs'[j]),
             SameInvoice(runs'[i].read, runs'[j].read)
      PROVE  runs'[i].near = TRUE \/ runs'[j].near = TRUE
  <2>1. CASE runs'[i] = runs[i] /\ runs'[j] = runs[j]
    BY <1>3, <2>1 DEF EvaluationInv, TwinsFit
  <2>2. CASE RunMoves(i) /\ runs'[j] = runs[j]
    BY <1>2, <1>3, <2>2
  <2>3. CASE RunMoves(j) /\ runs'[i] = runs[i]
    BY <1>2, <1>3, <2>3, SameInvoiceSymmetric
  <2> QED BY <1>1, <1>3, <2>1, <2>2, <2>3 DEF RunsMove
<1> QED BY <1>1, <1>3 DEF TwinsFit, Compared


\* The answer to an upload names a run.
LEMMA AnswerNamesRun ==
  ASSUME EvaluationInv, NEW s \in Samples
  PROVE  Answer(s).run \in Ids
<1> DEFINE original == {t \in Samples : /\ answers[t.id] # Null /\ ~answers[t.id].duplicate
                                        /\ Document(t) = Document(s)}
<1>1. s.id \in Ids
  BY DEF Ids
<1>2. answers[s.id] # Null => answers[s.id].run \in Ids
  BY <1>1 DEF EvaluationInv, AnswersFit
<1>3. original # {} => (CHOOSE t \in original : TRUE).id \in Ids
  <2> SUFFICES ASSUME original # {} PROVE (CHOOSE t \in original : TRUE).id \in Ids
    OBVIOUS
  <2>1. (CHOOSE t \in original : TRUE) \in original
    OBVIOUS
  <2> QED BY <2>1 DEF Ids
<1>4. Answer(s) = IF answers[s.id] # Null THEN answers[s.id]
                  ELSE IF original # {}
                       THEN [run |-> (CHOOSE t \in original : TRUE).id, duplicate |-> TRUE]
                       ELSE [run |-> s.id, duplicate |-> FALSE]
  BY DEF Answer
<1> HIDE DEF original
<1> QED BY <1>1, <1>2, <1>3, <1>4

\* An upload answers the first sample of the batch.
LEMMA UploadAnswers ==
  ASSUME EvaluationInv, Upload
  PROVE  LET n == Min(batch)
         IN /\ n \in batch /\ batch' = batch \ {n}
            /\ phase = "upload" /\ phase' \in {"upload", "misfiled"} /\ UNCHANGED <<done, report>>
            /\ suite[n].id \in Ids
            /\ answers' = [answers EXCEPT ![suite[n].id] = Answer(suite[n])]
            /\ Answer(suite[n]).run \in Ids
<1>1. suite \in Seq(Range(suite)) /\ batch \subseteq DOMAIN suite
  BY EvaluationAssumption DEF EvaluationInv, SuiteFits, BatchFit
<1>2. batch \subseteq Nat /\ batch # {}
  BY <1>1 DEF Upload
<1>3. Min(batch) \in batch
  BY <1>2, LeastNatural
<1>4. suite[Min(batch)] \in Samples /\ suite[Min(batch)].id \in Ids
  BY <1>1, <1>3, SampleAt
<1> QED BY <1>3, <1>4, AnswerNamesRun DEF Upload

\* Every step keeps that an answer names a run.
LEMMA AnswersStay ==
  ASSUME EvaluationInv, [Next]_vars
  PROVE  /\ DOMAIN answers' = Ids /\ AnswersFit'
         /\ \A i \in Ids : answers[i].run \in Ids => answers'[i].run \in Ids
<1>1. Ids' = Ids /\ DOMAIN answers = Ids
  BY RunsStep, SnapshotStays DEF EvaluationInv, DomainsFit, RunsMove
<1>2. CASE UNCHANGED answers
  BY <1>1, <1>2 DEF EvaluationInv, AnswersFit
<1>3. CASE Upload
  <2>1. PICK k, a : k \in Ids /\ a.run \in Ids /\ answers' = [answers EXCEPT ![k] = a]
    BY <1>3, UploadAnswers
  <2>2. \A i \in Ids : answers'[i] = IF i = k THEN a ELSE answers[i]
    BY <1>1, <2>1
  <2>3. DOMAIN answers' = Ids
    BY <1>1, <2>1
  <2> QED BY <1>1, <2>1, <2>2, <2>3 DEF EvaluationInv, AnswersFit
<1>4. Upload \/ UNCHANGED answers
  BY DEF Next, Work, Start, Process, Extract, Escalate, Search, Decide, Fail, Emit, NextOrCollect,
         Collect, Rerun, vars
<1> QED BY <1>2, <1>3, <1>4

\* Every step keeps what the batch says of the samples still to upload.
LEMMA BatchStays ==
  ASSUME EvaluationInv, [Next]_vars
  PROVE  BatchFit'
<1>1. Ids' = Ids /\ suite' = suite
  BY RunsStep, SnapshotStays DEF EvaluationInv, DomainsFit, RunsMove
<1>2. /\ batch \subseteq DOMAIN suite
      /\ phase \in {"ready", "work", "collect", "reported"} => batch = {}
      /\ \A i \in done : answers[i].run \in Ids \/ \E n \in batch : suite[n].id = i
      /\ phase = "collect" => done = Ids
  BY DEF EvaluationInv, BatchFit
<1>3. CASE Start
  <2>1. NextBatch \subseteq DOMAIN suite
    BY DEF NextBatch, Ready
  <2> QED BY <1>1, <1>2, <1>3, <2>1 DEF Start, BatchFit
<1>4. CASE Upload
  <2>1. PICK n \in batch :
          /\ batch' = batch \ {n} /\ phase' \in {"upload", "misfiled"} /\ UNCHANGED done
          /\ suite[n].id \in Ids
          /\ answers' = [answers EXCEPT ![suite[n].id] = Answer(suite[n])]
          /\ Answer(suite[n]).run \in Ids
    BY <1>4, UploadAnswers
  <2>2. answers'[suite[n].id].run \in Ids
    BY <2>1 DEF EvaluationInv, DomainsFit
  <2>3. \A i \in done : answers'[i].run \in Ids \/ \E m \in batch' : suite[m].id = i
    <3>1. ASSUME NEW i \in done, answers[i].run \in Ids
          PROVE  answers'[i].run \in Ids
      BY <2>1, <2>2, <3>1 DEF EvaluationInv, DomainsFit
    <3> QED BY <1>2, <2>1, <2>2, <3>1
  <2> QED BY <1>1, <1>2, <2>1, <2>3 DEF BatchFit
<1>5. CASE Process
  BY <1>1, <1>2, <1>5 DEF Process, BatchFit
<1>6. CASE NextOrCollect
  BY <1>1, <1>2, <1>6 DEF NextOrCollect, BatchFit
<1>7. CASE Collect
  BY <1>1, <1>2, <1>7 DEF Collect, BatchFit
<1>8. CASE Rerun
  BY <1>1, <1>2, <1>8 DEF Rerun, BatchFit
<1>9. CASE UNCHANGED <<phase, done, batch, answers>>
  BY <1>1, <1>2, <1>9 DEF BatchFit
<1>10. Work \/ UNCHANGED vars => UNCHANGED <<phase, done, batch, answers>>
  BY DEF Work, Extract, Escalate, Search, Decide, Fail, Emit, vars
<1> QED BY <1>3, <1>4, <1>5, <1>6, <1>7, <1>8, <1>9, <1>10 DEF Next

\* Every step keeps that a report shows runs.
LEMMA ReportStays ==
  ASSUME EvaluationInv, [Next]_vars
  PROVE  ReportFit'
<1>1. CASE UNCHANGED report
  BY <1>1 DEF EvaluationInv, ReportFit
<1>2. CASE Rerun
  BY <1>2 DEF Rerun, ReportFit
<1>3. CASE Collect
  <2>1. report' = {Record(s) : s \in Samples} /\ done = Ids /\ batch = {}
    BY <1>3 DEF Collect, EvaluationInv, BatchFit
  <2>2. \A i \in Ids : answers[i].run \in Ids
    BY <2>1 DEF EvaluationInv, BatchFit
  <2>3. ASSUME NEW s \in Samples
        PROVE  RunFits(Record(s).detail)
    <3>1. answers[s.id].run \in Ids
      BY <2>2 DEF Ids
    <3>2. Record(s).detail = runs[answers[s.id].run]
      BY DEF Record
    <3> QED BY <3>1, <3>2 DEF EvaluationInv, RunsFit
  <2> QED BY <2>1, <2>3 DEF ReportFit
<1>4. UNCHANGED report \/ Rerun \/ Collect
  BY DEF Next, Work, Start, Upload, Process, Extract, Escalate, Search, Decide, Fail, Emit,
         NextOrCollect, vars
<1> QED BY <1>1, <1>2, <1>3, <1>4

-----------------------------------------------------------------------------
(* The theorems *)

\* The inductive invariant holds in every state of an evaluation.
THEOREM EvaluationKeeps == Spec => []EvaluationInv
<1>1. EvaluationInv /\ [Next]_vars => EvaluationInv'
  <2> SUFFICES ASSUME EvaluationInv, [Next]_vars PROVE EvaluationInv'
    OBVIOUS
  <2>1. Ids' = Ids
    BY RunsStep, SnapshotStays DEF EvaluationInv, DomainsFit, RunsMove
  <2>2. DomainsFit'
    BY <2>1, RunsStay, AnswersStay DEF DomainsFit
  <2> QED BY <2>2, RunsStay, TwinsStay, AnswersStay, BatchStays, ReportStays DEF EvaluationInv
<1> QED BY <1>1, InitFits, PTL DEF Spec

\* Two approved runs were never read as the same invoice, in whatever order their workers search
\* and store the embeddings: of two that are, the later search answers that it is a duplicate.
THEOREM OnePaymentPerInvoiceHolds == Spec => []OnePaymentPerInvoice
<1>1. EvaluationInv => OnePaymentPerInvoice
  <2> SUFFICES ASSUME EvaluationInv, NEW i \in Ids, NEW j \in Ids, i # j,
                      runs[i].status = "APPROVED", runs[j].status = "APPROVED",
                      Summary(runs[i].read) = Summary(runs[j].read),
                      runs[i].read.lines = runs[j].read.lines
               PROVE  FALSE
    BY DEF OnePaymentPerInvoice
  <2>1. /\ runs[i].near = FALSE /\ runs[j].near = FALSE
        /\ Passed(runs[i].read, Snapshot(runs[i].read.po_number))
    BY DEF EvaluationInv, ApprovedFit
  <2>2. runs[i].read.invoice_number # Null /\ runs[i].read.po_number # Null
    BY <2>1, ValidHeader, PassedHeader DEF Passed
  <2>3. SameInvoice(runs[i].read, runs[j].read)
    BY <2>2 DEF SameInvoice
  <2> QED BY <2>1, <2>3 DEF EvaluationInv, TwinsFit, Compared
<1> QED BY <1>1, EvaluationKeeps, PTL

\* An invoice approved without a person is owed, and no field of it was read below 90 percent.
THEOREM AutoApprovedIsOwedHolds == Spec => []AutoApprovedIsOwed
<1>1. EvaluationInv => AutoApprovedIsOwed
  <2> SUFFICES ASSUME EvaluationInv, NEW i \in Ids, runs[i].status = "APPROVED"
               PROVE  /\ Owed(runs[i].read, Snapshot(runs[i].read.po_number))
                      /\ FieldTerm(runs[i].read) >= 90
    BY DEF AutoApprovedIsOwed
  <2>1. PICK e, po : e = runs[i].read /\ po = Snapshot(e.po_number)
    OBVIOUS
  <2>2. ReadingFits(e) /\ Passed(e, po)
    BY <2>1 DEF EvaluationInv, RunsFit, RunFits, ApprovedFit
  <2>3. po # Null => OrderFits(po)
    BY <2>1, SnapshotFits DEF EvaluationInv, SuiteFits
  <2>4. Owed(e, po)
    BY <2>2, <2>3, PassedIsOwed
  <2> QED BY <2>1, <2>2, <2>4 DEF Passed
<1> QED BY <1>1, EvaluationKeeps, PTL

\* At the deployed threshold the sweep says of every record of a report what the gate did.
THEOREM SweepFollowsGateHolds == Spec => []SweepFollowsGate
<1>1. EvaluationInv => SweepFollowsGate
  <2> SUFFICES ASSUME EvaluationInv, report # Null, NEW r \in report
               PROVE  WouldAuto(r, Threshold) <=> r.detail.status = "APPROVED"
    BY DEF SweepFollowsGate
  <2>1. RunFits(r.detail)
    BY DEF EvaluationInv, ReportFit
  <2> QED BY <2>1 DEF RunFits, WouldAuto, Decided, SaysApproved
<1> QED BY <1>1, EvaluationKeeps, PTL


\* Whatever was misread, a run's evidence is accepted: a run ends with a decision.
THEOREM NoEvidenceRefusedHolds == Spec => []NoEvidenceRefused
<1>1. EvaluationInv => NoEvidenceRefused
  BY DEF EvaluationInv, RunsFit, RunFits, Statuses, NoEvidenceRefused
<1> QED BY <1>1, EvaluationKeeps, PTL
=============================================================================
