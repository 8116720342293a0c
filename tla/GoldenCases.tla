----------------------------- MODULE GoldenCases -----------------------------
(***************************************************************************)
(* The labelled cases src/eval/golden/builder.py makes: a clean invoice    *)
(* with its purchase order and receipt, and each anomaly code as one        *)
(* change of them.  A sample names its case; the labels are what a perfect  *)
(* extraction reads, Misread is what an imperfect one may read instead.     *)
(***************************************************************************)
EXTENDS InvoiceControls

CONSTANTS
  Quantity, Price    \* the base quantity and unit price _synthetic_case draws

ASSUME GoldenAssumption == Quantity \in Nat \ {0, 1} /\ Price \in Nat \ {0}

Anomalies == {"PRICE_MM", "QTY_MM", "MISSING_PO", "BANK_CHANGE", "CCY_MM", "TAX_ERR",
              "MATH_ERR", "STALE_PO"}
Duplicates == {"DUP_EXACT", "DUP_NEAR"}

\* A golden sample; parent is the sample it duplicates, or Null
Sample(id, code, parent) == [id |-> id, code |-> code, parent |-> parent]

\* The case whose label and order a sample carries: a duplicate has its parent's
Case(s) == IF s.code \in Duplicates THEN Sample(s.parent, "CLEAN", Null) ELSE s

\* _synthetic_case: the label of one case
CaseLabel(s) ==
  LET quantity == Quantity + (IF s.code = "QTY_MM" THEN 1 ELSE 0)
      price == Price + (IF s.code = "PRICE_MM" THEN 500 ELSE 0)
      subtotal == quantity * price
      tax == HalfUp(subtotal * 20, 100) + (IF s.code = "TAX_ERR" THEN 700 ELSE 0)
  IN [vendor_name |-> "vendor",
      bank |-> IF s.code = "BANK_CHANGE" THEN "other_bank" ELSE "bank",
      invoice_number |-> <<"INV", s.id>>,
      po_number |-> IF s.code = "MISSING_PO" THEN <<"MISSING", s.id>> ELSE <<"PO", s.id>>,
      currency |-> IF s.code = "CCY_MM" THEN "USD" ELSE "EUR",
      invoice_date |-> "date",
      subtotal |-> subtotal, tax_amount |-> tax, total_amount |-> subtotal + tax,
      lines |-> << [description |-> <<"item", s.id>>, quantity |-> quantity,
                    unit_price |-> price, tax_rate |-> 20,
                    line_total |-> subtotal + (IF s.code = "MATH_ERR" THEN 700 ELSE 0)] >>,
      confidence |-> [f \in HeaderFields \cup LineFields |-> 100]]
Label(s) == CaseLabel(Case(s))

\* _synthetic_case: the purchase order and receipt of one case, twice the base quantity
\* ordered and the base quantity received, 14 days before the invoice
Order(s) ==
  [number |-> <<"PO", s.id>>, vendor |-> "vendor", bank |-> "bank",
   status |-> IF s.code = "STALE_PO" THEN "CLOSED" ELSE "PARTIALLY_RECEIVED",
   currency |-> "EUR", total |-> 2 * Quantity * Price, age |-> 14,
   lines |-> << [description |-> <<"item", s.id>>, quantity |-> 2 * Quantity,
                 unit_price |-> Price] >>,
   receipts |-> << <<Quantity>> >>]

\* _build_synthetic: the orders of the golden ERP, none for a missing purchase order
Orders(samples) ==
  {Order(s) : s \in {s \in samples : s.code \notin Duplicates \cup {"MISSING_PO"}}}

\* The document bytes of a sample: an exact duplicate is its parent's, a near one is not
Document(s) == IF s.code = "DUP_EXACT" THEN s.parent ELSE s.id

-----------------------------------------------------------------------------
(* Extractions a model may return for a document (external to the code) *)

\* What one amount, count or rate may be misread as: nothing, a sign error, a unit more or
\* less, the edge of the relative tolerance and a step past it, and far off
Off(v) == {Null, -1, 0, v - 1, v + 1, v + v \div 200, v + v \div 200 + 2, 2 * v + 7}

Texts == [vendor_name |-> {Null, "other_vendor"}, bank |-> {Null, "other_bank"},
          invoice_number |-> {Null, <<"OTHER", "number">>}, currency |-> {Null, "USD", "XXX"},
          invoice_date |-> {Null}]

\* Every extraction that differs from e in one field, one line or one confidence; numbers
\* are the order numbers it may be taken to name
Misread(e, numbers) ==
  LET lined(line) == [e EXCEPT !.lines[1] = line]
  IN (UNION {{[e EXCEPT ![f] = v] : v \in Texts[f]} : f \in DOMAIN Texts})
     \cup (UNION {{[e EXCEPT ![f] = v] : v \in Off(e[f])} :
                    f \in {f \in {"subtotal", "tax_amount", "total_amount"} : e[f] # Null}})
     \cup {[e EXCEPT !.po_number = n] : n \in numbers \cup {Null}}
     \cup {[e EXCEPT !.confidence[f] = c] : f \in {"bank", "line_total"}, c \in {89, 90}}
     \cup {[e EXCEPT !.lines = <<>>]}
     \cup IF e.lines = <<>> THEN {} ELSE
          LET line == e.lines[1]
          IN {[e EXCEPT !.lines = Append(@, line)], lined([line EXCEPT !.description = <<"OTHER", "item">>])}
             \cup (UNION {{lined([line EXCEPT ![f] = v]) : v \in Off(line[f])} :
                      f \in {f \in {"quantity", "unit_price", "tax_rate", "line_total"} :
                               line[f] # Null}})

-----------------------------------------------------------------------------
(* tools/ocr_identifiers.py: identifiers read again from the document's pixels *)

MinConfidence == 70

\* A line Tesseract may return: it starts with the kind's label, or it is no line of a kind
OcrLine(kind, value, confidence) == [kind |-> kind, value |-> value, confidence |-> confidence]

\* _identifier: the value of a labelled line, all of whose words are read confidently
Labelled(line, kind) == line.kind = kind /\ line.confidence >= MinConfidence

\* parse_tesseract_tsv: exactly one such line names the identifier
Identified(lines, kind) ==
  LET found == {line \in lines : Labelled(line, kind)}
  IN IF Cardinality(found) = 1 THEN (CHOOSE line \in found : TRUE).value ELSE Null

\* reconcile_identifiers: a field the extraction read takes the value of the pixels, and with
\* it a confidence of at most 95; a field it did not read stays unread
Reconciled(e, bank, number) ==
  LET over(f, seen) == seen # Null /\ e[f] # Null /\ seen # e[f]
      replaced == {f \in {"bank", "po_number"} :
                     over(f, IF f = "bank" THEN bank ELSE number)}
  IN [e EXCEPT !.bank = IF "bank" \in replaced THEN bank ELSE @,
               !.po_number = IF "po_number" \in replaced THEN number ELSE @,
               !.confidence = [f \in DOMAIN @ |-> IF f \in replaced THEN Min({@[f], 95}) ELSE @[f]]]

\* TesseractIdentifierOCR.read of the document labelled e, as pairs of a value and the faults
\* it takes: nothing (no image, no engine, a time out, no confident line or two of them), the
\* value on the document, or one of the values others it may be mistaken for
Seen(kind, value, others) ==
  LET lines == {OcrLine(kind, v, c) : v \in {value} \cup others, c \in {MinConfidence - 1, MinConfidence}}
  IN {<<v, IF v \in {value, Null} THEN 0 ELSE 1>> :
        v \in {Identified(subset, kind) : subset \in SUBSET lines}}
=============================================================================
