--------------------------- MODULE GatewayBudgets ---------------------------
(***************************************************************************)
(* BudgetAlertTracker (gateway_client/budgets.py): the observed cost of    *)
(* each run, an alert when it reaches the threshold, and the least         *)
(* recently billed run forgotten when there are too many.                  *)
(***************************************************************************)
EXTENDS Naturals, Sequences, FiniteSets

CONSTANTS
    Threshold,  \* budget_alert_usd, in units of cost
    MaxRuns     \* runs the tracker remembers

ASSUME BudgetAssumption ==
    /\ Threshold \in Nat \ {0}
    /\ MaxRuns \in Nat \ {0}

(* order lists the tracked runs, least recently billed first. *)
NewTracker == [order |-> <<>>, total |-> [r \in {} |-> 0], alerted |-> {}]

Tracked(b) == DOMAIN b.total

TotalOf(b, run) == IF run \in Tracked(b) THEN b.total[run] ELSE 0

(* move_to_end: a tracked run is once in the order *)
Billed(order, run) ==
    IF \E i \in DOMAIN order : order[i] = run
    THEN LET i == CHOOSE j \in DOMAIN order : order[j] = run
         IN Append(SubSeq(order, 1, i - 1) \o SubSeq(order, i + 1, Len(order)), run)
    ELSE Append(order, run)

EvictedKeepsAlert(b) ==
    IF Len(b.order) <= MaxRuns
    THEN b
    ELSE [b EXCEPT !.order = Tail(@),
                   !.total = [r \in DOMAIN @ \ {Head(b.order)} |-> @[r]]]
Evicted(b) ==
    IF Len(b.order) <= MaxRuns
    THEN b
    ELSE [order |-> Tail(b.order),
          total |-> [r \in Tracked(b) \ {Head(b.order)} |-> b.total[r]],
          alerted |-> b.alerted \ {Head(b.order)}]

(* The total after a response that cost this much, before any alert. *)
Charged(b, run, cost) ==
    Evicted([b EXCEPT !.order = Billed(@, run),
                      !.total = [r \in DOMAIN @ \cup {run} |->
                                    IF r = run THEN TotalOf(b, run) + cost ELSE @[r]]])

Alerts(b, run, cost) ==
    LET c == Charged(b, run, cost)
    IN c.total[run] >= Threshold /\ run \notin c.alerted

(* observe(run, cost) *)
Observed(b, run, cost) ==
    LET c == Charged(b, run, cost)
    IN IF Alerts(b, run, cost) THEN [c EXCEPT !.alerted = @ \cup {run}] ELSE c
=============================================================================
