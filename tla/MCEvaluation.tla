---------------------------- MODULE MCEvaluation ----------------------------
(* Small suites for TLC: each anomaly beside a clean sample, a clean sample with both kinds of
   duplicates, and the worlds the ERP may be in. *)
EXTENDS Evaluation

Clean(id) == Sample(id, "CLEAN", Null)

MCSuites ==
  { << Clean("a"), Sample("b", code, Null) >> : code \in Anomalies }
  \cup { << Sample("d", "DUP_EXACT", "a"), Sample("n", "DUP_NEAR", "a"), Clean("a") >>,
         << Clean("a"), Sample("n", "DUP_NEAR", "a"), Sample("m", "DUP_NEAR", "a") >> }

\* The clean invoice's 24.00 is the most that is approved without a person
MCBands == [EUR |-> [auto |-> 2400, manager |-> 2401, director |-> 2402, cap |-> 3600],
            USD |-> [auto |-> 2399, manager |-> 3000, director |-> 4000, cap |-> 5000]]
MCTolerance == [EUR |-> 1, USD |-> 1]

MCWorlds ==
  { [i \in {} |-> {}], [status |-> "CANCELLED"], [age |-> MaxAge + 1], [age |-> -1],
    [receipts |-> << <<Quantity - 1>> >>],
    [age |-> MaxAge, receipts |-> << <<1>>, <<Quantity - 1>> >>] }
=============================================================================
