----------------------------- MODULE MCDatabase -----------------------------
(* Two components of the PostgreSQL database that share no row: the transactions of an invoice
   and the role logins.  A behaviour is of one of them; the other keeps its initial state. *)
EXTENDS InvoiceTransactions, LoginSessions

VARIABLE part

MCOriginal == [u \in Uploads |-> CHOOSE v \in Invoices : TRUE]

Init == TInit /\ LInit /\ part \in {"transactions", "logins"}
Transactions == part = "transactions" /\ TNext /\ UNCHANGED <<lvars, part>>
Logins == part = "logins" /\ LNext /\ UNCHANGED <<tvars, part>>
Next == Transactions \/ Logins
Spec == Init /\ [][Next]_<<tvars, lvars, part>> /\ (part = "transactions" => TFairness)

\* RunsSettle of the behaviours of the transactions: lock waits and deadlocks end, and a run
\* fails only by faults that spend its attempts or hit the near-duplicate search.
EveryRunSettles == part = "transactions" => RunsSettle
=============================================================================
