--------------------------- MODULE SignedDecision ---------------------------
(***************************************************************************)
(* What human review promises about an exception, whoever asks, retries,   *)
(* races or dies: an analyst's proposal, a manager's signature of it, the  *)
(* graph that carries out the signed decision, and the outcome that is     *)
(* written for it, each once and in this order.  Nothing is said of keys,  *)
(* workers or locks; FourEyes is shown to implement it.                    *)
(***************************************************************************)
EXTENDS Naturals

CONSTANTS Exceptions, Actions

VARIABLES
    run,         \* status of the exception's run
    exception,   \* status of the exception
    count,       \* decisions taken so far, on all exceptions
    signatures,  \* exception -> its decisions: [id, role, action]
    executed     \* id of the decision the graph carries out, or 0

vars == <<run, exception, count, signatures, executed>>

Init ==
    /\ run = [x \in Exceptions |-> "RUNNING"]
    /\ exception = [x \in Exceptions |-> "OPEN"]
    /\ count = 0
    /\ signatures = [x \in Exceptions |-> {}]
    /\ executed = [x \in Exceptions |-> 0]

(* The run stops for its review. *)
Await(x) ==
    /\ run[x] = "RUNNING"
    /\ run' = [run EXCEPT ![x] = "PAUSED"]
    /\ UNCHANGED <<exception, count, signatures, executed>>

Decision(role, a) == [id |-> count + 1, role |-> role, action |-> a]

Propose(x, a) ==
    /\ run[x] = "PAUSED"
    /\ signatures[x] = {}
    /\ count' = count + 1
    /\ signatures' = [signatures EXCEPT ![x] = {Decision("ANALYST", a)}]
    /\ exception' = [exception EXCEPT ![x] = "IN_REVIEW"]
    /\ UNCHANGED <<run, executed>>

(* A manager may be stricter than the analyst, never more lenient. *)
Sign(x, a) ==
    /\ run[x] = "PAUSED"
    /\ \E p \in signatures[x] :
          /\ signatures[x] = {p}
          /\ p.role = "ANALYST"
          /\ a = "APPROVE" => p.action = "APPROVE"
          /\ signatures' = [signatures EXCEPT ![x] = {p, Decision("MANAGER", a)}]
    /\ count' = count + 1
    /\ UNCHANGED <<run, exception, executed>>

(* The graph records the signed decision as the one it carries out. *)
Execute(x) ==
    /\ run[x] = "PAUSED"
    /\ executed[x] = 0
    /\ \E s \in signatures[x] :
          s.role = "MANAGER" /\ executed' = [executed EXCEPT ![x] = s.id]
    /\ UNCHANGED <<run, exception, count, signatures>>

Close(x) ==
    /\ run[x] = "PAUSED"
    /\ \E s \in signatures[x] :
          /\ s.id = executed[x]
          /\ exception' = [exception EXCEPT ![x] =
                              IF s.action = "ESCALATE" THEN "ESCALATED" ELSE "RESOLVED"]
    /\ run' = [run EXCEPT ![x] = "COMPLETED"]
    /\ UNCHANGED <<count, signatures, executed>>

Next ==
    \E x \in Exceptions :
        \/ Await(x)
        \/ \E a \in Actions : Propose(x, a) \/ Sign(x, a)
        \/ Execute(x)
        \/ Close(x)

Spec == Init /\ [][Next]_vars
=============================================================================
