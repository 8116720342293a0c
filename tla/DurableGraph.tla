---------------------------- MODULE DurableGraph ----------------------------
(***************************************************************************)
(* One run of the durable invoice graph: node by node, each node adopts    *)
(* the evidence its services already committed to the ledger or computes   *)
(* and commits it, and the state is checkpointed after the node            *)
(* (graph/invoice*.py, graph/live_services.py).  Ledger events commit on   *)
(* runtime connections of their own; checkpoints are written through the   *)
(* connection that owns the run's advisory lock.  An execution can be cut  *)
(* anywhere in between and be replayed, by an attempt of the worker before *)
(* the review and by the review worker after it.                           *)
(*                                                                         *)
(* Evidence is a value that tells apart what the digests in the payloads   *)
(* tell apart.  Node Reject is left out: it is entered for                 *)
(* state.duplicate, which load_invoice_state never sets.                   *)
(***************************************************************************)
EXTENDS Naturals, Sequences, FiniteSets

CONSTANTS
    Executors,      \* processes that may run or resume the graph
    Extractions,    \* what a successful extraction may return
    ErpVersions,    \* snapshots of the purchase order (one may be "no PO")
    Clean,          \* pairs <<extraction, ERP version>> policy finds nothing in
    MaxStops,       \* bound: executions cut short and sessions lost, together
    MaxLosses,      \* bound: sessions of the lock that end while their executor goes on
    MaxErpChanges,  \* bound: changes of the ERP data
    None

Nodes == {"Ingest", "Extract", "Validate", "Match3Way", "Policy", "Gate",
          "AutoApprove", "ExceptionTriage", "HumanReview", "Archive"}
Actions == {"APPROVE", "RETURN", "ESCALATE"}
Settled == {"awaiting_review", "completed"}

ASSUME GraphAssumption ==
    /\ Clean \subseteq Extractions \X ErpVersions
    /\ MaxStops \in Nat
    /\ MaxLosses \in Nat
    /\ MaxErpChanges \in Nat
    /\ None \notin Executors \cup Extractions \cup ErpVersions \cup Actions
    /\ None \notin {"escalated", "AUTO_APPROVE", "REVIEW", "NO_MATCH", "NEAR_DUPLICATE"}
    /\ "escalated" \notin Extractions

(* The events a node's services commit, in this order. *)
Evidence(node) ==
    CASE node = "Ingest" -> <<>>
      [] node = "Extract" -> <<"extraction">>
      [] node = "Validate" -> <<"validation">>
      [] node = "Match3Way" -> <<"matching">>
      [] node = "Policy" -> <<"similarity", "classification", "policy">>
      [] node = "Gate" -> <<"gate">>
      [] node = "AutoApprove" -> <<"approval">>
      [] node = "ExceptionTriage" -> <<"triage">>
      [] node = "HumanReview" -> <<"review">>
      [] node = "Archive" -> <<"archive">>

EventTypes == {"extraction", "validation", "matching", "similarity", "classification",
               "policy", "gate", "approval", "triage", "review", "archive"}

VARIABLES
    cp,          \* the latest checkpoint
    lock,        \* the executor whose session holds the run's advisory lock
    ledger,      \* committed payloads per event type, oldest first
    invoice,     \* invoices.status
    exceptions,  \* rows of public.exceptions for this run
    run,         \* runs.status: "open" for QUEUED, RUNNING or FAILED
    erp,         \* current version of the purchase order in the ERP tables
    accepted,    \* action of the signed decision, None before
    pc,          \* where each executor is
    item,        \* index of the evidence its node is at
    st,          \* its graph state: the checkpoint and what the node adopted
    stops, losses, erpChanges  \* bound counters

store == <<ledger, invoice, exceptions>>
executor == <<pc, item, st>>
world == <<run, erp, accepted>>
bounds == <<stops, losses, erpChanges>>
vars == <<cp, lock, store, world, executor, bounds>>

Initial ==
    [next |-> "Ingest", status |-> "queued", route |-> None, extraction |-> None,
     erp |-> None, similarity |-> None, review |-> None]

TypeOK ==
    /\ cp \in [next: Nodes \cup {"END"}, status: {"queued", "running"} \cup Settled,
               route: {None, "AUTO_APPROVE", "REVIEW"},
               extraction: Extractions \cup {None, "escalated"},
               erp: ErpVersions \cup {None},
               similarity: {None, "NO_MATCH", "NEAR_DUPLICATE"},
               review: Actions \cup {None}]
    /\ lock \in Executors \cup {None}
    /\ DOMAIN ledger = EventTypes
    /\ invoice \in {"QUEUED", "APPROVED", "RETURNED", "NEEDS_REVIEW"}
    /\ exceptions \in Nat
    /\ run \in {"open", "PAUSED", "COMPLETED"}
    /\ erp \in ErpVersions
    /\ accepted \in Actions \cup {None}
    /\ pc \in [Executors -> {"idle", "snapshot", "reading", "committing", "checkpointing"}]
    /\ item \in [Executors -> 1 .. 4]
    /\ \A e \in Executors : pc[e] \in {"reading", "committing"} =>
           item[e] \in DOMAIN Evidence(st[e].next)

Init ==
    /\ cp = Initial
    /\ lock = None
    /\ ledger = [t \in EventTypes |-> <<>>]
    /\ invoice = "QUEUED"
    /\ exceptions = 0
    /\ run = "open"
    /\ erp \in ErpVersions
    /\ accepted = None
    /\ pc = [e \in Executors |-> "idle"]
    /\ item = [e \in Executors |-> 1]
    /\ st = [e \in Executors |-> Initial]
    /\ stops = 0
    /\ losses = 0
    /\ erpChanges = 0

-----------------------------------------------------------------------------
(* Evidence: what a computation may yield in graph state s, whether a      *)
(* committed payload belongs to s, and the state once it is adopted.       *)

(* The TaxonomyRequest and PolicyRequest whose digest is committed. *)
Input(s) == [extraction |-> s.extraction, erp |-> s.erp, similarity |-> s.similarity]

(* PolicyResult.status = "AUTO_APPROVE_ELIGIBLE" *)
EligibleNearDuplicate(input) == <<input.extraction, input.erp>> \in Clean
Eligible(input) ==
    /\ input.similarity = "NO_MATCH"
    /\ <<input.extraction, input.erp>> \in Clean

(* An eligible invoice may still miss the score or meet a hold. *)
GateRoutes(input) == IF Eligible(input) THEN {"AUTO_APPROVE", "REVIEW"} ELSE {"REVIEW"}

Computed(t, s) ==
    CASE t = "extraction" -> Extractions \cup {"escalated"}
      [] t = "validation" -> {s.extraction}
      [] t = "matching" -> {[extraction |-> s.extraction, erp |-> s.erp]}
      [] t = "similarity" ->
             {[extraction |-> s.extraction, result |-> r] : r \in {"NO_MATCH", "NEAR_DUPLICATE"}}
      [] t \in {"classification", "policy", "approval"} -> {Input(s)}
      [] t = "gate" -> {[policy |-> Input(s), route |-> r] : r \in GateRoutes(Input(s))}
      [] t = "triage" -> {"REVIEW"}
      [] t = "review" -> {s.review}
      [] t = "archive" -> {s.route}

FitsFreshDigest(t, v, s) ==
    CASE t \in {"extraction", "triage"} -> TRUE
      [] t = "similarity" -> v.extraction = s.extraction
      [] t = "gate" -> v.policy = Input(s)
      [] t = "classification" -> FALSE
      [] OTHER -> v \in Computed(t, s)
Fits(t, v, s) ==
    CASE t \in {"extraction", "triage"} -> TRUE
      [] t = "similarity" -> v.extraction = s.extraction
      [] t = "gate" -> v.policy = Input(s)
      [] OTHER -> v \in Computed(t, s)

Adopt(t, v, s) ==
    CASE t = "extraction" -> [s EXCEPT !.extraction = v]
      [] t = "similarity" -> [s EXCEPT !.similarity = v.result]
      [] t = "gate" -> [s EXCEPT !.route = v.route]
      [] OTHER -> s

(* Statuses append_once and triage write with their event. *)
InvoiceStatus(t, s) ==
    CASE t = "approval" -> "APPROVED"
      [] t = "triage" -> "NEEDS_REVIEW"
      [] t = "review" /\ s.review = "APPROVE" -> "APPROVED"
      [] t = "review" /\ s.review = "RETURN" -> "RETURNED"
      [] t = "review" /\ s.review = "ESCALATE" -> "NEEDS_REVIEW"
      [] OTHER -> invoice

-----------------------------------------------------------------------------
(* The graph: where a completed node leads and what it returns. *)

Succ(s) ==
    CASE s.next = "Ingest" -> "Extract"
      [] s.next = "Extract" -> IF s.extraction = "escalated" THEN "ExceptionTriage" ELSE "Validate"
      [] s.next = "Validate" -> "Match3Way"
      [] s.next = "Match3Way" -> "Policy"
      [] s.next = "Policy" -> "Gate"
      [] s.next = "Gate" -> IF s.route = "AUTO_APPROVE" THEN "AutoApprove" ELSE "ExceptionTriage"
      [] s.next = "AutoApprove" -> "Archive"
      [] s.next = "ExceptionTriage" -> "HumanReview"
      [] s.next = "HumanReview" -> "Archive"
      [] s.next = "Archive" -> "END"

CompletedKeepsStatus(s) ==
    LET t == [s EXCEPT !.next = Succ(s)]
    IN CASE s.next = "Ingest" -> [t EXCEPT !.status = "running"]
         [] s.next = "ExceptionTriage" ->
                [t EXCEPT !.status = "awaiting_review", !.route = "REVIEW"]
         [] s.next = "Archive" -> [t EXCEPT !.status = "completed"]
         [] OTHER -> t
Completed(s) ==
    LET t == [s EXCEPT !.next = Succ(s)]
    IN CASE s.next \in {"Ingest", "HumanReview"} -> [t EXCEPT !.status = "running"]
         [] s.next = "ExceptionTriage" ->
                [t EXCEPT !.status = "awaiting_review", !.route = "REVIEW"]
         [] s.next = "Archive" -> [t EXCEPT !.status = "completed"]
         [] OTHER -> t

FirstStep(node) ==
    CASE node = "Match3Way" -> "snapshot"
      [] node = "Ingest" -> "checkpointing"
      [] OTHER -> "reading"

Enter(e, s) ==
    /\ st' = [st EXCEPT ![e] = s]
    /\ item' = [item EXCEPT ![e] = 1]
    /\ pc' = [pc EXCEPT ![e] = FirstStep(s.next)]

(* The node has the payload v of its current event: on to its next event,  *)
(* or to the checkpoint.                                                   *)
Proceed(e, t, v) ==
    LET last == item[e] = Len(Evidence(st[e].next))
    IN /\ st' = [st EXCEPT ![e] = Adopt(t, v, st[e])]
       /\ item' = [item EXCEPT ![e] = IF last THEN @ ELSE @ + 1]
       /\ pc' = [pc EXCEPT ![e] = IF last THEN "checkpointing" ELSE "reading"]

Leave(e) ==
    /\ pc' = [pc EXCEPT ![e] = "idle"]
    /\ lock' = IF lock = e THEN None ELSE lock
    /\ UNCHANGED <<item, st>>

EventAt(e) == Evidence(st[e].next)[item[e]]
Latest(t) == ledger[t][Len(ledger[t])]

-----------------------------------------------------------------------------
(* InvoiceGraphRunner.run, called by a worker whatever the run's status:   *)
(* also for a PAUSED run it claims nothing of, where it goes on from a     *)
(* recorded review.  A settled checkpoint is returned as it is.            *)
Run(e) ==
    /\ pc[e] = "idle"
    /\ lock = None
    /\ cp.status \notin Settled
    /\ lock' = e
    /\ Enter(e, cp)
    /\ UNCHANGED <<cp, store, world, bounds>>

(* InvoiceGraphRunner.resume, called by the review worker for a PAUSED run *)
(* with a signed decision.                                                 *)
Reviewing ==
    /\ cp.status = "awaiting_review"
    /\ cp.next = "HumanReview"
Reviewed == cp.status = "running" /\ cp.review = accepted

Resume(e) ==
    /\ pc[e] = "idle"
    /\ run = "PAUSED"
    /\ accepted # None
    /\ lock = None
    /\ \/ Reviewing /\ Enter(e, [cp EXCEPT !.review = accepted])
       \/ Reviewed /\ Enter(e, cp)
    /\ lock' = e
    /\ UNCHANGED <<cp, store, world, bounds>>

(* match() loads the ERP snapshot before it looks for committed evidence. *)
Snapshot(e) ==
    /\ pc[e] = "snapshot"
    /\ st' = [st EXCEPT ![e].erp = erp]
    /\ pc' = [pc EXCEPT ![e] = "reading"]
    /\ UNCHANGED <<item, cp, lock, store, world, bounds>>

(* EventCache.read, and the SELECT of append_once: nothing keeps another    *)
(* executor from committing between this look and the commit.              *)
ReadNothing(e) ==
    /\ pc[e] = "reading"
    /\ ledger[EventAt(e)] = <<>>
    /\ pc' = [pc EXCEPT ![e] = "committing"]
    /\ UNCHANGED <<item, st, cp, lock, store, world, bounds>>

Replay(e) ==
    /\ pc[e] = "reading"
    /\ LET t == EventAt(e)
       IN /\ ledger[t] # <<>>
          /\ Fits(t, Latest(t), st[e])
          /\ Proceed(e, t, Latest(t))
    /\ UNCHANGED <<cp, lock, store, world, bounds>>

(* ReplayEvidenceError: the run fails, and is dead-lettered. *)
Mismatch(e) ==
    /\ pc[e] = "reading"
    /\ ledger[EventAt(e)] # <<>>
    /\ ~Fits(EventAt(e), Latest(EventAt(e)), st[e])
    /\ Leave(e)
    /\ UNCHANGED <<cp, store, world, bounds>>

(* The computation's result is appended, with the invoice's new status in  *)
(* the same transaction.                                                   *)
CommitBestEffort(e) ==
    /\ pc[e] = "committing"
    /\ LET t == EventAt(e)
       IN /\ t # "triage"
          /\ invoice' = InvoiceStatus(t, st[e])
          /\ \E v \in Computed(t, st[e]) :
                /\ ledger' \in {ledger, [ledger EXCEPT ![t] = Append(@, v)]}
                /\ Proceed(e, t, v)
    /\ UNCHANGED <<exceptions, cp, lock, world, bounds>>
CommitWithoutStatus(e) ==
    /\ pc[e] = "committing"
    /\ LET t == EventAt(e)
       IN /\ t # "triage"
          /\ \E v \in Computed(t, st[e]) :
                /\ ledger' = [ledger EXCEPT ![t] = Append(@, v)]
                /\ Proceed(e, t, v)
    /\ UNCHANGED <<invoice, exceptions, cp, lock, world, bounds>>
Commit(e) ==
    /\ pc[e] = "committing"
    /\ LET t == EventAt(e)
       IN /\ t # "triage"
          /\ invoice' = InvoiceStatus(t, st[e])
          /\ \E v \in Computed(t, st[e]) :
                /\ ledger' = [ledger EXCEPT ![t] = Append(@, v)]
                /\ Proceed(e, t, v)
    /\ UNCHANGED <<exceptions, cp, lock, world, bounds>>

(* triage() holds the run's row lock and looks again: the first to commit  *)
(* inserts the exception and moves the invoice, a later one adopts.        *)
Prepare(e) ==
    /\ pc[e] = "committing"
    /\ EventAt(e) = "triage"
    /\ IF ledger["triage"] = <<>>
       THEN /\ ledger' = [ledger EXCEPT !["triage"] = <<"REVIEW">>]
            /\ invoice' = InvoiceStatus("triage", st[e])
       ELSE UNCHANGED <<ledger, invoice>>
    /\ exceptions' = IF exceptions = 0 THEN 1 ELSE exceptions
    /\ Proceed(e, "triage", "REVIEW")
    /\ UNCHANGED <<cp, lock, world, bounds>>

(* The checkpoint goes through the lock's own connection: a session that   *)
(* is gone fails the execution instead.  HumanReview's interrupt() and END *)
(* end an execution.                                                       *)
CheckpointUnfenced(e) ==
    /\ pc[e] = "checkpointing"
    /\ LET s == Completed(st[e])
       IN /\ cp' = s
          /\ IF s.status \in Settled THEN Leave(e) ELSE Enter(e, s) /\ UNCHANGED lock
    /\ UNCHANGED <<store, world, bounds>>
Checkpoint(e) ==
    /\ pc[e] = "checkpointing"
    /\ IF lock = e
       THEN LET s == Completed(st[e])
            IN /\ cp' = s
               /\ IF s.status \in Settled THEN Leave(e) ELSE Enter(e, s) /\ UNCHANGED lock
       ELSE Leave(e) /\ UNCHANGED cp
    /\ UNCHANGED <<store, world, bounds>>

(* A crash, the graph's deadline, or any service or storage failure; also  *)
(* the failure reported for a commit that did happen.                      *)
Stop(e) ==
    /\ pc[e] # "idle"
    /\ stops + losses < MaxStops
    /\ stops' = stops + 1
    /\ Leave(e)
    /\ UNCHANGED <<losses, erpChanges, cp, store, world>>

(* The server ends the lock's session and its executor has not noticed. *)
LoseSession ==
    /\ lock # None
    /\ losses < MaxLosses
    /\ stops + losses < MaxStops
    /\ losses' = losses + 1
    /\ lock' = None
    /\ UNCHANGED <<stops, erpChanges, cp, store, world, executor>>

-----------------------------------------------------------------------------
(* Around the graph *)

(* The attempt store settles the run with the status run() returned. *)
Settle ==
    /\ run = "open"
    /\ cp.status \in Settled
    /\ run' = IF cp.status = "completed" THEN "COMPLETED" ELSE "PAUSED"
    /\ UNCHANGED <<erp, accepted, cp, lock, store, executor, bounds>>

(* The review worker completes the run on the ledger's evidence. *)
ReviewEvidence ==
    /\ ledger["review"] # <<>> /\ Latest("review") = accepted
    /\ ledger["archive"] # <<>>

ReviewSettle ==
    /\ run = "PAUSED"
    /\ accepted # None
    /\ cp.status = "completed" /\ cp.review = accepted
    /\ ReviewEvidence
    /\ run' = "COMPLETED"
    /\ UNCHANGED <<erp, accepted, cp, lock, store, executor, bounds>>

(* A manager signs (module FourEyes): once, for a paused run's exception. *)
Accept(a) ==
    /\ run = "PAUSED"
    /\ exceptions > 0
    /\ accepted = None
    /\ accepted' = a
    /\ UNCHANGED <<run, erp, cp, lock, store, executor, bounds>>

ErpChange(v) ==
    /\ erpChanges < MaxErpChanges
    /\ v # erp
    /\ erp' = v
    /\ erpChanges' = erpChanges + 1
    /\ UNCHANGED <<stops, losses, run, accepted, cp, lock, store, executor>>

Step(e) ==
    \/ Snapshot(e)
    \/ ReadNothing(e)
    \/ Replay(e)
    \/ Mismatch(e)
    \/ Commit(e)
    \/ Prepare(e)
    \/ Checkpoint(e)

Next ==
    \/ \E e \in Executors : Run(e) \/ Resume(e) \/ Step(e) \/ Stop(e)
    \/ LoseSession
    \/ Settle
    \/ ReviewSettle
    \/ \E a \in Actions : Accept(a)
    \/ \E v \in ErpVersions : ErpChange(v)

Spec == Init /\ [][Next]_vars

(* A running execution goes on, the worker is retried until the run        *)
(* settles and the review worker until a signed decision has; nobody is    *)
(* obliged to sign.                                                        *)
FairSpec ==
    /\ Spec
    /\ \A e \in Executors : WF_vars(Step(e))
    /\ WF_vars(\E e \in Executors : Run(e))
    /\ WF_vars(\E e \in Executors : Resume(e))
    /\ WF_vars(Settle)
    /\ WF_vars(ReviewSettle)
-----------------------------------------------------------------------------
(* The progress a run is shown with (api/run_progress_reader.py): NODE_EVENTS *)
(* in the order of the graph, and the event of each node that is looked for.  *)

Order == <<"Ingest", "Extract", "Validate", "Match3Way", "Policy", "Gate", "AutoApprove",
           "ExceptionTriage", "HumanReview", "Archive", "END">>
Rank(node) == CHOOSE i \in DOMAIN Order : Order[i] = node

Shown(node) == IF node = "Policy" THEN "policy" ELSE Evidence(node)[1]

(* read() selects the latest event of each node; "ingest.accepted" is        *)
(* committed with the run (module Ingestion).                                *)
Observed ==
    {"Ingest"} \cup {n \in Nodes \ {"Ingest"} : ledger[Shown(n)] # <<>>}

(* _active_node of a run whose status was read as the given one. *)
ActiveNodeByOrder(status) ==
    IF status = "COMPLETED" THEN None
    ELSE IF status = "PAUSED" THEN "HumanReview"
    ELSE LET last == CHOOSE n \in Observed : \A m \in Observed : Rank(m) <= Rank(n)
         IN IF last = "Archive" THEN None ELSE Order[Rank(last) + 1]
ActiveNode(status) ==
    IF status = "COMPLETED" THEN None
    ELSE IF status = "PAUSED" THEN "HumanReview"
    ELSE LET last == CHOOSE n \in Observed : \A m \in Observed : Rank(m) <= Rank(n)
         IN CASE last = "Archive" -> None
              [] last = "Ingest" -> "Extract"
              [] last = "Extract" ->
                     IF Latest("extraction") = "escalated" THEN "ExceptionTriage" ELSE "Validate"
              [] last = "Validate" -> "Match3Way"
              [] last = "Match3Way" -> "Policy"
              [] last = "Policy" -> "Gate"
              [] last = "Gate" ->
                     IF Latest("gate").route = "AUTO_APPROVE" THEN "AutoApprove" ELSE "ExceptionTriage"
              [] last \in {"AutoApprove", "HumanReview"} -> "Archive"
              [] last = "ExceptionTriage" -> "HumanReview"

-----------------------------------------------------------------------------
(* Properties *)

Committed(t) == {ledger[t][i] : i \in DOMAIN ledger[t]}

(* Whatever the checkpoint claims, the ledger shows: no node is checkpointed *)
(* before its evidence is committed, and none on other evidence, however   *)
(* executions are cut, replayed or overtaken.                              *)
EvidenceBehindCheckpoint ==
    /\ cp.extraction # None => cp.extraction \in Committed("extraction")
    /\ cp.erp # None =>
           [extraction |-> cp.extraction, erp |-> cp.erp] \in Committed("matching")
    /\ cp.similarity # None =>
           /\ [extraction |-> cp.extraction, result |-> cp.similarity] \in Committed("similarity")
           /\ Input(cp) \in Committed("classification") \cap Committed("policy")
    /\ cp.route # None =>
           \/ cp.extraction = "escalated"
           \/ [policy |-> Input(cp), route |-> cp.route] \in Committed("gate")
    /\ cp.status = "awaiting_review" => Committed("triage") # {} /\ exceptions = 1
    /\ cp.review # None => cp.review = accepted /\ accepted \in Committed("review")
    /\ cp.status = "completed" => cp.route \in Committed("archive")

(* "Repeating the same accepted decision does not repeat the human review   *)
(* or archive event": what append_once promises whoever appends.           *)
ReviewRecordedOnce == Len(ledger["review"]) <= 1 /\ Len(ledger["archive"]) <= 1

(* "Repeating a completed or paused run returns its checkpoint without      *)
(* another model call or audit event", and a node cut between its event    *)
(* and its checkpoint adopts the event: while executors keep their lock,   *)
(* nothing is recorded twice, and committed evidence never contradicts its *)
(* own replay but for ERP data that changed after the matching evidence.   *)
ReplaysAgree ==
    losses = 0 =>
        /\ \A t \in EventTypes : Len(ledger[t]) <= 1
        /\ \A e \in Executors :
              /\ pc[e] = "reading"
              /\ ledger[EventAt(e)] # <<>>
              /\ ~Fits(EventAt(e), Latest(EventAt(e)), st[e])
              => EventAt(e) = "matching" /\ erpChanges > 0

(* An invoice is approved by a signed decision, or automatically on the     *)
(* committed evidence of a clean extraction, no near duplicate and a gate   *)
(* that says so; never both, and never automatically once it went to       *)
(* review, whatever an executor without its lock goes on to commit.        *)
ApprovalIsJustified ==
    invoice = "APPROVED" =>
        \/ /\ Committed("review") = {"APPROVE"}
           /\ accepted = "APPROVE"
           /\ Committed("approval") = {}
        \/ /\ \E g \in Committed("gate") :
                  /\ g.route = "AUTO_APPROVE"
                  /\ g.policy.similarity = "NO_MATCH"
                  /\ g.policy.extraction # "escalated"
           /\ exceptions = 0

Disposition(a) ==
    CASE a = "APPROVE" -> "APPROVED" [] a = "RETURN" -> "RETURNED" [] a = "ESCALATE" -> "NEEDS_REVIEW"

(* A completed run has one disposition, its invoice carries it, and exactly *)
(* the runs a human decided have an exception.  There is at most one, and   *)
(* it was inserted with the triage evidence (the queue's "triage.prepared"),*)
(* however many executions reach triage.                                   *)
OneDisposition ==
    /\ exceptions = Len(ledger["triage"])
    /\ exceptions <= 1
    /\ run = "COMPLETED" =>
          IF accepted = None
          THEN invoice = "APPROVED" /\ exceptions = 0 /\ Committed("review") = {}
          ELSE /\ invoice = Disposition(accepted)
               /\ exceptions = 1
               /\ Committed("approval") = {}

(* The checkpointed node, or the node after it when its evidence is         *)
(* already committed; None at the end.                                      *)
Due ==
    IF cp.next = "END" THEN None
    ELSE IF cp.next \notin Observed THEN cp.next
    ELSE LET t == Shown(cp.next)
             after == Succ(IF cp.next = "Ingest" THEN cp ELSE Adopt(t, Latest(t), cp))
         IN IF after = "END" THEN None ELSE after

(* "An in-flight node can be shown before its output is recorded": while    *)
(* executors keep their lock, the node shown as active is the one an        *)
(* execution is at or will enter, and no other branch's, although the       *)
(* reader knows the ledger only and its two statements may see different    *)
(* states: the status it has read may be older than the events.             *)
ProgressIsTrue == losses = 0 => ActiveNode("open") = Due

(* Checkpoints only advance, and never revise what they have recorded: an   *)
(* executor that lost its lock cannot move the run back.                   *)
CheckpointAdvances ==
    [][cp' # cp =>
         /\ Rank(cp'.next) > Rank(cp.next)
         /\ \A f \in {"route", "extraction", "erp", "similarity", "review"} :
               cp[f] # None => cp'[f] = cp[f]]_vars

(* "If resume fails, the signed decision stays queued and the worker can be *)
(* retried": with nobody in the graph, a signed decision on a paused run   *)
(* can be resumed or settled, never "not waiting for this human decision"  *)
(* or "Committed graph review evidence is incomplete".                     *)
SignedDecisionResumable ==
    run = "PAUSED" /\ accepted # None /\ lock = None =>
        \/ Reviewing
        \/ Reviewed
        \/ cp.status = "completed" /\ cp.review = accepted /\ ReviewEvidence

(* A run is eventually paused for review or completed, unless the ERP data  *)
(* changed or an executor without its lock committed evidence of its own:  *)
(* then the mismatch ends every attempt.  A signed decision eventually      *)
(* completes its run, whatever was changed, cut or lost before.            *)
RunsFinish ==
    /\ <>(run # "open" \/ erpChanges > 0 \/ losses > 0)
    /\ accepted # None ~> run = "COMPLETED"
=============================================================================
