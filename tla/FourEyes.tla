------------------------------ MODULE FourEyes ------------------------------
(***************************************************************************)
(* Human decisions on queued exceptions: the decision API that records an  *)
(* analyst's proposal and a manager's signoff (api/decision_service.py),   *)
(* and the review worker that resumes the graph with a signed decision and *)
(* settles the run and its exception (graph/review_worker.py).  A run has  *)
(* one exception (DurableGraph, OneDisposition), which names both here.    *)
(* Of the resumed graph this module keeps what the worker asks the ledger: *)
(* the review recorded and the archive event.                              *)
(*                                                                         *)
(* An auditor's request is refused before anything is read, and a worker   *)
(* call with a decision that is not signed off, or whose run is not yet    *)
(* paused, raises: these are stuttering steps.                             *)
(***************************************************************************)
EXTENDS Naturals, Sequences, FiniteSets

CONSTANTS
    Exceptions,  \* exceptions, each with its run
    Keys,        \* idempotency keys
    Actions,     \* what a human may decide
    Workers,     \* review worker processes
    MaxCrashes,  \* bound: worker calls cut short
    None

ASSUME FourEyesAssumption ==
    /\ MaxCrashes \in Nat
    /\ Actions \subseteq {"APPROVE", "RETURN", "ESCALATE"}
    /\ IsFiniteSet(Exceptions)
    /\ None \notin Workers

Roles == {"ANALYST", "MANAGER"}

VARIABLES
    decisions,   \* public.decisions in commit order; ids are positions
    exception,   \* exceptions.status
    run,         \* runs.status of the exception's run
    events,      \* ids of decision.proposed and decision.accepted events
    answers,     \* history: <<request, decision id>> of every success reported
    review,      \* ledger: the decision of review.recorded
    archived,    \* ledger: is workflow.archived committed?
    graphLock,   \* worker holding the run's advisory lock
    pc, read,    \* where each worker is, and the decision it read
    crashes      \* bound counter

api == <<decisions, events, answers>>
graph == <<review, archived, graphLock>>
worker == <<pc, read>>
vars == <<api, exception, run, graph, worker, crashes>>

Final(a) == IF a = "ESCALATE" THEN "ESCALATED" ELSE "RESOLVED"

(* proposal is 0 for "proposal_id": null *)
Requests == [exception: Exceptions, role: Roles, action: Actions,
             proposal: 0 .. Cardinality(Keys), key: Keys]

TypeOK ==
    /\ decisions \in Seq(Requests)
    /\ exception \in [Exceptions -> {"OPEN", "IN_REVIEW", "RESOLVED", "ESCALATED"}]
    /\ run \in [Exceptions -> {"RUNNING", "PAUSED", "COMPLETED"}]
    /\ events \subseteq {"proposed", "accepted"} \X DOMAIN decisions
    /\ answers \subseteq Requests \X DOMAIN decisions
    /\ review \in [Exceptions -> {0} \cup DOMAIN decisions]
    /\ archived \in [Exceptions -> BOOLEAN]
    /\ graphLock \in [Exceptions -> Workers \cup {None}]
    /\ pc \in [Workers -> {"idle", "resume", "review", "archive", "settle"}]
    /\ read \in [Workers -> {0} \cup DOMAIN decisions]
    /\ crashes \in 0 .. MaxCrashes

Init ==
    /\ decisions = <<>>
    /\ exception = [x \in Exceptions |-> "OPEN"]
    /\ run = [x \in Exceptions |-> "RUNNING"]
    /\ events = {}
    /\ answers = {}
    /\ review = [x \in Exceptions |-> 0]
    /\ archived = [x \in Exceptions |-> FALSE]
    /\ graphLock = [x \in Exceptions |-> None]
    /\ pc = [w \in Workers |-> "idle"]
    /\ read = [w \in Workers |-> 0]
    /\ crashes = 0

-----------------------------------------------------------------------------
(* DecisionService.submit: one transaction, which holds the key's advisory *)
(* lock before it looks the key up and the run's and exception's row locks *)
(* before it reads either, all three until it commits.  A refusal and any  *)
(* failure roll it back: no action here.                                   *)

Stored(k) == {i \in DOMAIN decisions : decisions[i].key = k}
Of(x) == {i \in DOMAIN decisions : decisions[i].exception = x}

SameRequest(i, q) == decisions[i] = q

(* A stored key answers its own request again and refuses any other. *)
Replay(q) ==
    \E i \in Stored(q.key) :
        /\ SameRequest(i, q)
        /\ answers' = answers \cup {<<q, i>>}
        /\ UNCHANGED <<decisions, events, exception, run, graph, worker, crashes>>

(* The checks under the locks of the run and the exception. *)
Awaiting(x) == run[x] = "PAUSED" /\ exception[x] \in {"OPEN", "IN_REVIEW"}

ProposalAllowedAgain(q) ==
    /\ q.role = "ANALYST"
    /\ q.proposal = 0
ProposalAllowed(q) ==
    /\ q.role = "ANALYST"
    /\ q.proposal = 0
    /\ Of(q.exception) = {}
    /\ exception[q.exception] = "OPEN"

SignoffAllowedTwice(q) ==
    /\ q.role = "MANAGER"
    /\ q.proposal \in Of(q.exception)
    /\ decisions[q.proposal].role = "ANALYST"
    /\ decisions[q.proposal].proposal = 0
    /\ q.action = "APPROVE" => decisions[q.proposal].action = "APPROVE"
    /\ exception[q.exception] = "IN_REVIEW"
SignoffAllowed(q) ==
    /\ q.role = "MANAGER"
    /\ {q.proposal} = Of(q.exception)
    /\ decisions[q.proposal].role = "ANALYST"
    /\ decisions[q.proposal].proposal = 0
    /\ q.action = "APPROVE" => decisions[q.proposal].action = "APPROVE"
    /\ exception[q.exception] = "IN_REVIEW"

Allowed(q) == Awaiting(q.exception) /\ (ProposalAllowed(q) \/ SignoffAllowed(q))

(* The decision row, the exception's status and the ledger event commit    *)
(* together; the client may still see a failure.                           *)
Row(q) == Append(decisions, q)
Event(q) == <<IF q.role = "ANALYST" THEN "proposed" ELSE "accepted", Len(decisions) + 1>>
StatusAfter(q) == IF q.role = "ANALYST" THEN "IN_REVIEW" ELSE exception[q.exception]

Decide(q) ==
    /\ Stored(q.key) = {}
    /\ Allowed(q)
    /\ decisions' = Row(q)
    /\ events' = events \cup {Event(q)}
    /\ exception' = [exception EXCEPT ![q.exception] = StatusAfter(q)]
    /\ \/ answers' = answers \cup {<<q, Len(decisions) + 1>>}
       \/ UNCHANGED answers
    /\ UNCHANGED <<run, graph, worker, crashes>>

-----------------------------------------------------------------------------
(* DecisionResumeWorker.process *)

HasSignoff(i) ==
    /\ decisions[i].role = "MANAGER"
    /\ decisions[i].proposal # 0
    /\ decisions[decisions[i].proposal].role = "ANALYST"
    /\ decisions[i].action = "APPROVE" => decisions[decisions[i].proposal].action = "APPROVE"

Goto(w, label) == pc' = [pc EXCEPT ![w] = label]
ExceptionOf(w) == decisions[read[w]].exception

(* The first SELECT: what it reads is not locked. *)
Read(w, i) ==
    /\ pc[w] = "idle"
    /\ HasSignoff(i)
    /\ LET status == run[decisions[i].exception]
       IN /\ status \in {"PAUSED", "COMPLETED"}
          /\ read' = [read EXCEPT ![w] = i]
          /\ Goto(w, IF status = "PAUSED" THEN "resume" ELSE "settle")
    /\ UNCHANGED <<api, exception, run, graph, crashes>>

(* InvoiceGraphRunner.resume: under the run's lock, or RunInProgress.  A   *)
(* graph that recorded another review refuses, one that has completed this *)
(* review returns at once.                                                 *)
FitsOnlyFresh(x, i) == review[x] = 0
Fits(x, i) == review[x] \in {0, i}

Resume(w) ==
    LET x == ExceptionOf(w)
    IN /\ pc[w] = "resume"
       /\ graphLock[x] = None
       /\ Fits(x, read[w])
       /\ IF archived[x]
          THEN Goto(w, "settle") /\ UNCHANGED graphLock
          ELSE /\ Goto(w, IF review[x] = 0 THEN "review" ELSE "archive")
               /\ graphLock' = [graphLock EXCEPT ![x] = w]
       /\ UNCHANGED <<review, archived, read, api, exception, run, crashes>>

ResumeRefused(w) ==
    LET x == ExceptionOf(w)
    IN /\ pc[w] = "resume"
       /\ graphLock[x] # None \/ ~Fits(x, read[w])
       /\ Goto(w, "idle")
       /\ UNCHANGED <<read, graph, api, exception, run, crashes>>

(* Node HumanReview: review.recorded. *)
RecordReview(w) ==
    /\ pc[w] = "review"
    /\ review' = [review EXCEPT ![ExceptionOf(w)] = read[w]]
    /\ Goto(w, "archive")
    /\ UNCHANGED <<archived, graphLock, read, api, exception, run, crashes>>

(* Node Archive: workflow.archived; the graph has completed. *)
Archive(w) ==
    /\ pc[w] = "archive"
    /\ archived' = [archived EXCEPT ![ExceptionOf(w)] = TRUE]
    /\ graphLock' = [graphLock EXCEPT ![ExceptionOf(w)] = None]
    /\ Goto(w, "settle")
    /\ UNCHANGED <<review, read, api, exception, run, crashes>>

(* The settlement transaction looks again at the run, the evidence and the *)
(* exception, and changes both rows or none.  A refusal would roll back    *)
(* and end the call; StaleReadSettles says there is none.                  *)
SettleEvidence(x, i) == review[x] = i /\ archived[x]
SettleAllowedOnce(x, i) ==
    /\ run[x] \in {"PAUSED", "COMPLETED"}
    /\ SettleEvidence(x, i)
    /\ exception[x] = "IN_REVIEW"
SettleAllowed(x, i) ==
    /\ run[x] \in {"PAUSED", "COMPLETED"}
    /\ SettleEvidence(x, i)
    /\ exception[x] \in {"IN_REVIEW", Final(decisions[i].action)}

SettleRunOnly(w) ==
    LET x == ExceptionOf(w)
    IN /\ pc[w] = "settle"
       /\ SettleAllowed(x, read[w])
       /\ run' = [run EXCEPT ![x] = "COMPLETED"]
       /\ Goto(w, "idle")
       /\ UNCHANGED <<exception, read, api, graph, crashes>>
Settle(w) ==
    LET x == ExceptionOf(w)
    IN /\ pc[w] = "settle"
       /\ SettleAllowed(x, read[w])
       /\ exception' = [exception EXCEPT ![x] = Final(decisions[read[w]].action)]
       /\ run' = [run EXCEPT ![x] = "COMPLETED"]
       /\ Goto(w, "idle")
       /\ UNCHANGED <<read, api, graph, crashes>>

(* The worker dies, times out or loses a connection. *)
Crash(w) ==
    /\ pc[w] # "idle"
    /\ crashes < MaxCrashes
    /\ crashes' = crashes + 1
    /\ Goto(w, "idle")
    /\ graphLock' = [x \in Exceptions |-> IF graphLock[x] = w THEN None ELSE graphLock[x]]
    /\ UNCHANGED <<review, archived, read, api, exception, run>>

-----------------------------------------------------------------------------
(* The attempt store settles the run whose graph awaits the review. *)
Pause(x) ==
    /\ run[x] = "RUNNING"
    /\ run' = [run EXCEPT ![x] = "PAUSED"]
    /\ UNCHANGED <<api, exception, graph, worker, crashes>>

(* An invoice worker called for the paused run goes on from a recorded     *)
(* review (DurableGraph, Run), in one go: it takes no part in settling.    *)
ArchiveByRun(x) ==
    /\ run[x] = "PAUSED"
    /\ review[x] # 0
    /\ graphLock[x] = None
    /\ archived' = [archived EXCEPT ![x] = TRUE]
    /\ UNCHANGED <<review, graphLock, api, exception, run, worker, crashes>>

WorkerStep(w) ==
    \/ Resume(w)
    \/ ResumeRefused(w)
    \/ RecordReview(w)
    \/ Archive(w)
    \/ Settle(w)

Next ==
    \/ \E q \in Requests : Replay(q) \/ Decide(q)
    \/ \E w \in Workers :
          \/ \E i \in DOMAIN decisions : Read(w, i)
          \/ WorkerStep(w)
          \/ Crash(w)
    \/ \E x \in Exceptions : Pause(x) \/ ArchiveByRun(x)

Spec == Init /\ [][Next]_vars

(* A process that is started runs its call.  A decision whose run is still *)
(* paused is offered to a worker again, since the CLI exits nonzero when a *)
(* call raises; every offer is a process of its own, so calls for other    *)
(* decisions cannot take its turn away (strong fairness: Workers is a      *)
(* bound of the model).  Every graph pauses at last (DurableGraph,         *)
(* RunsFinish; here with an exception).                             *)
Pending(i) == run[decisions[i].exception] = "PAUSED"
FairSpec ==
    /\ Spec
    /\ \A x \in Exceptions : WF_vars(Pause(x))
    /\ \A w \in Workers : WF_vars(WorkerStep(w))
    /\ SF_vars(\E w \in Workers, i \in DOMAIN decisions : Pending(i) /\ Read(w, i))

-----------------------------------------------------------------------------
Proposals(x) == {i \in Of(x) : decisions[i].role = "ANALYST"}
Signoffs(x) == {i \in Of(x) : decisions[i].role = "MANAGER"}

(* The review a graph records is the only signoff the exception will ever  *)
(* have, by a manager, on the analyst's only proposal for that very        *)
(* exception, and no approval comes out of a proposal to do otherwise:     *)
(* neither a second proposal or signoff slipping in around the resume, nor *)
(* a signoff of another exception's proposal.                              *)
ReviewIsSoleSignoff ==
    \A x \in Exceptions : review[x] # 0 =>
        /\ Signoffs(x) = {review[x]}
        /\ Proposals(x) = {decisions[review[x]].proposal}
        /\ decisions[review[x]].action = "APPROVE"
              => \A i \in Of(x) : decisions[i].action = "APPROVE"

(* Run, exception, ledger and answers agree: the run completes with its     *)
(* exception, which ends as the archived review says, and never before the *)
(* archive event; an exception in review has a proposal, an open one has   *)
(* no decision; the ledger tells of every decision and of no other; and    *)
(* since a key stands for one request, every success reported for it names *)
(* the decision that was stored for exactly that request.                  *)
RecordsAgree ==
    /\ \A x \in Exceptions :
          /\ run[x] = "COMPLETED" <=> exception[x] \in {"RESOLVED", "ESCALATED"}
          /\ run[x] = "COMPLETED" =>
                /\ archived[x] /\ review[x] # 0
                /\ exception[x] = Final(decisions[review[x]].action)
          /\ exception[x] = "OPEN" <=> Of(x) = {}
    /\ events = {<<IF decisions[i].role = "ANALYST" THEN "proposed" ELSE "accepted", i>>
                    : i \in DOMAIN decisions}
    /\ \A a \in answers : a[1] = decisions[a[2]]

(* A worker that comes back from the graph still settles, however old the  *)
(* row it read: whatever other workers and the API did meanwhile, the      *)
(* run, the evidence and the exception pass the checks made again under    *)
(* the run's lock, also when another worker has settled the same decision. *)
StaleReadSettles ==
    \A w \in Workers : pc[w] = "settle" => SettleAllowed(ExceptionOf(w), read[w])

(* Whatever the API's clients and the workers repeat, race or leave         *)
(* undone, a reader of the rows and the ledger sees each exception pass     *)
(* once through proposal, signature, execution of the signed decision and   *)
(* the outcome written for it (SignedDecision).                             *)
Signature(i) == [id |-> i, role |-> decisions[i].role, action |-> decisions[i].action]
Record == INSTANCE SignedDecision WITH
    count <- Len(decisions),
    signatures <- [x \in Exceptions |-> {Signature(i) : i \in Of(x)}],
    executed <- review

ImplementsSignedDecision == Record!Spec

SettledAsSigned(x) ==
    /\ run[x] = "COMPLETED"
    /\ \E i \in Signoffs(x) : exception[x] = Final(decisions[i].action)

(* A signed decision is carried out: whatever worker calls die or collide, *)
(* its run completes and its exception is settled the way it says.         *)
SignedDecisionSettled ==
    \A x \in Exceptions : Signoffs(x) # {} ~> SettledAsSigned(x)
=============================================================================
