--------------------------- MODULE FourEyesProofs ---------------------------
(***************************************************************************)
(* Proofs about FourEyes, for every set of exceptions, keys and workers    *)
(* and every number of crashes: the safety properties of human decisions.  *)
(***************************************************************************)
EXTENDS FourEyes, SequenceTheorems, TLAPS

USE FourEyesAssumption

(* Decisions i and j are of one exception and by one role. *)
Rivals(i, j) ==
    /\ decisions[i].exception = decisions[j].exception
    /\ decisions[i].role = decisions[j].role

(* What the API stored: an analyst proposes, a manager signs the proposal   *)
(* of the same exception, and either happens once.                          *)
DecisionsFit ==
    \A i \in DOMAIN decisions :
        /\ decisions[i].role = "ANALYST" => decisions[i].proposal = 0
        /\ decisions[i].role = "MANAGER" =>
               /\ HasSignoff(i)
               /\ decisions[i].proposal \in Of(decisions[i].exception)
        /\ \A j \in DOMAIN decisions : Rivals(i, j) => i = j

(* What the graph recorded is a signoff of its exception, and it archives   *)
(* no exception without one.                                                *)
ReviewsFit ==
    \A x \in Exceptions :
        /\ review[x] # 0 => review[x] \in Of(x) /\ HasSignoff(review[x])
        /\ archived[x] => review[x] # 0

(* A worker inside its call carries a signoff of a run that has paused; in  *)
(* the graph it holds the run's lock and has not recorded it yet or just    *)
(* did, and back from the graph it finds it archived.                       *)
WorkerFits(w) ==
    pc[w] # "idle" =>
        /\ read[w] \in DOMAIN decisions
        /\ HasSignoff(read[w])
        /\ run[ExceptionOf(w)] \in {"PAUSED", "COMPLETED"}
        /\ pc[w] \in {"review", "archive"} => graphLock[ExceptionOf(w)] = w
        /\ pc[w] = "review" => review[ExceptionOf(w)] = 0
        /\ pc[w] \in {"archive", "settle"} => review[ExceptionOf(w)] = read[w]
        /\ pc[w] = "settle" => archived[ExceptionOf(w)]

WorkersFit == \A w \in Workers : WorkerFits(w)

IInv == TypeOK /\ DecisionsFit /\ ReviewsFit /\ WorkersFit /\ RecordsAgree

-----------------------------------------------------------------------------
(* A decision that is stored comes after all others, which stay. *)
LEMMA AppendedDecision ==
    ASSUME TypeOK, NEW q \in Requests, decisions' = Row(q)
    PROVE  /\ decisions' \in Seq(Requests)
           /\ Len(decisions) \in Nat
           /\ DOMAIN decisions = 1 .. Len(decisions)
           /\ DOMAIN decisions' = 1 .. Len(decisions) + 1
           /\ \A i \in DOMAIN decisions : decisions'[i] = decisions[i]
           /\ decisions'[Len(decisions) + 1] = q
BY AppendProperties, LenProperties DEF TypeOK, Row

(* What is stored is a request. *)
LEMMA StoredDecision ==
    ASSUME TypeOK, NEW i \in DOMAIN decisions
    PROVE  decisions[i] \in Requests /\ i \in Nat \ {0}
BY DEF TypeOK

(* A signoff is a manager's, and its proposal is stored. *)
LEMMA SignoffIsManagers ==
    ASSUME NEW i \in DOMAIN decisions, DecisionsFit
    PROVE  /\ HasSignoff(i) <=> decisions[i].role = "MANAGER"
           /\ HasSignoff(i) => decisions[i].proposal \in DOMAIN decisions
BY DEF DecisionsFit, HasSignoff, Of

(* Two signoffs of one exception are one. *)
LEMMA OneSignoff ==
    ASSUME NEW i \in DOMAIN decisions, NEW j \in DOMAIN decisions, DecisionsFit,
           HasSignoff(i), HasSignoff(j), decisions[i].exception = decisions[j].exception
    PROVE  i = j
BY DEF DecisionsFit, HasSignoff, Rivals

-----------------------------------------------------------------------------
(* Every action preserves the types. *)
LEMMA TypeStep == IInv /\ [Next]_vars => TypeOK'
<1> SUFFICES ASSUME IInv, [Next]_vars
             PROVE  TypeOK'
  OBVIOUS
<1> USE DEF IInv, TypeOK, api, graph, worker
<1>1. ASSUME NEW q \in Requests, Replay(q)
      PROVE  TypeOK'
  BY <1>1 DEF Replay, Stored
<1>2. ASSUME NEW q \in Requests, Decide(q)
      PROVE  TypeOK'
  <2>1. /\ decisions' \in Seq(Requests)
        /\ Len(decisions) + 1 \in DOMAIN decisions'
        /\ DOMAIN decisions \subseteq DOMAIN decisions'
    BY <1>2, AppendedDecision DEF Decide
  <2>2. events' \subseteq {"proposed", "accepted"} \X DOMAIN decisions'
    BY <1>2, <2>1 DEF Decide, Event
  <2>3. answers' \subseteq Requests \X DOMAIN decisions'
    BY <1>2, <2>1 DEF Decide
  <2>4. exception' \in [Exceptions -> {"OPEN", "IN_REVIEW", "RESOLVED", "ESCALATED"}]
    BY <1>2 DEF Decide, StatusAfter, Requests
  <2>5. /\ review' \in [Exceptions -> {0} \cup DOMAIN decisions']
        /\ read' \in [Workers -> {0} \cup DOMAIN decisions']
    BY <1>2, <2>1 DEF Decide
  <2>6. QED
    BY <1>2, <2>1, <2>2, <2>3, <2>4, <2>5 DEF Decide
<1>3. ASSUME NEW w \in Workers, NEW i \in DOMAIN decisions, Read(w, i)
      PROVE  TypeOK'
  BY <1>3 DEF Read, Goto
<1>4. ASSUME NEW w \in Workers, Resume(w)
      PROVE  TypeOK'
  BY <1>4 DEF Resume, Goto
<1>5. ASSUME NEW w \in Workers, ResumeRefused(w)
      PROVE  TypeOK'
  BY <1>5 DEF ResumeRefused, Goto
<1>6. ASSUME NEW w \in Workers, RecordReview(w)
      PROVE  TypeOK'
  BY <1>6 DEF RecordReview, Goto
<1>7. ASSUME NEW w \in Workers, Archive(w)
      PROVE  TypeOK'
  BY <1>7 DEF Archive, Goto
<1>8. ASSUME NEW w \in Workers, Settle(w)
      PROVE  TypeOK'
  BY <1>8 DEF Settle, Goto, Final
<1>9. ASSUME NEW w \in Workers, Crash(w)
      PROVE  TypeOK'
  BY <1>9 DEF Crash, Goto
<1>10. ASSUME NEW x \in Exceptions, Pause(x)
       PROVE  TypeOK'
  BY <1>10 DEF Pause
<1>11. ASSUME NEW x \in Exceptions, ArchiveByRun(x)
       PROVE  TypeOK'
  BY <1>11 DEF ArchiveByRun
<1>12. CASE UNCHANGED vars
  BY <1>12 DEF vars
<1>13. QED
  BY <1>1, <1>2, <1>3, <1>4, <1>5, <1>6, <1>7, <1>8, <1>9, <1>10, <1>11, <1>12
     DEF Next, WorkerStep

-----------------------------------------------------------------------------
(* A decision under the locks: the only step that stores one. *)
LEMMA DecideStep ==
    ASSUME IInv, NEW q \in Requests, Decide(q)
    PROVE  DecisionsFit' /\ ReviewsFit' /\ WorkersFit' /\ RecordsAgree'
<1>0. PICK n : n = Len(decisions) + 1
  OBVIOUS
<1> USE DEF IInv
<1>1. /\ n \in Nat \ {0}
      /\ DOMAIN decisions' = DOMAIN decisions \cup {n}
      /\ n \notin DOMAIN decisions
      /\ 0 \notin DOMAIN decisions'
      /\ \A i \in DOMAIN decisions : decisions'[i] = decisions[i]
      /\ decisions'[n] = q
  <2>1. decisions' = Row(q)
    BY DEF Decide
  <2>2. TypeOK
    OBVIOUS
  <2>3. /\ Len(decisions) \in Nat
        /\ DOMAIN decisions = 1 .. Len(decisions)
        /\ DOMAIN decisions' = 1 .. Len(decisions) + 1
        /\ \A i \in DOMAIN decisions : decisions'[i] = decisions[i]
        /\ decisions'[Len(decisions) + 1] = q
    BY <2>1, <2>2, AppendedDecision
  <2>4. QED
    BY <1>0, <2>3
<1>2. q.exception \in Exceptions /\ q.role \in Roles
  BY DEF Requests
<1>3. /\ run[q.exception] = "PAUSED"
      /\ exception[q.exception] \in {"OPEN", "IN_REVIEW"}
      /\ ProposalAllowed(q) \/ SignoffAllowed(q)
  BY DEF Decide, Allowed, Awaiting
<1>4. \A x \in Exceptions : Of(x)' = IF x = q.exception THEN Of(x) \cup {n} ELSE Of(x)
  BY <1>1 DEF Of
<1>5. \A i \in DOMAIN decisions : decisions[i].role = "MANAGER" =>
          decisions[i].proposal \in DOMAIN decisions
  BY DEF DecisionsFit, Of
<1>6. \A i \in DOMAIN decisions : HasSignoff(i) => HasSignoff(i)'
  BY <1>1, <1>5 DEF HasSignoff
<1>7. DecisionsFit'
  <2>1. ASSUME NEW i \in DOMAIN decisions
        PROVE  /\ decisions[i].role = "ANALYST" => decisions[i].proposal = 0
               /\ decisions[i].role = "MANAGER" =>
                      /\ HasSignoff(i)'
                      /\ \E x \in Exceptions :
                             x = decisions[i].exception /\ decisions[i].proposal \in Of(x)'
    <3>1. decisions[i].exception \in Exceptions
      BY StoredDecision DEF Requests
    <3>2. QED
      BY <1>4, <1>6, <3>1 DEF DecisionsFit
  <2>2. CASE ProposalAllowed(q)
    <3>1. /\ q.role = "ANALYST" /\ q.proposal = 0
          /\ Of(q.exception) = {}
      BY <2>2 DEF ProposalAllowed
    <3>2. \A i \in DOMAIN decisions : decisions[i].exception # q.exception
      BY <3>1 DEF Of
    <3>3. QED
      BY <1>1, <2>1, <3>1, <3>2 DEF DecisionsFit, Rivals
  <2>3. CASE SignoffAllowed(q)
    <3>1. /\ q.role = "MANAGER"
          /\ Of(q.exception) = {q.proposal}
          /\ decisions[q.proposal].role = "ANALYST"
          /\ q.action = "APPROVE" => decisions[q.proposal].action = "APPROVE"
      BY <2>3 DEF SignoffAllowed
    <3>2. q.proposal \in DOMAIN decisions /\ q.proposal # 0
      BY <3>1, <1>1 DEF Of
    <3>3. HasSignoff(n)' /\ q.proposal \in Of(q.exception)'
      BY <1>1, <1>2, <1>4, <3>1, <3>2 DEF HasSignoff
    <3>4. \A i \in DOMAIN decisions :
             ~(decisions[i].exception = q.exception /\ decisions[i].role = "MANAGER")
      BY <3>1 DEF Of
    <3>5. QED
      BY <1>1, <2>1, <3>1, <3>3, <3>4 DEF DecisionsFit, Rivals
  <2>4. QED
    BY <1>3, <2>2, <2>3
<1>8. ReviewsFit'
  <2>1. UNCHANGED <<review, archived>>
    BY DEF Decide, graph
  <2>2. QED
    BY <1>1, <1>4, <1>6, <2>1 DEF ReviewsFit, Of
<1>9. WorkersFit'
  <2>1. UNCHANGED <<run, review, archived, graphLock, pc, read>>
    BY DEF Decide, graph, worker
  <2>2. \A w \in Workers : pc[w] # "idle" => ExceptionOf(w)' = ExceptionOf(w)
    BY <1>1, <2>1 DEF WorkersFit, WorkerFits, ExceptionOf
  <2>3. QED
    BY <1>1, <1>6, <2>1, <2>2 DEF WorkersFit, WorkerFits
<1>10. RecordsAgree'
  <2>1. /\ UNCHANGED <<run, review, archived>>
        /\ exception' = [exception EXCEPT ![q.exception] = StatusAfter(q)]
        /\ exception'[q.exception] \in {"OPEN", "IN_REVIEW"}
        /\ q.role = "MANAGER" => exception[q.exception] = "IN_REVIEW"
    BY <1>2, <1>3 DEF Decide, graph, StatusAfter, TypeOK, ProposalAllowed, SignoffAllowed
  <2>2. exception'[q.exception] = "IN_REVIEW"
    BY <1>2, <2>1 DEF StatusAfter, TypeOK, Roles
  <2>3. \A x \in Exceptions : x # q.exception => exception'[x] = exception[x]
    BY <2>1 DEF TypeOK
  <2>4. \A x \in Exceptions :
          /\ run'[x] = "COMPLETED" <=> exception'[x] \in {"RESOLVED", "ESCALATED"}
          /\ exception'[x] = "OPEN" <=> Of(x)' = {}
    BY <1>3, <1>4, <2>1, <2>2, <2>3 DEF RecordsAgree
  <2>5. \A x \in Exceptions : run'[x] = "COMPLETED" =>
          /\ archived'[x] /\ review'[x] # 0
          /\ exception'[x] = Final(decisions'[review'[x]].action)
    <3> SUFFICES ASSUME NEW x \in Exceptions, run'[x] = "COMPLETED"
                 PROVE  /\ archived'[x] /\ review'[x] # 0
                        /\ exception'[x] = Final(decisions'[review'[x]].action)
      OBVIOUS
    <3>1. x # q.exception /\ run[x] = "COMPLETED"
      BY <1>3, <2>1
    <3>2. review[x] \in DOMAIN decisions
      BY <3>1 DEF RecordsAgree, ReviewsFit, Of
    <3>3. QED
      BY <1>1, <2>1, <2>3, <3>1, <3>2 DEF RecordsAgree
  <2>6. events' = {<<IF decisions'[i].role = "ANALYST" THEN "proposed" ELSE "accepted", i>>
                      : i \in DOMAIN decisions'}
    BY <1>0, <1>1 DEF Decide, Event, RecordsAgree
  <2>7. \A a \in answers' : a[1] = decisions'[a[2]]
    <3>1. answers' \subseteq answers \cup {<<q, n>>}
      BY <1>0 DEF Decide
    <3>2. \A a \in answers : a[2] \in DOMAIN decisions
      BY DEF TypeOK
    <3>3. QED
      BY <1>1, <3>1, <3>2 DEF RecordsAgree
  <2>8. QED
    BY <2>4, <2>5, <2>6, <2>7 DEF RecordsAgree
<1>11. QED
  BY <1>7, <1>8, <1>9, <1>10

(* Whoever only moves between labels, at most into the graph under its      *)
(* lock, leaves what is stored alone.                                       *)
LEMMA CallStep ==
    ASSUME IInv, NEW w \in Workers,
           \/ \E i \in DOMAIN decisions : Read(w, i)
           \/ Resume(w) \/ ResumeRefused(w) \/ Crash(w)
    PROVE  DecisionsFit' /\ ReviewsFit' /\ WorkersFit' /\ RecordsAgree'
<1> USE DEF IInv
<1>1. UNCHANGED <<decisions, events, answers, exception, run, review, archived>>
  BY DEF Read, Resume, ResumeRefused, Crash, api, graph
<1>2. DecisionsFit' /\ ReviewsFit' /\ RecordsAgree'
  BY <1>1 DEF DecisionsFit, ReviewsFit, RecordsAgree, HasSignoff, Of, Rivals, Final
<1>3. ASSUME NEW i \in DOMAIN decisions, Read(w, i)
      PROVE  WorkersFit'
  <2>1. /\ pc[w] = "idle"
        /\ HasSignoff(i)
        /\ read' = [read EXCEPT ![w] = i]
        /\ graphLock' = graphLock
        /\ run[decisions[i].exception] \in {"PAUSED", "COMPLETED"}
        /\ pc' = [pc EXCEPT ![w] = IF run[decisions[i].exception] = "PAUSED"
                                   THEN "resume" ELSE "settle"]
    BY <1>3 DEF Read, Goto, graph
  <2>2. ASSUME run[decisions[i].exception] = "COMPLETED"
        PROVE  /\ review[decisions[i].exception] = i
               /\ archived[decisions[i].exception]
    <3>1. decisions[i].exception \in Exceptions
      BY StoredDecision DEF Requests
    <3>2. archived[decisions[i].exception] /\ review[decisions[i].exception] # 0
      BY <2>2, <3>1 DEF RecordsAgree
    <3>3. /\ review[decisions[i].exception] \in DOMAIN decisions
          /\ decisions[review[decisions[i].exception]].exception = decisions[i].exception
          /\ HasSignoff(review[decisions[i].exception])
      BY <3>1, <3>2 DEF ReviewsFit, Of
    <3>4. QED
      BY <2>1, <3>2, <3>3, OneSignoff
  <2>3. QED
    BY <1>1, <2>1, <2>2 DEF WorkersFit, WorkerFits, HasSignoff, ExceptionOf, TypeOK
<1>4. ASSUME Resume(w)
      PROVE  WorkersFit'
  <2>1. /\ pc[w] = "resume"
        /\ graphLock[ExceptionOf(w)] = None
        /\ review[ExceptionOf(w)] \in {0, read[w]}
        /\ read' = read
        /\ IF archived[ExceptionOf(w)]
           THEN pc' = [pc EXCEPT ![w] = "settle"] /\ UNCHANGED graphLock
           ELSE /\ pc' = [pc EXCEPT ![w] = IF review[ExceptionOf(w)] = 0
                                           THEN "review" ELSE "archive"]
                /\ graphLock' = [graphLock EXCEPT ![ExceptionOf(w)] = w]
    BY <1>4 DEF Resume, Fits, Goto
  <2>2. /\ read[w] \in DOMAIN decisions
        /\ ExceptionOf(w) \in Exceptions
    BY <2>1, StoredDecision DEF WorkersFit, WorkerFits, ExceptionOf, Requests
  <2>3. archived[ExceptionOf(w)] => review[ExceptionOf(w)] = read[w]
    BY <2>1, <2>2 DEF ReviewsFit
  <2>4. \A v \in Workers : pc[v] # "idle" => ExceptionOf(v)' = ExceptionOf(v)
    BY <1>1, <2>1 DEF ExceptionOf
  <2>5. \A v \in Workers : v # w => pc'[v] = pc[v]
    BY <2>1 DEF TypeOK
  <2>6. \A v \in Workers : v # w /\ pc[v] \in {"review", "archive"} =>
            ExceptionOf(v) # ExceptionOf(w)
    BY <2>1 DEF WorkersFit, WorkerFits
  <2>7. ASSUME NEW v \in Workers, v # w
        PROVE  WorkerFits(v)'
    <3>1. pc[v] # "idle" => ExceptionOf(v) \in Exceptions
      BY StoredDecision DEF WorkersFit, WorkerFits, ExceptionOf, Requests
    <3>2. QED
      BY <1>1, <2>1, <2>2, <2>4, <2>5, <2>6, <2>7, <3>1
         DEF WorkersFit, WorkerFits, HasSignoff, TypeOK
  <2>8. WorkerFits(w)'
    BY <1>1, <2>1, <2>2, <2>3, <2>4 DEF WorkersFit, WorkerFits, HasSignoff, TypeOK
  <2>9. QED
    BY <2>7, <2>8 DEF WorkersFit
<1>5. ASSUME ResumeRefused(w)
      PROVE  WorkersFit'
  <2> SUFFICES ASSUME NEW v \in Workers
               PROVE  WorkerFits(v)'
    BY DEF WorkersFit
  <2>1. /\ UNCHANGED <<read, graphLock>>
        /\ pc' = [pc EXCEPT ![w] = "idle"]
    BY <1>5 DEF ResumeRefused, Goto, graph
  <2>2. QED
    BY <1>1, <2>1 DEF WorkersFit, WorkerFits, HasSignoff, ExceptionOf, TypeOK
<1>6. ASSUME Crash(w)
      PROVE  WorkersFit'
  <2> SUFFICES ASSUME NEW v \in Workers
               PROVE  WorkerFits(v)'
    BY DEF WorkersFit
  <2>1. /\ read' = read
        /\ pc' = [pc EXCEPT ![w] = "idle"]
        /\ \A x \in Exceptions : graphLock[x] # w => graphLock'[x] = graphLock[x]
    BY <1>6 DEF Crash, Goto
  <2>2. pc[v] # "idle" => ExceptionOf(v) \in Exceptions
    BY StoredDecision DEF WorkersFit, WorkerFits, ExceptionOf, Requests
  <2>3. QED
    BY <1>1, <2>1, <2>2 DEF WorkersFit, WorkerFits, HasSignoff, ExceptionOf, TypeOK
<1>7. QED
  BY <1>2, <1>3, <1>4, <1>5, <1>6

(* The nodes that record: the review, by the worker that holds the lock and *)
(* found none, then the archive event.                                      *)
LEMMA RecordStep ==
    ASSUME IInv,
           \/ \E w \in Workers : RecordReview(w) \/ Archive(w)
           \/ \E x \in Exceptions : ArchiveByRun(x)
    PROVE  DecisionsFit' /\ ReviewsFit' /\ WorkersFit' /\ RecordsAgree'
<1> USE DEF IInv
<1>1. UNCHANGED <<decisions, events, answers, exception, run, read>>
  BY DEF RecordReview, Archive, ArchiveByRun, api, worker
<1>2. DecisionsFit'
  BY <1>1 DEF DecisionsFit, HasSignoff, Of, Rivals
<1>3. \A v \in Workers : pc[v] # "idle" =>
          /\ ExceptionOf(v) \in Exceptions
          /\ ExceptionOf(v)' = ExceptionOf(v)
          /\ read[v] \in DOMAIN decisions /\ read[v] # 0
  BY <1>1, StoredDecision DEF WorkersFit, WorkerFits, ExceptionOf, Requests
<1>4. ASSUME NEW w \in Workers, RecordReview(w)
      PROVE  ReviewsFit' /\ WorkersFit' /\ RecordsAgree'
  <2>1. /\ pc[w] = "review"
        /\ review' = [review EXCEPT ![ExceptionOf(w)] = read[w]]
        /\ pc' = [pc EXCEPT ![w] = "archive"]
        /\ UNCHANGED <<archived, graphLock>>
    BY <1>4 DEF RecordReview, Goto
  <2>2. /\ review[ExceptionOf(w)] = 0
        /\ graphLock[ExceptionOf(w)] = w
        /\ HasSignoff(read[w])
    BY <2>1 DEF WorkersFit, WorkerFits
  <2>3. ReviewsFit'
    BY <1>1, <1>3, <2>1, <2>2 DEF ReviewsFit, HasSignoff, Of, ExceptionOf, TypeOK
  <2>4. RecordsAgree'
    BY <1>1, <1>3, <2>1, <2>2 DEF RecordsAgree, Of, Final, TypeOK
  <2>5. ASSUME NEW v \in Workers
        PROVE  WorkerFits(v)'
    <3>1. v # w /\ pc[v] \in {"review", "archive", "settle"} =>
              ExceptionOf(v) # ExceptionOf(w)
      BY <1>3, <2>2 DEF WorkersFit, WorkerFits
    <3>2. CASE v = w
      BY <1>1, <1>3, <2>1, <2>2, <3>2 DEF WorkersFit, WorkerFits, HasSignoff, TypeOK
    <3>3. CASE v # w
      BY <1>1, <1>3, <2>1, <3>1, <3>3 DEF WorkersFit, WorkerFits, HasSignoff, TypeOK
    <3>4. QED
      BY <3>2, <3>3
  <2>6. QED
    BY <2>3, <2>4, <2>5 DEF WorkersFit
<1>5. ASSUME NEW w \in Workers, Archive(w)
      PROVE  ReviewsFit' /\ WorkersFit' /\ RecordsAgree'
  <2>1. /\ pc[w] = "archive"
        /\ archived' = [archived EXCEPT ![ExceptionOf(w)] = TRUE]
        /\ graphLock' = [graphLock EXCEPT ![ExceptionOf(w)] = None]
        /\ pc' = [pc EXCEPT ![w] = "settle"]
        /\ review' = review
    BY <1>5 DEF Archive, Goto
  <2>2. /\ review[ExceptionOf(w)] = read[w]
        /\ graphLock[ExceptionOf(w)] = w
    BY <2>1 DEF WorkersFit, WorkerFits
  <2>3. ReviewsFit'
    BY <1>1, <1>3, <2>1, <2>2 DEF ReviewsFit, HasSignoff, Of, TypeOK
  <2>4. RecordsAgree'
    BY <1>1, <1>3, <2>1 DEF RecordsAgree, Of, Final, TypeOK
  <2>5. ASSUME NEW v \in Workers
        PROVE  WorkerFits(v)'
    <3>1. v # w /\ pc[v] \in {"review", "archive"} => ExceptionOf(v) # ExceptionOf(w)
      BY <2>2 DEF WorkersFit, WorkerFits
    <3>2. CASE v = w
      BY <1>1, <1>3, <2>1, <2>2, <3>2 DEF WorkersFit, WorkerFits, HasSignoff, TypeOK
    <3>3. CASE v # w
      BY <1>1, <1>3, <2>1, <3>1, <3>3 DEF WorkersFit, WorkerFits, HasSignoff, TypeOK
    <3>4. QED
      BY <3>2, <3>3
  <2>6. QED
    BY <2>3, <2>4, <2>5 DEF WorkersFit
<1>6. ASSUME NEW x \in Exceptions, ArchiveByRun(x)
      PROVE  ReviewsFit' /\ WorkersFit' /\ RecordsAgree'
  <2>1. /\ review[x] # 0
        /\ archived' = [archived EXCEPT ![x] = TRUE]
        /\ UNCHANGED <<review, graphLock, pc>>
    BY <1>6 DEF ArchiveByRun, worker
  <2>2. ReviewsFit'
    BY <1>1, <2>1 DEF ReviewsFit, HasSignoff, Of, TypeOK
  <2>3. RecordsAgree'
    BY <1>1, <2>1 DEF RecordsAgree, Of, Final, TypeOK
  <2>4. ASSUME NEW v \in Workers
        PROVE  WorkerFits(v)'
    BY <1>1, <1>3, <2>1 DEF WorkersFit, WorkerFits, HasSignoff, TypeOK
  <2>5. QED
    BY <2>2, <2>3, <2>4 DEF WorkersFit
<1>7. QED
  BY <1>2, <1>4, <1>5, <1>6

(* A worker back from the graph passes the checks made again: what it read  *)
(* is the recorded review, so the exception has its proposal and is either  *)
(* still in review or settled by the same decision.                         *)
LEMMA SettlementAllowed ==
    ASSUME IInv, NEW w \in Workers, pc[w] = "settle"
    PROVE  SettleAllowed(ExceptionOf(w), read[w])
<1> USE DEF IInv
<1>1. /\ run[ExceptionOf(w)] \in {"PAUSED", "COMPLETED"}
      /\ review[ExceptionOf(w)] = read[w]
      /\ archived[ExceptionOf(w)]
      /\ read[w] \in DOMAIN decisions
  BY DEF WorkersFit, WorkerFits
<1>2. /\ ExceptionOf(w) \in Exceptions
      /\ read[w] \in Of(ExceptionOf(w))
  BY <1>1, StoredDecision DEF ExceptionOf, Requests, Of
<1>3. exception[ExceptionOf(w)] # "OPEN"
  BY <1>2 DEF RecordsAgree
<1>4. run[ExceptionOf(w)] = "COMPLETED" =>
          exception[ExceptionOf(w)] = Final(decisions[read[w]].action)
  BY <1>1, <1>2 DEF RecordsAgree
<1>5. run[ExceptionOf(w)] # "COMPLETED" => exception[ExceptionOf(w)] = "IN_REVIEW"
  BY <1>2, <1>3 DEF RecordsAgree, TypeOK
<1>6. QED
  BY <1>1, <1>4, <1>5 DEF SettleAllowed, SettleEvidence

(* The run and exception rows move: a settlement, or the run pausing. *)
LEMMA RowStep ==
    ASSUME IInv,
           \/ \E w \in Workers : Settle(w)
           \/ \E x \in Exceptions : Pause(x)
    PROVE  DecisionsFit' /\ ReviewsFit' /\ WorkersFit' /\ RecordsAgree'
<1> USE DEF IInv
<1>1. UNCHANGED <<decisions, events, answers, review, archived, graphLock, read>>
  BY DEF Settle, Pause, api, graph, worker
<1>2. DecisionsFit' /\ ReviewsFit'
  BY <1>1 DEF DecisionsFit, ReviewsFit, HasSignoff, Of, Rivals
<1>3. \A v \in Workers : pc[v] # "idle" =>
          /\ ExceptionOf(v) \in Exceptions
          /\ ExceptionOf(v)' = ExceptionOf(v)
          /\ read[v] \in DOMAIN decisions /\ read[v] # 0
  BY <1>1, StoredDecision DEF WorkersFit, WorkerFits, ExceptionOf, Requests
<1>4. ASSUME NEW w \in Workers, Settle(w)
      PROVE  WorkersFit' /\ RecordsAgree'
  <2>1. /\ pc[w] = "settle"
        /\ exception' = [exception EXCEPT ![ExceptionOf(w)] =
                             Final(decisions[read[w]].action)]
        /\ run' = [run EXCEPT ![ExceptionOf(w)] = "COMPLETED"]
        /\ pc' = [pc EXCEPT ![w] = "idle"]
    BY <1>4 DEF Settle, Goto
  <2>2. /\ review[ExceptionOf(w)] = read[w]
        /\ archived[ExceptionOf(w)]
        /\ read[w] \in Of(ExceptionOf(w))
    BY <1>3, <2>1 DEF WorkersFit, WorkerFits, Of, ExceptionOf
  <2>3. ASSUME NEW v \in Workers
        PROVE  WorkerFits(v)'
    BY <1>1, <1>3, <2>1 DEF WorkersFit, WorkerFits, HasSignoff, TypeOK
  <2>4. RecordsAgree'
    BY <1>1, <1>3, <2>1, <2>2 DEF RecordsAgree, Of, Final, TypeOK
  <2>5. QED
    BY <2>3, <2>4 DEF WorkersFit
<1>5. ASSUME NEW x \in Exceptions, Pause(x)
      PROVE  WorkersFit' /\ RecordsAgree'
  <2>1. /\ run[x] = "RUNNING"
        /\ run' = [run EXCEPT ![x] = "PAUSED"]
        /\ UNCHANGED <<exception, pc>>
    BY <1>5 DEF Pause, worker
  <2>2. ASSUME NEW v \in Workers
        PROVE  WorkerFits(v)'
    BY <1>1, <1>3, <2>1 DEF WorkersFit, WorkerFits, HasSignoff, TypeOK
  <2>3. RecordsAgree'
    BY <1>1, <2>1 DEF RecordsAgree, Of, Final, TypeOK
  <2>4. QED
    BY <2>2, <2>3 DEF WorkersFit
<1>6. QED
  BY <1>2, <1>4, <1>5

(* An answered retry adds only its answer, and a stutter nothing. *)
LEMMA ReplayStep ==
    ASSUME IInv, (\E q \in Requests : Replay(q)) \/ UNCHANGED vars
    PROVE  DecisionsFit' /\ ReviewsFit' /\ WorkersFit' /\ RecordsAgree'
<1> USE DEF IInv
<1>1. UNCHANGED <<decisions, events, exception, run, review, archived, graphLock, pc, read>>
  BY DEF Replay, vars, api, graph, worker
<1>2. \A a \in answers' : a[1] = decisions[a[2]]
  BY DEF Replay, Stored, SameRequest, RecordsAgree, vars, api
<1>3. DecisionsFit' /\ ReviewsFit' /\ RecordsAgree'
  BY <1>1, <1>2 DEF DecisionsFit, ReviewsFit, RecordsAgree, HasSignoff, Of, Rivals, Final
<1>4. ASSUME NEW v \in Workers
      PROVE  WorkerFits(v)'
  BY <1>1 DEF WorkersFit, WorkerFits, HasSignoff, ExceptionOf
<1>5. QED
  BY <1>3, <1>4 DEF WorkersFit

-----------------------------------------------------------------------------
(* The inductive invariant. *)
THEOREM Invariant == Spec => []IInv
<1>1. Init => IInv
  <2> SUFFICES ASSUME Init
               PROVE  IInv
    OBVIOUS
  <2>1. DOMAIN decisions = {}
    BY DEF Init
  <2>2. TypeOK
    BY <2>1, EmptySeq DEF Init, TypeOK
  <2>3. DecisionsFit /\ ReviewsFit /\ WorkersFit /\ RecordsAgree
    BY <2>1 DEF Init, DecisionsFit, ReviewsFit, WorkersFit, WorkerFits, RecordsAgree, Of
  <2>4. QED
    BY <2>2, <2>3 DEF IInv
<1>2. IInv /\ [Next]_vars => IInv'
  <2> SUFFICES ASSUME IInv, [Next]_vars
               PROVE  DecisionsFit' /\ ReviewsFit' /\ WorkersFit' /\ RecordsAgree'
    BY TypeStep DEF IInv
  <2>1. ASSUME NEW q \in Requests, Replay(q) \/ Decide(q)
        PROVE  DecisionsFit' /\ ReviewsFit' /\ WorkersFit' /\ RecordsAgree'
    BY <2>1, ReplayStep, DecideStep
  <2>2. ASSUME NEW w \in Workers,
               \/ \E i \in DOMAIN decisions : Read(w, i)
               \/ WorkerStep(w)
               \/ Crash(w)
        PROVE  DecisionsFit' /\ ReviewsFit' /\ WorkersFit' /\ RecordsAgree'
    BY <2>2, CallStep, RecordStep, RowStep DEF WorkerStep
  <2>3. ASSUME NEW x \in Exceptions, Pause(x) \/ ArchiveByRun(x)
        PROVE  DecisionsFit' /\ ReviewsFit' /\ WorkersFit' /\ RecordsAgree'
    BY <2>3, RecordStep, RowStep
  <2>4. CASE UNCHANGED vars
    BY <2>4, ReplayStep
  <2>5. QED
    BY <2>1, <2>2, <2>3, <2>4 DEF Next
<1>3. QED
  BY <1>1, <1>2, PTL DEF Spec

(* Type correctness: every row, event, answer and worker variable keeps its *)
(* type in every behaviour.                                                 *)
THEOREM TypeCorrect == Spec => []TypeOK
BY Invariant, PTL DEF IInv

(* Run, exception, ledger and the answers of the API agree in every state. *)
THEOREM RecordsAlwaysAgree == Spec => []RecordsAgree
BY Invariant, PTL DEF IInv

(* The review a graph records is the exception's only signoff, on its only  *)
(* proposal, and an approval only of a proposal to approve.                 *)
THEOREM SoleSignoff == Spec => []ReviewIsSoleSignoff
<1>1. IInv => ReviewIsSoleSignoff
  <2> SUFFICES ASSUME IInv, NEW x \in Exceptions, review[x] # 0
               PROVE  /\ Signoffs(x) = {review[x]}
                      /\ Proposals(x) = {decisions[review[x]].proposal}
                      /\ decisions[review[x]].action = "APPROVE"
                            => \A i \in Of(x) : decisions[i].action = "APPROVE"
    BY DEF ReviewIsSoleSignoff
  <2> USE DEF IInv
  <2>1. /\ review[x] \in Of(x)
        /\ decisions[review[x]].role = "MANAGER"
        /\ decisions[decisions[review[x]].proposal].role = "ANALYST"
        /\ decisions[review[x]].action = "APPROVE" =>
               decisions[decisions[review[x]].proposal].action = "APPROVE"
    BY DEF ReviewsFit, HasSignoff
  <2>2. decisions[review[x]].proposal \in Of(x)
    BY <2>1 DEF DecisionsFit, Of
  <2>3. \A i, j \in Of(x) : decisions[i].role = decisions[j].role => i = j
    BY DEF DecisionsFit, Of, Rivals
  <2>4. \A i \in Of(x) : decisions[i].role \in {"ANALYST", "MANAGER"}
    BY StoredDecision DEF Of, Requests, Roles
  <2>5. QED
    BY <2>1, <2>2, <2>3, <2>4 DEF Signoffs, Proposals
<1>2. QED
  BY <1>1, Invariant, PTL

(* A worker back from the graph always passes the checks made again before  *)
(* it settles, however old the row it read.                                 *)
THEOREM StaleReadAlwaysSettles == Spec => []StaleReadSettles
<1>1. IInv => StaleReadSettles
  BY SettlementAllowed DEF StaleReadSettles
<1>2. QED
  BY <1>1, Invariant, PTL

(* Nothing is decided on an exception whose review is recorded: its signoff *)
(* and its proposal are two decisions, so it neither is open nor has one.   *)
LEMMA NoLateDecision ==
    ASSUME IInv, NEW q \in Requests, Decide(q)
    PROVE  review[q.exception] = 0
<1> SUFFICES ASSUME review[q.exception] # 0
             PROVE  FALSE
  OBVIOUS
<1> USE DEF IInv
<1>1. q.exception \in Exceptions
  BY DEF Requests
<1>2. /\ review[q.exception] \in Of(q.exception)
      /\ decisions[review[q.exception]].role = "MANAGER"
  BY <1>1 DEF ReviewsFit, HasSignoff
<1>3. SignoffAllowed(q)
  BY <1>2 DEF Decide, Allowed, ProposalAllowed
<1>4. review[q.exception] = q.proposal /\ decisions[q.proposal].role = "ANALYST"
  BY <1>2, <1>3 DEF SignoffAllowed
<1>5. QED
  BY <1>2, <1>4

(* Once a graph has recorded a review, the exception's decisions, and once *)
(* it is settled, its status, never change: a late proposal, signoff or    *)
(* second worker finds the exception closed.                               *)
ReviewedIsFrozen ==
    [][\A x \in Exceptions :
         /\ review[x] # 0 => Of(x)' = Of(x) /\ review'[x] = review[x]
         /\ run[x] = "COMPLETED" => run'[x] = run[x] /\ exception'[x] = exception[x]]_vars

(* The decisions of a reviewed exception and the outcome of a completed run *)
(* never change.                                                            *)
THEOREM ReviewedStaysFrozen == Spec => ReviewedIsFrozen
<1>1. ASSUME IInv, [Next]_vars, NEW x \in Exceptions
      PROVE  /\ review[x] # 0 => Of(x)' = Of(x) /\ review'[x] = review[x]
             /\ run[x] = "COMPLETED" => run'[x] = run[x] /\ exception'[x] = exception[x]
  <2> USE <1>1 DEF IInv
  <2>1. ASSUME NEW q \in Requests, Decide(q)
        PROVE  /\ review[x] # 0 => Of(x)' = Of(x) /\ review'[x] = review[x]
               /\ run[x] = "COMPLETED" =>
                      run'[x] = run[x] /\ exception'[x] = exception[x]
    <3>1. /\ DOMAIN decisions' = DOMAIN decisions \cup {Len(decisions) + 1}
          /\ \A i \in DOMAIN decisions : decisions'[i] = decisions[i]
          /\ decisions'[Len(decisions) + 1] = q
      <4>1. TypeOK /\ decisions' = Row(q)
        BY <2>1 DEF Decide
      <4>2. /\ Len(decisions) \in Nat
            /\ DOMAIN decisions = 1 .. Len(decisions)
            /\ DOMAIN decisions' = 1 .. Len(decisions) + 1
            /\ \A i \in DOMAIN decisions : decisions'[i] = decisions[i]
            /\ decisions'[Len(decisions) + 1] = q
        BY <4>1, AppendedDecision
      <4>3. QED
        BY <4>2
    <3>2. review[x] # 0 => q.exception # x
      BY <2>1, NoLateDecision
    <3>3. review[x] # 0 => Of(x)' = Of(x)
      BY <3>1, <3>2 DEF Of
    <3>4. run[q.exception] = "PAUSED"
      BY <2>1 DEF Decide, Allowed, Awaiting
    <3>5. QED
      BY <2>1, <3>3, <3>4 DEF Decide, graph, TypeOK
  <2>2. ASSUME NEW w \in Workers, Settle(w)
        PROVE  /\ review[x] # 0 => Of(x)' = Of(x) /\ review'[x] = review[x]
               /\ run[x] = "COMPLETED" =>
                      run'[x] = run[x] /\ exception'[x] = exception[x]
    <3>1. review[ExceptionOf(w)] = read[w]
      BY <2>2 DEF Settle, WorkersFit, WorkerFits
    <3>2. run[x] = "COMPLETED" => exception[x] = Final(decisions[review[x]].action)
      BY DEF RecordsAgree
    <3>3. QED
      BY <2>2, <3>1, <3>2 DEF Settle, api, graph, Of, TypeOK
  <2>3. ASSUME NEW w \in Workers, RecordReview(w)
        PROVE  /\ review[x] # 0 => Of(x)' = Of(x) /\ review'[x] = review[x]
               /\ run[x] = "COMPLETED" =>
                      run'[x] = run[x] /\ exception'[x] = exception[x]
    <3>1. review[ExceptionOf(w)] = 0
      BY <2>3 DEF RecordReview, WorkersFit, WorkerFits
    <3>2. QED
      BY <2>3, <3>1 DEF RecordReview, api, Of, TypeOK
  <2>4. ASSUME \/ \E q \in Requests : Replay(q)
               \/ \E w \in Workers :
                      \/ \E i \in DOMAIN decisions : Read(w, i)
                      \/ Resume(w) \/ ResumeRefused(w) \/ Archive(w) \/ Crash(w)
               \/ \E y \in Exceptions : Pause(y) \/ ArchiveByRun(y)
               \/ UNCHANGED vars
        PROVE  /\ review[x] # 0 => Of(x)' = Of(x) /\ review'[x] = review[x]
               /\ run[x] = "COMPLETED" =>
                      run'[x] = run[x] /\ exception'[x] = exception[x]
    <3>1. UNCHANGED <<decisions, exception, review>>
      BY <2>4 DEF Replay, Read, Resume, ResumeRefused, Archive, Crash, Pause,
                  ArchiveByRun, vars, api, graph, worker
    <3>2. run[x] = "COMPLETED" => run'[x] = run[x]
      BY <2>4 DEF Replay, Read, Resume, ResumeRefused, Archive, Crash, Pause,
                  ArchiveByRun, vars, TypeOK
    <3>3. QED
      BY <3>1, <3>2 DEF Of
  <2>5. QED
    BY <2>1, <2>2, <2>3, <2>4 DEF Next, WorkerStep
<1>2. IInv /\ [Next]_vars =>
        [\A x \in Exceptions :
           /\ review[x] # 0 => Of(x)' = Of(x) /\ review'[x] = review[x]
           /\ run[x] = "COMPLETED" => run'[x] = run[x] /\ exception'[x] = exception[x]]_vars
  BY <1>1 DEF Of
<1>3. QED
  BY <1>2, Invariant, PTL DEF Spec, ReviewedIsFrozen

-----------------------------------------------------------------------------
(* The refinement: rows and ledger are a SignedDecision. *)

Signatures == [x \in Exceptions |-> {Signature(i) : i \in Of(x)}]

(* A step that changes no row and records no review is none of the record. *)
LEMMA Unseen ==
    ASSUME UNCHANGED <<decisions, run, exception, review>>
    PROVE  UNCHANGED Record!vars
BY DEF Record!vars, Signature, Of

(* The graph carries out what its manager signed, once. *)
LEMMA Executes ==
    ASSUME IInv, NEW w \in Workers, RecordReview(w)
    PROVE  Record!Next
<1> USE DEF IInv
<1>1. PICK x : x = ExceptionOf(w)
  OBVIOUS
<1>2. /\ read[w] \in DOMAIN decisions /\ HasSignoff(read[w])
      /\ review[x] = 0
      /\ run[x] \in {"PAUSED", "COMPLETED"}
  BY <1>1 DEF RecordReview, WorkersFit, WorkerFits
<1>3. x \in Exceptions /\ read[w] \in Of(x)
  BY <1>1, <1>2, StoredDecision DEF ExceptionOf, Requests, Of
<1>4. run[x] = "PAUSED"
  BY <1>2, <1>3 DEF RecordsAgree
<1>5. /\ review' = [review EXCEPT ![x] = read[w]]
      /\ UNCHANGED <<decisions, run, exception>>
  BY <1>1 DEF RecordReview, api
<1>6. /\ Signature(read[w]) \in Signatures[x]
      /\ Signature(read[w]).role = "MANAGER"
      /\ Signature(read[w]).id = read[w]
  BY <1>2, <1>3 DEF Signatures, Signature, HasSignoff
<1>7. Signatures' = Signatures
  BY <1>5 DEF Signatures, Signature, Of
<1>8. Record!Execute(x)
  BY <1>2, <1>4, <1>5, <1>6, <1>7 DEF Record!Execute, Signatures
<1>9. QED
  BY <1>3, <1>8 DEF Record!Next

(* The outcome is written once, as the executed decision says. *)
LEMMA Closes ==
    ASSUME IInv, NEW w \in Workers, Settle(w)
    PROVE  [Record!Next]_(Record!vars)
<1> USE DEF IInv
<1>1. PICK x : x = ExceptionOf(w)
  OBVIOUS
<1>2. /\ pc[w] = "settle"
      /\ exception' = [exception EXCEPT ![x] = Final(decisions[read[w]].action)]
      /\ run' = [run EXCEPT ![x] = "COMPLETED"]
      /\ UNCHANGED <<decisions, review>>
  BY <1>1 DEF Settle, api, graph
<1>3. /\ read[w] \in DOMAIN decisions
      /\ review[x] = read[w]
      /\ run[x] \in {"PAUSED", "COMPLETED"}
  BY <1>1, <1>2 DEF WorkersFit, WorkerFits
<1>4. x \in Exceptions /\ read[w] \in Of(x)
  BY <1>1, <1>3, StoredDecision DEF ExceptionOf, Requests, Of
<1>5. Signatures' = Signatures
  BY <1>2 DEF Signatures, Signature, Of
<1>6. CASE run[x] = "COMPLETED"
  <2>1. exception[x] = Final(decisions[read[w]].action)
    BY <1>3, <1>4, <1>6 DEF RecordsAgree
  <2>2. UNCHANGED <<run, exception>>
    BY <1>2, <1>4, <1>6, <2>1 DEF TypeOK
  <2>3. QED
    BY <1>2, <2>2, Unseen
<1>7. CASE run[x] = "PAUSED"
  <2>1. Signature(read[w]) \in Signatures[x]
    BY <1>4 DEF Signatures
  <2>2. /\ Signature(read[w]).id = review[x]
        /\ Signature(read[w]).action = decisions[read[w]].action
    BY <1>3 DEF Signature
  <2>3. Record!Close(x)
    BY <1>2, <1>5, <1>7, <2>1, <2>2 DEF Record!Close, Final, Signatures
  <2>4. QED
    BY <1>4, <2>3 DEF Record!Next
<1>8. QED
  BY <1>3, <1>6, <1>7

(* A stored decision is the proposal of an open exception or the signature  *)
(* of its only proposal.                                                    *)
LEMMA Signs ==
    ASSUME IInv, NEW q \in Requests, Decide(q)
    PROVE  Record!Next
<1> USE DEF IInv
<1>1. PICK n : n = Len(decisions) + 1
  OBVIOUS
<1>2. PICK x \in Exceptions : x = q.exception
  BY DEF Requests
<1>3. /\ Len(decisions)' = Len(decisions) + 1
      /\ DOMAIN decisions' = DOMAIN decisions \cup {n}
      /\ n \notin DOMAIN decisions
      /\ \A i \in DOMAIN decisions : decisions'[i] = decisions[i]
      /\ decisions'[n] = q
  <2>1. TypeOK /\ decisions' = Row(q)
    BY DEF Decide
  <2>2. /\ decisions' \in Seq(Requests)
        /\ Len(decisions) \in Nat
        /\ DOMAIN decisions = 1 .. Len(decisions)
        /\ DOMAIN decisions' = 1 .. Len(decisions) + 1
        /\ \A i \in DOMAIN decisions : decisions'[i] = decisions[i]
        /\ decisions'[Len(decisions) + 1] = q
    BY <2>1, AppendedDecision
  <2>3. QED
    BY <1>1, <2>2
<1>4. /\ run[x] = "PAUSED"
      /\ exception' = [exception EXCEPT ![x] = StatusAfter(q)]
      /\ UNCHANGED <<run, review>>
  BY <1>2 DEF Decide, Allowed, Awaiting, graph
<1>5. \A y \in Exceptions : Of(y)' = IF y = x THEN Of(y) \cup {n} ELSE Of(y)
  BY <1>2, <1>3 DEF Of
<1>6. \A i \in DOMAIN decisions : Signature(i)' = Signature(i)
  BY <1>3 DEF Signature
<1>7. Signature(n)' = Record!Decision(q.role, q.action)
  BY <1>1, <1>3 DEF Signature, Record!Decision
<1>8. Signatures' = [Signatures EXCEPT ![x] =
                        {Signature(i) : i \in Of(x)} \cup {Record!Decision(q.role, q.action)}]
  <2>1. \A y \in Exceptions : y # x => Signatures'[y] = Signatures[y]
    BY <1>5, <1>6 DEF Signatures, Of
  <2>2. Signatures'[x] =
            {Signature(i) : i \in Of(x)} \cup {Record!Decision(q.role, q.action)}
    BY <1>5, <1>6, <1>7 DEF Signatures, Of
  <2>3. QED
    BY <2>1, <2>2 DEF Signatures
<1>9. q.action \in Actions
  BY DEF Requests
<1>10. CASE ProposalAllowed(q)
  <2>1. q.role = "ANALYST" /\ Of(x) = {}
    BY <1>2, <1>10 DEF ProposalAllowed
  <2>2. /\ Signatures[x] = {}
        /\ Signatures' = [Signatures EXCEPT ![x] = {Record!Decision("ANALYST", q.action)}]
        /\ exception' = [exception EXCEPT ![x] = "IN_REVIEW"]
    BY <1>4, <1>8, <2>1 DEF Signatures, StatusAfter
  <2>3. Record!Propose(x, q.action)
    BY <1>3, <1>4, <2>2 DEF Record!Propose, Signatures
  <2>4. QED
    BY <1>9, <2>3 DEF Record!Next
<1>11. CASE SignoffAllowed(q)
  <2>1. /\ q.role = "MANAGER" /\ Of(x) = {q.proposal}
        /\ decisions[q.proposal].role = "ANALYST"
        /\ q.action = "APPROVE" => decisions[q.proposal].action = "APPROVE"
    BY <1>2, <1>11 DEF SignoffAllowed
  <2>2. PICK p : p = Signature(q.proposal)
    OBVIOUS
  <2>3. /\ p \in Signatures[x] /\ Signatures[x] = {p}
        /\ p.role = "ANALYST" /\ (q.action = "APPROVE" => p.action = "APPROVE")
        /\ Signatures' = [Signatures EXCEPT ![x] = {p, Record!Decision("MANAGER", q.action)}]
    <3>1. {Signature(i) : i \in Of(x)} = {p}
      BY <2>1, <2>2
    <3>2. p.role = "ANALYST" /\ (q.action = "APPROVE" => p.action = "APPROVE")
      BY <2>1, <2>2 DEF Signature
    <3>3. Signatures[x] = {p}
      BY <3>1 DEF Signatures
    <3>4. Signatures' = [Signatures EXCEPT ![x] = {p} \cup {Record!Decision("MANAGER", q.action)}]
      BY ONLY <1>8, <2>1, <3>1
    <3>5. {p} \cup {Record!Decision("MANAGER", q.action)} = {p, Record!Decision("MANAGER", q.action)}
      OBVIOUS
    <3>6. QED
      BY ONLY <3>2, <3>3, <3>4, <3>5
  <2>4. exception' = exception
    BY <1>2, <1>4, <2>1 DEF StatusAfter, TypeOK
  <2>5. Record!Sign(x, q.action)
    BY <1>3, <1>4, <2>3, <2>4 DEF Record!Sign, Signatures
  <2>6. QED
    BY <1>9, <2>5 DEF Record!Next
<1>12. QED
  BY <1>10, <1>11 DEF Decide, Allowed

(* Whatever is repeated, raced or left undone, each exception passes once   *)
(* through proposal, signature, execution and outcome.                      *)
THEOREM SignedDecisionImplemented == Spec => ImplementsSignedDecision
<1>1. Init => Record!Init
  <2> SUFFICES ASSUME Init
               PROVE  Record!Init
    OBVIOUS
  <2>1. Len(decisions) = 0 /\ \A x \in Exceptions : Of(x) = {}
    BY DEF Init, Of
  <2>2. QED
    BY <2>1 DEF Init, Record!Init
<1>2. IInv /\ [Next]_vars => [Record!Next]_(Record!vars)
  <2> SUFFICES ASSUME IInv, [Next]_vars
               PROVE  [Record!Next]_(Record!vars)
    OBVIOUS
  <2>1. ASSUME \/ \E q \in Requests : Replay(q)
               \/ \E w \in Workers :
                      \/ \E i \in DOMAIN decisions : Read(w, i)
                      \/ Resume(w) \/ ResumeRefused(w) \/ Archive(w) \/ Crash(w)
               \/ \E x \in Exceptions : ArchiveByRun(x)
               \/ UNCHANGED vars
        PROVE  UNCHANGED Record!vars
    <3>1. UNCHANGED <<decisions, run, exception, review>>
      BY <2>1 DEF Replay, Read, Resume, ResumeRefused, Archive, Crash, ArchiveByRun,
                  vars, api, graph
    <3>2. QED
      BY <3>1, Unseen
  <2>2. ASSUME NEW x \in Exceptions, Pause(x)
        PROVE  Record!Next
    <3>1. UNCHANGED <<decisions, exception, review>>
      BY <2>2 DEF Pause, api, graph
    <3>2. Record!Await(x)
      BY <2>2, <3>1 DEF Pause, Record!Await, Signature, Of
    <3>3. QED
      BY <3>2 DEF Record!Next
  <2>3. QED
    BY <2>1, <2>2, Signs, Executes, Closes DEF Next, WorkerStep
<1>3. QED
  BY <1>1, <1>2, Invariant, PTL DEF Spec, ImplementsSignedDecision, Record!Spec

=============================================================================
