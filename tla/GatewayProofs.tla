---------------------------- MODULE GatewayProofs ----------------------------
(***************************************************************************)
(* Proofs about Gateway, for every set of tasks, requests, runs, vectors   *)
(* and costs, every setting of the client's timeouts, attempts and delays, *)
(* every size of the cache and of the budget tracker, and any number of    *)
(* calls.                                                                  *)
(***************************************************************************)
EXTENDS Gateway, FiniteSetTheorems, SequenceTheorems, WellFoundedInduction, TLAPS

USE GatewayAssumption, CacheAssumption, BudgetAssumption

Labels == {"idle", "probe", "find", "try", "insert", "trim", "commit"}
Endings == {"none", "refused", "hit", "answer", "cancelled", "rejected", "deadline", "unavailable",
            "InvalidGatewayResponse", "TokenBudgetExceeded", "InvalidStructuredOutput"}
Namespaces == {q.namespace : q \in Requests}
CacheRows == [namespace: Namespaces, vector: Vectors, route: {0, 1}, stamp: Nat, fresh: BOOLEAN]
States == [at: Labels, request: Requests \cup {None}, left: Nat, route: {0, LastRoute}, total: Nat,
           tries: Nat, probed: Vectors \cup {None}, pending: CacheRows \cup {None},
           doomed: SUBSET CacheRows, outage: BOOLEAN, ended: Endings]

Types ==
    /\ task \in [Tasks -> States]
    /\ rows \in SUBSET CacheRows
    /\ stamps \in Nat

(* Is a call given more time than one attempt?  The defaults are 120 and 40 *)
(* seconds; the settings do not require it.                                 *)
FallbackHasTime == RequestTimeout < TotalTimeout

(* What the state of a call says of its attempts and of the time it has: if *)
(* the fallback has time, then on a route that is not the last there is     *)
(* more left than an attempt takes.                                         *)
CallFits(c) ==
    /\ c.at # "idle" => c.ended = "none"
    /\ c.at # "idle" => c.request \in Requests
    /\ c.left <= TotalTimeout /\ c.tries <= MaxAttempts
    /\ c.at # "try" => c.total = 0
    /\ c.at = "try" =>
          /\ FallbackHasTime => c.left > 0
          /\ FallbackHasTime /\ c.route < LastRoute => c.left > RequestTimeout
          /\ c.tries < MaxAttempts
          /\ c.route = 0 => c.total = c.tries
          /\ c.total <= MaxAttempts + c.tries
          /\ c.total > 0 => c.outage
    /\ FallbackHasTime /\ c.ended \in {"deadline", "unavailable"} =>
          c.route = LastRoute /\ c.tries > 0
    /\ c.at \in {"insert", "trim", "commit"} => c.probed \in Vectors /\ c.route = 0
    /\ c.at \in {"trim", "commit"} =>
          /\ c.pending \in CacheRows
          /\ c.pending.route = 0
          /\ c.pending.namespace = c.request.namespace

CallsFit == \A t \in Tasks : CallFits(task[t])

LEMMA Routes == LastRoute \in {0, 1}
BY DEF LastRoute

-----------------------------------------------------------------------------
(* The states an action leaves a call in. *)

LEMMA EndedFits ==
    ASSUME NEW how \in Endings \ {"deadline", "unavailable"}
    PROVE  Ended(how) \in States /\ CallFits(Ended(how))
<1>1. PICK n : n = Idle
  OBVIOUS
<1>2. n \in States
  BY <1>1, Routes DEF Idle, States, Labels, Endings
<1>3. n.at = "idle" /\ n.ended = "none" /\ n.left = 0 /\ n.tries = 0 /\ n.total = 0
  BY <1>1 DEF Idle
<1>4. PICK e : e = [n EXCEPT !.ended = how]
  OBVIOUS
<1>5. /\ e \in States /\ e.at = "idle" /\ e.ended = how
      /\ e.left = 0 /\ e.tries = 0 /\ e.total = 0
  BY <1>2, <1>3, <1>4 DEF States
<1>6. e = Ended(how)
  BY <1>1, <1>4 DEF Ended
<1>7. QED
  BY <1>5, <1>6 DEF CallFits

LEMMA GivesUpFits ==
    ASSUME NEW how \in {"deadline", "unavailable"}, NEW c \in States,
           c.tries <= MaxAttempts,
           FallbackHasTime => c.route = LastRoute /\ c.tries > 0
    PROVE  GivesUp(how, c) \in States /\ CallFits(GivesUp(how, c))
<1>1. PICK n : n = Ended(how)
  OBVIOUS
<1>2. n \in States /\ n.at = "idle" /\ n.ended = how /\ n.left = 0 /\ n.total = 0
  BY <1>1, Routes DEF Ended, Idle, States, Labels, Endings
<1>3. PICK e : e = [n EXCEPT !.route = c.route, !.tries = c.tries]
  OBVIOUS
<1>4. /\ e \in States /\ e.at = "idle" /\ e.ended = how
      /\ e.route = c.route /\ e.tries = c.tries /\ e.left = 0 /\ e.total = 0
  BY <1>2, <1>3 DEF States
<1>5. e = GivesUp(how, c)
  BY <1>1, <1>3 DEF GivesUp
<1>6. QED
  BY <1>4, <1>5 DEF CallFits

LEMMA TryingFits ==
    ASSUME Types, CallsFit, NEW t \in Tasks, NEW v \in Vectors \cup {None}, task[t].at # "idle"
    PROVE  Trying(t, v) \in States /\ CallFits(Trying(t, v))
<1>1. PICK q \in Requests : q = task[t].request
  BY DEF Types, States, CallsFit, CallFits
<1>2. PICK e : e = [Idle EXCEPT !.at = "try", !.request = q, !.left = TotalTimeout, !.probed = v]
  OBVIOUS
<1>3. /\ e \in States /\ e.at = "try" /\ e.request = q /\ e.left = TotalTimeout /\ e.route = 0
      /\ e.total = 0 /\ e.tries = 0 /\ e.ended = "none"
  BY <1>2, Routes DEF Idle, States, Labels, Endings
<1>4. CallFits(e)
  BY <1>3, Routes DEF CallFits, FallbackHasTime
<1>5. e = Trying(t, v)
  BY <1>1, <1>2 DEF Trying
<1>6. QED
  BY <1>3, <1>4, <1>5

LEMMA DelayIsTime ==
    ASSUME NEW n \in 1 .. MaxAttempts, NEW hint \in Hints \cup {None}
    PROVE  Delay(n, hint) \in Nat
<1>1. n - 1 \in 0 .. MaxAttempts
  OBVIOUS
<1>2. PICK b \in Nat : b = Backoff * 2 ^ (n - 1)
  BY <1>1
<1>3. QED
  BY <1>2 DEF Delay

(* After an outage a call that stays on its route has time for the attempts *)
(* there and, before the last route, for one attempt more.                  *)
LEMMA AfterOutageFits ==
    ASSUME NEW c \in States, CallFits(c), c.at = "try",
           NEW d \in Nat, d <= c.left, d <= RequestTimeout, NEW hint \in Hints \cup {None}
    PROVE  AfterOutage(c, d, hint) \in States /\ CallFits(AfterOutage(c, d, hint))
<1>1. PICK n : n = c.tries + 1
  OBVIOUS
<1>2. /\ c.left \in Nat /\ c.tries \in Nat /\ c.total \in Nat /\ n \in 1 .. MaxAttempts
      /\ c.route \in {0, LastRoute} /\ LastRoute \in {0, 1}
      /\ FallbackHasTime /\ c.route < LastRoute => c.left > RequestTimeout
      /\ c.route = 0 => c.total = c.tries
      /\ c.total <= MaxAttempts + c.tries /\ c.left <= TotalTimeout
      /\ c.at # "idle" /\ c.ended = "none" /\ c.request \in Requests
  BY <1>1, Routes DEF States, CallFits
<1>3. PICK m : m = [c EXCEPT !.total = @ + 1, !.tries = n, !.left = @ - d, !.outage = TRUE]
  OBVIOUS
<1>4. m \in States
  <2>1. c.total + 1 \in Nat /\ n \in Nat /\ c.left - d \in Nat
    BY <1>2
  <2>2. QED
    BY <1>3, <2>1 DEF States
<1>5. /\ m.at = "try" /\ m.total = c.total + 1 /\ m.tries = n /\ m.left = c.left - d
      /\ m.route = c.route /\ m.outage /\ m.ended = "none" /\ m.request \in Requests
  BY <1>2, <1>3 DEF States
<1>6. PICK delay \in Nat : delay = Delay(n, hint)
  BY <1>2, DelayIsTime
<1>7. PICK leaves \in BOOLEAN : leaves = LeavesRoute(m, n, delay, m.left)
  BY DEF LeavesRoute
<1>8. /\ n >= MaxAttempts => leaves
      /\ m.route < LastRoute /\ m.left <= RequestTimeout + delay => leaves
  BY <1>7 DEF LeavesRoute
<1>9. AfterOutage(c, d, hint) =
         IF leaves
         THEN IF m.route < LastRoute
              THEN [m EXCEPT !.route = @ + 1, !.tries = 0]
              ELSE GivesUp("unavailable", m)
         ELSE IF delay >= m.left
              THEN GivesUp("deadline", m)
              ELSE [m EXCEPT !.left = @ - delay]
  BY <1>1, <1>3, <1>6, <1>7 DEF AfterOutage
<1>10. CASE leaves /\ m.route < LastRoute
  <2>1. PICK e : e = [m EXCEPT !.route = @ + 1, !.tries = 0]
    OBVIOUS
  <2>2. m.route + 1 = LastRoute /\ (FallbackHasTime => m.left > 0)
    BY <1>2, <1>5, <1>10
  <2>3. /\ e \in States /\ e.at = "try" /\ e.route = LastRoute /\ e.tries = 0 /\ e.left = m.left
        /\ e.total = c.total + 1 /\ e.outage /\ e.ended = "none" /\ e.request \in Requests
    BY <1>4, <1>5, <2>1, <2>2 DEF States
  <2>4. e.total <= MaxAttempts /\ LastRoute = 1 /\ e.left <= TotalTimeout
    BY <1>1, <1>2, <1>5, <1>10, <2>3
  <2>5. CallFits(e)
    BY <1>4, <2>2, <2>3, <2>4 DEF CallFits
  <2>6. QED
    BY <1>9, <1>10, <2>1, <2>3, <2>5
<1>11. CASE leaves /\ ~(m.route < LastRoute)
  <2>1. m.route = LastRoute /\ m.tries > 0 /\ m.tries <= MaxAttempts
    BY <1>2, <1>5, <1>11
  <2>2. QED
    BY <1>4, <1>9, <1>11, <2>1, GivesUpFits
<1>12. CASE ~leaves /\ delay >= m.left
  <2>1. /\ FallbackHasTime => m.route = LastRoute
        /\ m.tries > 0 /\ m.tries <= MaxAttempts
    BY <1>2, <1>5, <1>8, <1>12
  <2>2. QED
    BY <1>4, <1>9, <1>12, <2>1, GivesUpFits
<1>13. CASE ~leaves /\ ~(delay >= m.left)
  <2>1. PICK e : e = [m EXCEPT !.left = @ - delay]
    OBVIOUS
  <2>2. m.left - delay \in Nat /\ m.left - delay > 0 /\ m.left \in Nat
    BY <1>2, <1>5, <1>13
  <2>3. /\ e \in States /\ e.at = "try" /\ e.route = c.route /\ e.tries = n
        /\ e.left = m.left - delay /\ e.total = c.total + 1 /\ e.outage
        /\ e.ended = "none" /\ e.request \in Requests
    BY <1>4, <1>5, <2>1, <2>2 DEF States
  <2>4. /\ FallbackHasTime /\ e.route < LastRoute => e.left > RequestTimeout
        /\ e.tries < MaxAttempts /\ e.tries <= MaxAttempts
        /\ e.route = 0 => e.total = e.tries
        /\ e.total <= MaxAttempts + e.tries
        /\ e.left <= TotalTimeout
    BY <1>1, <1>2, <1>5, <1>8, <1>13, <2>2, <2>3
  <2>5. CallFits(e)
    BY <2>2, <2>3, <2>4 DEF CallFits
  <2>6. QED
    BY <1>9, <1>13, <2>1, <2>3, <2>5
<1>14. QED
  BY <1>10, <1>11, <1>12, <1>13

-----------------------------------------------------------------------------
(* A call that comes to a state that fits. *)
LEMMA BecomesFits ==
    ASSUME Types, CallsFit, NEW t \in Tasks, NEW n \in States, CallFits(n), Becomes(t, n)
    PROVE  task' \in [Tasks -> States] /\ CallsFit'
BY DEF Types, CallsFit, Becomes

LEMMA RefusalsEnd == \A q \in Requests : Refusals(q) \subseteq Endings
BY DEF Refusals, Endings

LEMMA UpsertedTypes ==
    ASSUME NEW table \in SUBSET CacheRows, NEW r \in CacheRows
    PROVE  Upserted(table, r) \in SUBSET CacheRows
BY DEF Upserted

LEMMA WithoutTypes ==
    ASSUME NEW table \in SUBSET CacheRows, NEW doomed
    PROVE  Without(table, doomed) \in SUBSET CacheRows
BY DEF Without

(* The row a store inserts. *)
LEMMA EntryTypes ==
    ASSUME Types, CallsFit, NEW t \in Tasks, task[t].at = "insert"
    PROVE  /\ Entry(t) \in CacheRows /\ Entry(t).route = 0 /\ Entry(t).stamp = stamps
           /\ Entry(t).namespace = task[t].request.namespace
           /\ Entry(t).fresh
<1>1. PICK q \in Requests : q = task[t].request
  BY DEF Types, States, CallsFit, CallFits
<1>2. task[t].probed \in Vectors /\ task[t].route = 0 /\ stamps \in Nat
  BY DEF Types, CallsFit, CallFits
<1>3. q.namespace \in Namespaces
  BY DEF Namespaces
<1>4. QED
  BY <1>1, <1>2, <1>3 DEF Entry, CacheRows

-----------------------------------------------------------------------------
(* Every action, the types and what the state of a call says. *)

CallSpaces == Types /\ CallsFit

LEMMA BeginKeeps ==
    ASSUME CallSpaces, NEW t \in Tasks, NEW q \in Requests, Begin(t, q)
    PROVE  CallSpaces'
<1>1. PICK at \in {"probe", "try"} : at = IF q.cached THEN "probe" ELSE "try"
  OBVIOUS
<1>2. PICK left \in Nat : left = IF q.cached THEN 0 ELSE TotalTimeout
  OBVIOUS
<1>3. (at = "try" => left = TotalTimeout) /\ left <= TotalTimeout
  BY <1>1, <1>2
<1>4. PICK e : e = [Idle EXCEPT !.at = at, !.request = q, !.left = left]
  OBVIOUS
<1>5. e \in States
  BY <1>4, Routes DEF Idle, States, Labels, Endings
<1>6. /\ e.at = at /\ e.request = q /\ e.route = 0 /\ e.total = 0
      /\ e.tries = 0 /\ e.ended = "none" /\ e.left = left
  BY <1>4 DEF Idle
<1>7. CallFits(e)
  BY <1>3, <1>6, Routes DEF CallFits, FallbackHasTime
<1>8. Becomes(t, e) /\ rows' = rows /\ stamps' = stamps
  BY <1>1, <1>2, <1>4 DEF Begin
<1>9. QED
  BY <1>5, <1>7, <1>8, BecomesFits DEF CallSpaces, Types

(* Actions after which a call has ended or gone on, the rows unchanged. *)
LEMMA CallGoesOn ==
    ASSUME CallSpaces, NEW t \in Tasks, NEW n \in States, CallFits(n), Becomes(t, n),
           rows' \in SUBSET CacheRows, stamps' \in Nat
    PROVE  CallSpaces'
BY BecomesFits DEF CallSpaces, Types

LEMMA ProbeKeeps ==
    ASSUME CallSpaces, NEW t \in Tasks, Probe(t)
    PROVE  CallSpaces'
<1>1. rows' \in SUBSET CacheRows /\ stamps' \in Nat /\ task[t] \in States /\ CallFits(task[t])
  BY DEF CallSpaces, Types, CallsFit, Probe
<1>2. CASE Becomes(t, Trying(t, None))
  <2>1. Trying(t, None) \in States /\ CallFits(Trying(t, None))
    BY TryingFits DEF CallSpaces, Probe
  <2>2. QED
    BY <1>1, <1>2, <2>1, CallGoesOn
<1>3. CASE \E v \in Vectors : Becomes(t, [task[t] EXCEPT !.at = "find", !.probed = v])
  <2>1. PICK v \in Vectors : Becomes(t, [task[t] EXCEPT !.at = "find", !.probed = v])
    BY <1>3
  <2>2. PICK c \in States : c = task[t]
    BY <1>1
  <2>3. PICK e : e = [c EXCEPT !.at = "find", !.probed = v]
    OBVIOUS
  <2>4. /\ e \in States /\ e.at = "find" /\ e.request = c.request /\ e.ended = c.ended
        /\ e.left = c.left /\ e.tries = c.tries /\ e.total = c.total
    BY <2>3 DEF States, Labels
  <2>5. c.at = "probe" /\ CallFits(c)
    BY <1>1, <2>2 DEF Probe
  <2>6. CallFits(e)
    BY <2>4, <2>5 DEF CallFits
  <2>7. QED
    BY <1>1, <2>1, <2>2, <2>3, <2>4, <2>6, CallGoesOn
<1>4. QED
  BY <1>2, <1>3 DEF Probe

LEMMA EscalateKeeps ==
    ASSUME CallSpaces, NEW t \in Tasks, Escalate(t)
    PROVE  CallSpaces'
<1>1. rows' \in SUBSET CacheRows /\ stamps' \in Nat
  BY DEF CallSpaces, Types, Escalate
<1>2. task[t].request \in Requests
  BY DEF CallSpaces, CallsFit, CallFits, Escalate, Trial
<1>3. PICK how \in Endings \ {"deadline", "unavailable"} : Becomes(t, Ended(how))
  <2>1. CASE Becomes(t, Ended("rejected"))
    BY <2>1 DEF Endings
  <2>2. CASE \E how \in Refusals(task[t].request) : Becomes(t, Ended(how))
    BY <1>2, <2>2 DEF Refusals, Endings
  <2>3. QED
    BY <2>1, <2>2 DEF Escalate
<1>4. QED
  BY <1>1, <1>3, EndedFits, CallGoesOn

LEMMA AnswerKeeps ==
    ASSUME CallSpaces, NEW t \in Tasks, Answer(t)
    PROVE  CallSpaces'
<1>1. rows' \in SUBSET CacheRows /\ stamps' \in Nat /\ task[t] \in States /\ CallFits(task[t])
  BY DEF CallSpaces, Types, CallsFit, Answer
<1>2. CASE Becomes(t, Ended("answer"))
  <2>1. "answer" \in Endings \ {"deadline", "unavailable"}
    BY DEF Endings
  <2>2. QED
    BY <1>1, <1>2, <2>1, EndedFits, CallGoesOn
<1>3. CASE StoreAllowed(task[t]) /\ Becomes(t, [task[t] EXCEPT !.at = "insert", !.left = 0,
                                                               !.total = 0, !.tries = 0])
  <2>1. PICK c \in States : c = task[t]
    BY <1>1
  <2>2. PICK e : e = [c EXCEPT !.at = "insert", !.left = 0, !.total = 0, !.tries = 0]
    OBVIOUS
  <2>3. /\ e \in States /\ e.at = "insert" /\ e.request = c.request /\ e.ended = c.ended
        /\ e.left = 0 /\ e.tries = 0 /\ e.total = 0 /\ e.probed = c.probed /\ e.route = c.route
    BY <2>2 DEF States, Labels
  <2>4. c.at = "try" /\ CallFits(c) /\ c.probed \in Vectors /\ c.route = 0
    BY <1>1, <1>3, <2>1 DEF Answer, Trial, StoreAllowed, States
  <2>5. CallFits(e)
    BY <2>3, <2>4 DEF CallFits
  <2>6. QED
    BY <1>1, <1>3, <2>1, <2>2, <2>3, <2>5, CallGoesOn
<1>4. QED
  BY <1>2, <1>3 DEF Answer

LEMMA OutageKeeps ==
    ASSUME CallSpaces, NEW t \in Tasks, Outage(t)
    PROVE  CallSpaces'
<1>1. rows' \in SUBSET CacheRows /\ stamps' \in Nat
  BY DEF CallSpaces, Types, Outage
<1>2. PICK d \in AttemptTime(t), hint \in Hints \cup {None} : Becomes(t, AfterOutage(task[t], d, hint))
  BY DEF Outage
<1>3. task[t] \in States /\ CallFits(task[t]) /\ task[t].at = "try" /\ task[t].left \in Nat
  BY DEF CallSpaces, Types, CallsFit, Outage, Trial, States
<1>4. d \in Nat /\ d <= task[t].left /\ d <= RequestTimeout
  BY <1>2, <1>3 DEF AttemptTime
<1>5. /\ AfterOutage(task[t], d, hint) \in States
      /\ CallFits(AfterOutage(task[t], d, hint))
  BY <1>3, <1>4, AfterOutageFits
<1>6. QED
  BY <1>1, <1>2, <1>5, CallGoesOn

(* If the fallback has time, the deadline passes on the last route: before  *)
(* it there was more left.                                                  *)
LEMMA DeadlinePassesKeeps ==
    ASSUME CallSpaces, NEW t \in Tasks, DeadlinePasses(t)
    PROVE  CallSpaces'
<1>1. rows' \in SUBSET CacheRows /\ stamps' \in Nat
  BY DEF CallSpaces, Types, DeadlinePasses
<1>2. PICK c \in States : c = task[t]
  BY DEF CallSpaces, Types
<1>3. /\ CallFits(c) /\ c.at = "try" /\ c.left \in Nat /\ c.left <= RequestTimeout
      /\ c.route \in {0, LastRoute} /\ c.tries \in Nat
  BY <1>2 DEF CallSpaces, CallsFit, DeadlinePasses, States
<1>4. PICK n \in Nat : n = IF Trial(t) THEN c.tries + 1 ELSE c.tries
  BY <1>3
<1>5. /\ FallbackHasTime => c.route = LastRoute /\ c.left > 0
      /\ c.tries < MaxAttempts
  BY <1>3, Routes DEF CallFits
<1>6. PICK m : m = [c EXCEPT !.tries = n]
  OBVIOUS
<1>7. /\ m \in States /\ m.route = c.route /\ m.tries = n /\ n <= MaxAttempts
      /\ FallbackHasTime => m.route = LastRoute /\ m.tries > 0
  <2>1. FallbackHasTime => n = c.tries + 1
    BY <1>2, <1>3, <1>4, <1>5 DEF Trial
  <2>2. QED
    BY <1>3, <1>4, <1>5, <1>6, <2>1 DEF States
<1>8. GivesUp("deadline", m) \in States /\ CallFits(GivesUp("deadline", m))
  BY <1>7, GivesUpFits
<1>9. Becomes(t, GivesUp("deadline", m))
  BY <1>2, <1>4, <1>6 DEF DeadlinePasses
<1>10. QED
  BY <1>1, <1>8, <1>9, CallGoesOn

LEMMA InsertKeeps ==
    ASSUME CallSpaces, NEW t \in Tasks, Insert(t)
    PROVE  CallSpaces'
<1>1. rows' \in SUBSET CacheRows /\ stamps' \in Nat
  BY DEF CallSpaces, Types, Insert
<1>2. PICK c \in States : c = task[t]
  BY DEF CallSpaces, Types
<1>3. PICK r \in CacheRows : r = Entry(t)
  BY EntryTypes DEF CallSpaces, Insert
<1>4. r.route = 0 /\ r.namespace = c.request.namespace
  BY <1>2, <1>3, EntryTypes DEF CallSpaces, Insert
<1>5. PICK e : e = [c EXCEPT !.at = "trim", !.pending = r]
  OBVIOUS
<1>6. /\ e \in States /\ e.at = "trim" /\ e.pending = r /\ e.request = c.request
      /\ e.ended = c.ended /\ e.left = c.left /\ e.tries = c.tries /\ e.total = c.total
      /\ e.probed = c.probed /\ e.route = c.route
  BY <1>5 DEF States, Labels
<1>7. CallFits(c) /\ c.at = "insert"
  BY <1>2 DEF CallSpaces, CallsFit, Insert
<1>8. CallFits(e)
  BY <1>4, <1>6, <1>7 DEF CallFits
<1>9. Becomes(t, e)
  BY <1>2, <1>3, <1>5 DEF Insert
<1>10. QED
  BY <1>1, <1>6, <1>8, <1>9, CallGoesOn

LEMMA TrimKeeps ==
    ASSUME CallSpaces, NEW t \in Tasks, Trim(t)
    PROVE  CallSpaces'
<1>1. rows' \in SUBSET CacheRows /\ stamps' \in Nat
  BY DEF CallSpaces, Types, Trim
<1>2. PICK c \in States : c = task[t]
  BY DEF CallSpaces, Types
<1>3. CallFits(c) /\ c.at = "trim" /\ c.pending \in CacheRows
  BY <1>2 DEF CallSpaces, CallsFit, CallFits, Trim
<1>4. PICK seen \in SUBSET CacheRows : seen = Upserted(rows, c.pending)
  BY <1>3, UpsertedTypes DEF CallSpaces, Types
<1>5. PICK doomed \in SUBSET CacheRows : doomed = seen \ Trimmed(seen, c.request.namespace)
  BY <1>4
<1>6. PICK e : e = [c EXCEPT !.at = "commit", !.doomed = doomed]
  OBVIOUS
<1>7. /\ e \in States /\ e.at = "commit" /\ e.pending = c.pending /\ e.request = c.request
      /\ e.ended = c.ended /\ e.left = c.left /\ e.tries = c.tries /\ e.total = c.total
      /\ e.probed = c.probed /\ e.route = c.route
  BY <1>6 DEF States, Labels
<1>8. CallFits(e)
  BY <1>3, <1>7 DEF CallFits
<1>9. Becomes(t, e)
  BY <1>2, <1>4, <1>5, <1>6 DEF Trim
<1>10. QED
  BY <1>1, <1>7, <1>8, <1>9, CallGoesOn

LEMMA CommitKeeps ==
    ASSUME CallSpaces, NEW t \in Tasks, Commit(t)
    PROVE  CallSpaces'
<1>1. task[t].pending \in CacheRows /\ rows \in SUBSET CacheRows /\ stamps' \in Nat
  BY DEF CallSpaces, Types, CallsFit, CallFits, Commit
<1>2. rows' \in SUBSET CacheRows
  BY <1>1, UpsertedTypes, WithoutTypes DEF Commit
<1>3. "answer" \in Endings \ {"deadline", "unavailable"} /\ Becomes(t, Ended("answer"))
  BY DEF Endings, Commit
<1>4. QED
  BY <1>1, <1>2, <1>3, EndedFits, CallGoesOn

LEMMA ExpireKeeps ==
    ASSUME CallSpaces, NEW r \in rows, Expire(r)
    PROVE  CallSpaces'
<1>1. r \in CacheRows
  BY DEF CallSpaces, Types
<1>2. [r EXCEPT !.fresh = FALSE] \in CacheRows
  BY <1>1 DEF CacheRows
<1>3. rows' \in SUBSET CacheRows /\ task' = task /\ stamps' = stamps
  BY <1>2 DEF Expire, CallSpaces, Types
<1>4. QED
  BY <1>3 DEF CallSpaces, Types, CallsFit

(* Actions that end the call, or begin its attempts, and touch no row. *)
LEMMA EndingsKeep ==
    ASSUME CallSpaces, NEW t \in Tasks,
           Refuse(t) \/ Hit(t) \/ Miss(t) \/ StoreFails(t) \/ Cancel(t)
    PROVE  CallSpaces'
<1>1. rows' \in SUBSET CacheRows /\ stamps' \in Nat
  BY DEF CallSpaces, Types, Refuse, Hit, Miss, StoreFails, Cancel
<1>2. CASE Refuse(t) \/ Hit(t) \/ StoreFails(t) \/ Cancel(t)
  <2>1. PICK how \in Endings \ {"deadline", "unavailable"} : Becomes(t, Ended(how))
    <3>1. {"refused", "hit", "answer", "cancelled"} \subseteq Endings \ {"deadline", "unavailable"}
      BY DEF Endings
    <3>2. QED
      BY <1>2, <3>1 DEF Refuse, Hit, StoreFails, Cancel
  <2>2. QED
    BY <1>1, <2>1, EndedFits, CallGoesOn
<1>3. CASE Miss(t)
  <2>1. task[t].at = "find" /\ task[t].probed \in Vectors \cup {None}
    BY <1>3 DEF Miss, CallSpaces, Types, States
  <2>2. PICK v \in Vectors \cup {None} : Becomes(t, Trying(t, v))
    BY <1>3, <2>1 DEF Miss
  <2>3. Trying(t, v) \in States /\ CallFits(Trying(t, v))
    BY <2>1, TryingFits DEF CallSpaces
  <2>4. QED
    BY <1>1, <2>2, <2>3, CallGoesOn
<1>4. QED
  BY <1>2, <1>3

LEMMA CallsKeep == CallSpaces /\ [Next]_vars => CallSpaces'
<1> SUFFICES ASSUME CallSpaces, [Next]_vars
             PROVE  CallSpaces'
  OBVIOUS
<1>1. CASE UNCHANGED vars
  BY <1>1 DEF vars, CallSpaces, Types, CallsFit
<1>2. ASSUME NEW r \in rows, Expire(r)
      PROVE  CallSpaces'
  BY <1>2, ExpireKeeps
<1>3. ASSUME NEW t \in Tasks, NEW q \in Requests, Complete(t, q) \/ Embed(t, q)
      PROVE  CallSpaces'
  BY <1>3, BeginKeeps DEF Complete, Embed
<1>4. ASSUME NEW t \in Tasks, Step(t) \/ Cancel(t)
      PROVE  CallSpaces'
  BY <1>4, EndingsKeep, ProbeKeeps, OutageKeeps, DeadlinePassesKeeps, EscalateKeeps, AnswerKeeps,
     InsertKeeps, TrimKeeps, CommitKeeps DEF Step
<1>5. QED
  BY <1>1, <1>2, <1>3, <1>4 DEF Next

LEMMA CallsStart == Init => CallSpaces
<1> SUFFICES ASSUME Init
             PROVE  CallSpaces
  OBVIOUS
<1>1. PICK n : n = Idle
  OBVIOUS
<1>2. n \in States
  BY <1>1, Routes DEF Idle, States, Labels, Endings
<1>3. n.at = "idle" /\ n.ended = "none" /\ n.left = 0 /\ n.tries = 0 /\ n.total = 0
  BY <1>1 DEF Idle
<1>4. CallFits(n)
  BY <1>3 DEF CallFits
<1>5. QED
  BY <1>1, <1>2, <1>4 DEF Init, CallSpaces, Types, CallsFit

-----------------------------------------------------------------------------
(* For every setting of the client, what is attempted again was an outage  *)
(* and its route allows the attempt: no answer that was refused locally,   *)
(* and no refusal by the gateway, is retried or taken to the fallback.     *)
THEOREM OutagesAreRetried == Spec => []OnlyOutagesAreRetried
<1>1. CallSpaces => OnlyOutagesAreRetried
  <2> SUFFICES ASSUME CallSpaces, NEW t \in Tasks, task[t].at = "try", task[t].total > 0
               PROVE  task[t].outage /\ task[t].total < (LastRoute + 1) * MaxAttempts
    BY DEF OnlyOutagesAreRetried
  <2>1. PICK total \in Nat : total = task[t].total
    BY DEF CallSpaces, Types, States
  <2>2. PICK tries \in Nat : tries = task[t].tries
    BY DEF CallSpaces, Types, States
  <2>3. /\ task[t].outage /\ task[t].route \in {0, LastRoute} /\ tries < MaxAttempts
        /\ task[t].route = 0 => total = tries
        /\ total <= MaxAttempts + tries
    BY <2>1, <2>2 DEF CallSpaces, Types, CallsFit, CallFits, States
  <2>4. CASE LastRoute = 0
    BY <2>1, <2>3, <2>4
  <2>5. CASE LastRoute = 1
    <3>1. (LastRoute + 1) * MaxAttempts = MaxAttempts + MaxAttempts
      BY <2>5
    <3>2. QED
      BY <2>1, <2>3, <3>1
  <2>6. QED
    BY <2>4, <2>5, Routes
<1>2. QED
  BY <1>1, CallsStart, CallsKeep, PTL DEF Spec

(* For every delay and Retry-After hint, a call that gives up for lack of   *)
(* time or of attempts has attempted its last route, if the client's        *)
(* deadline is longer than one attempt.                                     *)
THEOREM FallbackAlwaysTried ==
    ASSUME FallbackHasTime
    PROVE  Spec => []FallbackIsTried
<1>1. CallSpaces => FallbackIsTried
  BY DEF CallSpaces, CallsFit, CallFits, FallbackIsTried
<1>2. QED
  BY <1>1, CallsStart, CallsKeep, PTL DEF Spec

-----------------------------------------------------------------------------
(* The tracker: its order names every tracked run once, and a tracked run   *)
(* has alerted when its total has reached the threshold.                    *)

Trackers == [order : Seq(Runs), total : UNION {[S -> Nat] : S \in SUBSET Runs},
             alerted : SUBSET Runs]

OnceIn(order) == \A i, j \in 1 .. Len(order) : order[i] = order[j] => i = j
Listed(order) == {order[i] : i \in 1 .. Len(order)}

TrackerFits(b) ==
    /\ b \in Trackers
    /\ OnceIn(b.order)
    /\ Listed(b.order) = Tracked(b)
    /\ \A r \in Runs : r \in b.alerted <=> r \in Tracked(b) /\ b.total[r] >= Threshold

BudgetFits == TrackerFits(tracker) /\ alerts \in [Runs -> Nat] /\ OneAlertPerRun

(* Billing moves the run to the end of the order, or appends it. *)
LEMMA BilledFits ==
    ASSUME NEW order \in Seq(Runs), OnceIn(order), NEW run \in Runs
    PROVE  /\ Billed(order, run) \in Seq(Runs)
           /\ OnceIn(Billed(order, run))
           /\ Listed(Billed(order, run)) = Listed(order) \cup {run}
           /\ Len(Billed(order, run)) > 0
           /\ Billed(order, run)[Len(Billed(order, run))] = run
<1>1. PICK n \in Nat : n = Len(order)
  OBVIOUS
<1>2. CASE \E i \in DOMAIN order : order[i] = run
  <2>1. PICK i \in 1 .. n : i = (CHOOSE j \in DOMAIN order : order[j] = run) /\ order[i] = run
    BY <1>1, <1>2
  <2>2. PICK left : left = SubSeq(order, 1, i - 1)
    OBVIOUS
  <2>3. left \in Seq(Runs) /\ Len(left) = i - 1 /\ \A k \in 1 .. i - 1 : left[k] = order[k]
    BY <1>1, <2>1, <2>2
  <2>4. PICK right : right = SubSeq(order, i + 1, n)
    OBVIOUS
  <2>5. right \in Seq(Runs) /\ Len(right) = n - i /\ \A k \in 1 .. n - i : right[k] = order[i + k]
    BY <1>1, <2>1, <2>4, SMTT(20)
  <2>6. PICK others : others = left \o right
    OBVIOUS
  <2>7. /\ others \in Seq(Runs) /\ Len(others) = n - 1
        /\ \A k \in 1 .. n - 1 : others[k] = IF k <= i - 1 THEN left[k] ELSE right[k - (i - 1)]
    <3>1. Len(left) + Len(right) = n - 1
      BY <2>1, <2>3, <2>5
    <3>2. QED
      BY <2>3, <2>5, <2>6, <3>1, ConcatProperties
  <2>8. ASSUME NEW k \in 1 .. n - 1
        PROVE  others[k] = IF k < i THEN order[k] ELSE order[k + 1]
    <3>1. CASE k < i
      BY <2>1, <2>3, <2>7, <3>1
    <3>2. CASE ~(k < i)
      <4>1. k - (i - 1) \in 1 .. n - i /\ i + (k - (i - 1)) = k + 1 /\ ~(k <= i - 1)
        BY <3>2
      <4>2. others[k] = right[k - (i - 1)]
        BY <2>7, <4>1
      <4>3. right[k - (i - 1)] = order[i + (k - (i - 1))]
        BY <2>5, <4>1
      <4>4. QED
        BY <3>2, <4>1, <4>2, <4>3
    <3>3. QED
      BY <3>1, <3>2
  <2>9. PICK b : b = Append(others, run)
    OBVIOUS
  <2>10. /\ b \in Seq(Runs) /\ Len(b) = n /\ b[n] = run
         /\ \A k \in 1 .. n - 1 : b[k] = others[k]
    <3>1. b \in Seq(Runs) /\ Len(b) = n
      BY <2>1, <2>7, <2>9
    <3>2. b[n] = run
      BY <2>1, <2>7, <2>9
    <3>3. \A k \in 1 .. n - 1 : b[k] = others[k]
      BY <2>1, <2>7, <2>9
    <3>4. QED
      BY <3>1, <3>2, <3>3
  <2>11. b = Billed(order, run)
    BY <1>1, <1>2, <2>1, <2>2, <2>4, <2>6, <2>9 DEF Billed
  <2>12. PICK place : place = [k \in 1 .. n |-> IF k = n THEN i ELSE IF k < i THEN k ELSE k + 1]
    OBVIOUS
  <2>13. \A k \in 1 .. n : place[k] \in 1 .. n
    BY <2>1, <2>12
  <2>14. \A k, l \in 1 .. n : place[k] = place[l] => k = l
    BY <2>1, <2>12
  <2>15. \A k \in 1 .. n : b[k] = order[place[k]]
    BY <2>1, <2>8, <2>10, <2>12
  <2>16. \A j \in 1 .. n : \E k \in 1 .. n : place[k] = j
    <3>1. TAKE j \in 1 .. n
    <3>2. CASE j < i
      <4>1. place[j] = j
        BY <2>12, <3>2
      <4>2. QED
        BY <4>1
    <3>3. CASE j = i
      <4>1. n \in 1 .. n /\ place[n] = i
        BY <2>12
      <4>2. QED
        BY <3>3, <4>1
    <3>4. CASE j > i
      <4>1. j - 1 \in 1 .. n /\ j - 1 # n /\ ~(j - 1 < i) /\ (j - 1) + 1 = j
        BY <3>4
      <4>2. place[j - 1] = j
        BY <2>12, <4>1
      <4>3. QED
        BY <4>1, <4>2
    <3>5. QED
      BY <3>2, <3>3, <3>4
  <2>17. OnceIn(b)
    <3>1. ASSUME NEW k \in 1 .. n, NEW l \in 1 .. n, b[k] = b[l]
          PROVE  k = l
      <4>1. order[place[k]] = order[place[l]]
        BY <2>15, <3>1
      <4>2. place[k] \in 1 .. n /\ place[l] \in 1 .. n
        BY <2>13
      <4>3. place[k] = place[l]
        BY <1>1, <4>1, <4>2 DEF OnceIn
      <4>4. QED
        BY <2>14, <4>3
    <3>2. QED
      BY <2>10, <3>1 DEF OnceIn
  <2>18. Listed(b) = Listed(order) \cup {run}
    <3>1. \A k \in 1 .. n : \E j \in 1 .. n : b[k] = order[j]
      BY <2>13, <2>15
    <3>2. \A j \in 1 .. n : \E k \in 1 .. n : order[j] = b[k]
      <4>1. TAKE j \in 1 .. n
      <4>2. PICK k \in 1 .. n : place[k] = j
        BY <2>16
      <4>3. b[k] = order[j]
        BY <2>15, <4>2
      <4>4. QED
        BY ONLY <4>3, k \in 1 .. n
    <3>3. order[i] = run
      BY <2>1
    <3>4. Listed(b) = {b[k] : k \in 1 .. n}
      BY <2>10 DEF Listed
    <3>5. Listed(order) = {order[k] : k \in 1 .. n}
      BY <1>1 DEF Listed
    <3>6. Listed(b) = Listed(order)
      <4>1. Listed(b) \subseteq Listed(order)
        BY <3>1, <3>4, <3>5
      <4>2. Listed(order) \subseteq Listed(b)
        BY <3>2, <3>4, <3>5
      <4>3. QED
        BY <4>1, <4>2
    <3>7. run \in Listed(order)
      BY <3>3, <3>5
    <3>8. QED
      BY <3>6, <3>7
  <2>19. QED
    BY <2>1, <2>10, <2>11, <2>17, <2>18
<1>3. CASE ~ \E i \in DOMAIN order : order[i] = run
  <2>1. PICK b : b = Append(order, run)
    OBVIOUS
  <2>2. /\ b \in Seq(Runs) /\ Len(b) = n + 1 /\ b[n + 1] = run
        /\ \A k \in 1 .. n : b[k] = order[k]
    BY <1>1, <2>1
  <2>3. b = Billed(order, run)
    BY <1>3, <2>1 DEF Billed
  <2>4. \A k \in 1 .. n : order[k] # run
    BY <1>1, <1>3
  <2>5. OnceIn(b)
    BY <1>1, <2>2, <2>4 DEF OnceIn
  <2>6. Listed(b) = Listed(order) \cup {run}
    BY <1>1, <2>2 DEF Listed
  <2>7. QED
    BY <1>1, <2>2, <2>3, <2>5, <2>6
<1>4. QED
  BY <1>2, <1>3

(* What a response leaves in the tracker, before any alert. *)
LEMMA ChargedFits ==
    ASSUME NEW b, TrackerFits(b), NEW run \in Runs, NEW cost \in Nat
    PROVE  LET c == Charged(b, run, cost)
           IN  /\ c \in Trackers
               /\ OnceIn(c.order) /\ Listed(c.order) = Tracked(c)
               /\ run \in Tracked(c) /\ c.total[run] = TotalOf(b, run) + cost
               /\ \A r \in Tracked(c) \ {run} : r \in Tracked(b) /\ c.total[r] = b.total[r]
               /\ c.alerted = b.alerted \cap Tracked(c)
<1>1. PICK order : order = Billed(b.order, run)
  OBVIOUS
<1>2. b \in Trackers /\ b.order \in Seq(Runs) /\ OnceIn(b.order) /\ Listed(b.order) = Tracked(b)
  BY DEF TrackerFits, Trackers
<1>3. /\ order \in Seq(Runs) /\ OnceIn(order) /\ Listed(order) = Listed(b.order) \cup {run}
      /\ Len(order) > 0 /\ order[Len(order)] = run
  BY <1>1, <1>2, BilledFits
<1>4. b.alerted \in SUBSET Runs /\ b.alerted \subseteq Tracked(b)
  BY DEF TrackerFits, Trackers
<1>5. Tracked(b) \in SUBSET Runs /\ \A r \in Tracked(b) : b.total[r] \in Nat
  BY <1>2 DEF Trackers, Tracked
<1>6. TotalOf(b, run) + cost \in Nat
  <2>1. TotalOf(b, run) \in Nat
    BY <1>5 DEF TotalOf
  <2>2. QED
    BY <2>1
<1>7. PICK due \in Nat : due = TotalOf(b, run) + cost
  BY <1>6
<1>8. PICK total : total = [r \in Tracked(b) \cup {run} |-> IF r = run THEN due ELSE b.total[r]]
  OBVIOUS
<1>9. /\ DOMAIN total = Tracked(b) \cup {run} /\ DOMAIN total \in SUBSET Runs
      /\ total \in [DOMAIN total -> Nat] /\ total[run] = due
      /\ \A r \in DOMAIN total \ {run} : r \in Tracked(b) /\ total[r] = b.total[r]
  BY <1>5, <1>7, <1>8
<1>10. PICK mid : mid = [b EXCEPT !.order = order, !.total = total]
  OBVIOUS
<1>11. /\ mid \in Trackers /\ mid.order = order /\ mid.total = total /\ mid.alerted = b.alerted
  <2>1. total \in UNION {[S -> Nat] : S \in SUBSET Runs}
    BY <1>9
  <2>2. QED
    BY <1>2, <1>3, <1>10, <2>1 DEF Trackers
<1>12. Charged(b, run, cost) = Evicted(mid)
  BY <1>1, <1>7, <1>8, <1>10 DEF Charged, Tracked
<1>13. CASE Len(order) <= MaxRuns
  <2>1. Charged(b, run, cost) = mid
    BY <1>11, <1>12, <1>13 DEF Evicted
  <2>2. Tracked(mid) = DOMAIN total
    BY <1>11 DEF Tracked
  <2>3. mid.alerted = b.alerted \cap Tracked(mid)
    BY <1>4, <1>9, <1>11, <2>2
  <2>4. QED
    BY <1>2, <1>3, <1>7, <1>9, <1>11, <2>1, <2>2, <2>3
<1>14. CASE Len(order) > MaxRuns
  <2>1. PICK n \in Nat : n = Len(order)
    BY <1>3
  <2>2. n > 1
    BY <1>14, <2>1
  <2>3. PICK first : first = Head(order)
    OBVIOUS
  <2>4. first = order[1] /\ first \in Runs
    BY <1>3, <2>1, <2>2, <2>3
  <2>5. first # run
    BY <1>3, <2>1, <2>2, <2>4 DEF OnceIn
  <2>6. PICK rest : rest = Tail(order)
    OBVIOUS
  <2>7. rest \in Seq(Runs) /\ Len(rest) = n - 1 /\ \A i \in 1 .. n - 1 : rest[i] = order[i + 1]
    BY <1>3, <2>1, <2>2, <2>6, HeadTailProperties
  <2>8. OnceIn(rest)
    <3>1. SUFFICES ASSUME NEW i \in 1 .. n - 1, NEW j \in 1 .. n - 1, rest[i] = rest[j]
                   PROVE  i = j
      BY <2>7 DEF OnceIn
    <3>2. i + 1 \in 1 .. n /\ j + 1 \in 1 .. n /\ order[i + 1] = order[j + 1]
      BY <2>7, <3>1
    <3>3. QED
      BY <1>3, <2>1, <3>2 DEF OnceIn
  <2>9. Listed(rest) = Listed(order) \ {first}
    <3>1. Listed(rest) = {rest[i] : i \in 1 .. n - 1} /\ Listed(order) = {order[i] : i \in 1 .. n}
      BY <2>1, <2>7 DEF Listed
    <3>2. ASSUME NEW i \in 1 .. n - 1
          PROVE  rest[i] \in Listed(order) \ {first}
      <4>1. i + 1 \in 1 .. n /\ i + 1 # 1 /\ 1 \in 1 .. n
        BY <2>2
      <4>2. order[i + 1] # order[1]
        BY <1>3, <2>1, <4>1 DEF OnceIn
      <4>3. QED
        BY <2>4, <2>7, <3>1, <4>1, <4>2
    <3>3. ASSUME NEW i \in 1 .. n, order[i] # first
          PROVE  order[i] \in Listed(rest)
      <4>1. i - 1 \in 1 .. n - 1 /\ (i - 1) + 1 = i
        BY <2>4, <3>3
      <4>2. rest[i - 1] = order[i]
        BY <2>7, <4>1
      <4>3. QED
        BY <3>1, <4>1, <4>2
    <3>4. QED
      BY <3>1, <3>2, <3>3
  <2>10. PICK kept : kept = [r \in Tracked(mid) \ {first} |-> total[r]]
    OBVIOUS
  <2>11. /\ DOMAIN kept = DOMAIN total \ {first} /\ DOMAIN kept \in SUBSET Runs
         /\ kept \in [DOMAIN kept -> Nat]
         /\ \A r \in DOMAIN kept : r \in DOMAIN total /\ kept[r] = total[r]
    BY <1>9, <1>11, <2>10 DEF Tracked
  <2>12. PICK c : c = [order |-> rest, total |-> kept, alerted |-> b.alerted \ {first}]
    OBVIOUS
  <2>13. c = Charged(b, run, cost)
    BY <1>11, <1>12, <1>14, <2>1, <2>2, <2>3, <2>6, <2>10, <2>12 DEF Evicted, Tracked
  <2>14. c \in Trackers /\ c.order = rest /\ Tracked(c) = DOMAIN kept /\ c.total = kept
         /\ c.alerted = b.alerted \ {first}
    <3>1. c.order = rest /\ c.total = kept /\ c.alerted = b.alerted \ {first}
      BY ONLY <2>12
    <3>2. kept \in UNION {[S -> Nat] : S \in SUBSET Runs}
      BY ONLY <2>11
    <3>3. b.alerted \ {first} \in SUBSET Runs
      BY <1>4
    <3>4. c \in Trackers
      BY ONLY <2>7, <2>12, <3>2, <3>3 DEF Trackers
    <3>5. QED
      BY ONLY <3>1, <3>4 DEF Tracked
  <2>15. Listed(rest) = DOMAIN kept
    BY <1>2, <1>3, <1>9, <2>9, <2>11
  <2>16. run \in DOMAIN kept /\ kept[run] = due
    BY <1>9, <2>5, <2>11
  <2>17. \A r \in DOMAIN kept \ {run} : r \in Tracked(b) /\ kept[r] = b.total[r]
    BY <1>9, <2>11
  <2>18. c.alerted = b.alerted \cap DOMAIN kept
    BY <1>4, <1>9, <2>11, <2>14
  <2>19. QED
    BY <1>7, <2>8, <2>13, <2>14, <2>15, <2>16, <2>17, <2>18
<1>15. QED
  BY <1>3, <1>13, <1>14

(* One response, with the alerts it leaves. *)
LEMMA ChargeKeeps ==
    ASSUME BudgetFits, NEW t \in Tasks, task[t].request \in Requests,
           NEW cost \in Costs \cup {None}, Charge(t, cost)
    PROVE  BudgetFits'
<1>1. CASE cost = None
  BY <1>1 DEF Charge, BudgetFits, TrackerFits, OneAlertPerRun, Tracked
<1>2. CASE cost # None
  <2>1. cost \in Nat
    BY <1>2
  <2>2. PICK run \in Runs : run = task[t].request.run
    OBVIOUS
  <2>3. PICK b : b = tracker
    OBVIOUS
  <2>4. TrackerFits(b) /\ b \in Trackers /\ b.alerted \in SUBSET Runs
    BY <2>3 DEF BudgetFits, TrackerFits, Trackers
  <2>5. PICK c : c = Charged(b, run, cost)
    OBVIOUS
  <2>6. /\ c \in Trackers /\ OnceIn(c.order) /\ Listed(c.order) = Tracked(c)
        /\ run \in Tracked(c) /\ c.total[run] = TotalOf(b, run) + cost
        /\ \A r \in Tracked(c) \ {run} : r \in Tracked(b) /\ c.total[r] = b.total[r]
        /\ c.alerted = b.alerted \cap Tracked(c)
    BY <2>1, <2>4, <2>5, ChargedFits
  <2>7. PICK due \in BOOLEAN : due = (c.total[run] >= Threshold /\ run \notin c.alerted)
    OBVIOUS
  <2>8. Alerts(b, run, cost) = due
    BY <2>5, <2>7 DEF Alerts
  <2>9. PICK d : d = IF due THEN [c EXCEPT !.alerted = @ \cup {run}] ELSE c
    OBVIOUS
  <2>10. /\ d \in Trackers /\ d.order = c.order /\ d.total = c.total /\ Tracked(d) = Tracked(c)
         /\ d.alerted = IF due THEN c.alerted \cup {run} ELSE c.alerted
    BY <2>6, <2>9 DEF Trackers, Tracked
  <2>11. tracker' = d
    BY <1>2, <2>2, <2>3, <2>5, <2>8, <2>9 DEF Charge, Observed
  <2>12. \A r \in Tracked(c) : c.total[r] \in Nat
    BY <2>6 DEF Trackers, Tracked
  <2>13. \A r \in Runs : r \in b.alerted <=> r \in Tracked(b) /\ b.total[r] >= Threshold
    BY <2>4 DEF TrackerFits
  <2>14. run \in b.alerted => c.total[run] >= Threshold
    <3>1. SUFFICES ASSUME run \in b.alerted
                   PROVE  c.total[run] >= Threshold
      OBVIOUS
    <3>2. run \in Tracked(b) /\ b.total[run] >= Threshold /\ b.total[run] \in Nat
      BY <2>4, <2>13, <3>1 DEF Trackers, Tracked
    <3>3. c.total[run] = b.total[run] + cost
      BY <2>6, <3>2 DEF TotalOf
    <3>4. QED
      BY <2>1, <3>2, <3>3
  <2>15. \A r \in Runs : r \in d.alerted <=> r \in Tracked(d) /\ d.total[r] >= Threshold
    <3>1. TAKE r \in Runs
    <3>2. CASE r = run
      BY <2>6, <2>7, <2>10, <2>14, <3>2
    <3>3. CASE r # run
      BY <2>6, <2>10, <2>13, <3>3
    <3>4. QED
      BY <3>2, <3>3
  <2>16. TrackerFits(d)
    BY <2>6, <2>10, <2>15 DEF TrackerFits
  <2>17. alerts' = [r \in Runs |-> IF r \notin Tracked(d) THEN 0
                                   ELSE IF r = run /\ due THEN alerts[r] + 1
                                   ELSE alerts[r]]
    BY <1>2, <2>2, <2>3, <2>8, <2>11 DEF Charge
  <2>18. /\ alerts \in [Runs -> Nat]
         /\ \A r \in Runs : alerts[r] = IF r \in b.alerted THEN 1 ELSE 0
    BY <2>3, <2>13 DEF BudgetFits, OneAlertPerRun
  <2>19. \A r \in Runs : alerts'[r] = IF r \in d.alerted THEN 1 ELSE 0
    <3>1. TAKE r \in Runs
    <3>2. CASE r \notin Tracked(d)
      BY <2>15, <2>17, <3>2
    <3>3. CASE r \in Tracked(d) /\ r = run /\ due
      <4>1. r \notin b.alerted /\ r \in d.alerted
        BY <2>6, <2>7, <2>10, <3>3
      <4>2. QED
        BY <2>17, <2>18, <3>3, <4>1
    <3>4. CASE r \in Tracked(d) /\ ~(r = run /\ due)
      <4>1. r \in d.alerted <=> r \in b.alerted
        BY <2>6, <2>10, <3>4
      <4>2. QED
        BY <2>17, <2>18, <3>4, <4>1
    <3>5. QED
      BY <3>2, <3>3, <3>4
  <2>20. alerts' \in [Runs -> Nat]
    BY <2>17, <2>18
  <2>21. QED
    BY <2>11, <2>15, <2>16, <2>19, <2>20
       DEF BudgetFits, TrackerFits, OneAlertPerRun, Tracked
<1>3. QED
  BY <1>1, <1>2

LEMMA BudgetKeeps == CallSpaces /\ BudgetFits /\ [Next]_vars => BudgetFits'
<1> SUFFICES ASSUME CallSpaces, BudgetFits, [Next]_vars
             PROVE  BudgetFits'
  OBVIOUS
<1>1. CASE UNCHANGED <<tracker, alerts>>
  BY <1>1 DEF BudgetFits, TrackerFits, OneAlertPerRun, Tracked
<1>2. CASE \E t \in Tasks, cost \in Costs \cup {None} : task[t].at # "idle" /\ Charge(t, cost)
  <2>1. PICK t \in Tasks, cost \in Costs \cup {None} : task[t].at # "idle" /\ Charge(t, cost)
    BY <1>2
  <2>2. task[t].request \in Requests
    BY <2>1 DEF CallSpaces, CallsFit, CallFits
  <2>3. QED
    BY <2>1, <2>2, ChargeKeeps
<1>3. ASSUME NEW t \in Tasks, Step(t) \/ Cancel(t)
      PROVE  BudgetFits'
  BY <1>1, <1>2, <1>3 DEF Step, Cancel, Refuse, Probe, Hit, Miss, Outage, DeadlinePasses, Escalate,
     Answer, Insert, Trim, Commit, StoreFails, Trial
<1>4. ASSUME NEW t \in Tasks, NEW q \in Requests, Complete(t, q) \/ Embed(t, q)
      PROVE  BudgetFits'
  BY <1>1, <1>4 DEF Complete, Embed, Begin
<1>5. ASSUME NEW r \in rows, Expire(r)
      PROVE  BudgetFits'
  BY <1>1, <1>5 DEF Expire
<1>6. CASE UNCHANGED vars
  BY <1>1, <1>6 DEF vars
<1>7. QED
  BY <1>3, <1>4, <1>5, <1>6 DEF Next

LEMMA BudgetStarts == Init => BudgetFits
<1> SUFFICES ASSUME Init
             PROVE  BudgetFits
  OBVIOUS
<1>1. PICK b : b = NewTracker
  OBVIOUS
<1>2. /\ b.order = <<>> /\ Tracked(b) = {} /\ b.alerted = {} /\ b \in Trackers
  <2>1. PICK total : total = [r \in {} |-> 0]
    OBVIOUS
  <2>2. total \in [{} -> Nat] /\ {} \in SUBSET Runs
    BY <2>1
  <2>3. total \in UNION {[S -> Nat] : S \in SUBSET Runs}
    BY <2>2
  <2>4. b = [order |-> <<>>, total |-> total, alerted |-> {}]
    BY <1>1, <2>1 DEF NewTracker
  <2>5. DOMAIN total = {}
    BY <2>1
  <2>6. b.order = <<>> /\ b.total = total /\ b.alerted = {}
    BY <2>4
  <2>7. <<>> \in Seq(Runs)
    BY EmptySeq
  <2>8. b \in Trackers
    BY <2>3, <2>4, <2>7 DEF Trackers
  <2>9. QED
    BY <2>5, <2>6, <2>8 DEF Tracked
<1>3. TrackerFits(b)
  BY <1>2 DEF TrackerFits, OnceIn, Listed
<1>4. QED
  BY <1>1, <1>2, <1>3 DEF Init, BudgetFits, OneAlertPerRun

(* For every threshold, every cost and every size of the tracker: one alert *)
(* for each run it remembers whose observed total has reached the threshold. *)
THEOREM AlertsAreCounted == Spec => []OneAlertPerRun
<1>1. BudgetFits => OneAlertPerRun
  BY DEF BudgetFits
<1>2. QED
  BY <1>1, BudgetStarts, BudgetKeeps, CallsStart, CallsKeep, PTL DEF Spec

(* The states of calls and of the tracker have the stated types. *)
THEOREM TypeCorrect == Spec => []TypeOK
<1>1. CallSpaces /\ BudgetFits => TypeOK
  <2> SUFFICES ASSUME CallSpaces, BudgetFits
               PROVE  TypeOK
    OBVIOUS
  <2>1. Tracked(tracker) \subseteq Runs
    BY DEF BudgetFits, TrackerFits, Trackers, Tracked
  <2>2. ASSUME NEW t \in Tasks
        PROVE  task[t].total \in 0 .. (LastRoute + 1) * MaxAttempts
    <3>1. task[t].total \in Nat /\ task[t].tries \in Nat /\ CallFits(task[t])
          /\ task[t].route \in {0, LastRoute}
      BY DEF CallSpaces, CallsFit, Types, States
    <3>2. CASE LastRoute = 0
      BY <3>1, <3>2 DEF CallFits
    <3>3. CASE LastRoute = 1
      <4>1. (LastRoute + 1) * MaxAttempts = MaxAttempts + MaxAttempts
        BY <3>3
      <4>2. QED
        BY <3>1, <4>1 DEF CallFits
    <3>4. QED
      BY <3>2, <3>3, Routes
  <2>3. ASSUME NEW t \in Tasks
        PROVE  /\ DOMAIN task[t] = DOMAIN Idle
               /\ task[t].at \in {"idle", "probe", "find", "try", "insert", "trim", "commit"}
               /\ task[t].request \in Requests \cup {None}
               /\ task[t].left \in 0 .. TotalTimeout
               /\ task[t].route \in 0 .. LastRoute
               /\ task[t].tries \in 0 .. MaxAttempts
               /\ task[t].probed \in Vectors \cup {None}
    <3>1. PICK c \in States : c = task[t]
      BY DEF CallSpaces, Types
    <3>2. CallFits(c)
      BY <3>1 DEF CallSpaces, CallsFit
    <3>3. DOMAIN c = DOMAIN Idle
      BY DEF States, Idle
    <3>4. QED
      BY <3>1, <3>2, <3>3, Routes DEF States, Labels, CallFits
  <2>4. QED
    BY <2>1, <2>2, <2>3 DEF TypeOK
<1>2. QED
  BY <1>1, BudgetStarts, BudgetKeeps, CallsStart, CallsKeep, PTL DEF Spec

-----------------------------------------------------------------------------
(* The size of a namespace. *)

LEMMA Subset ==
    ASSUME NEW S, IsFiniteSet(S), NEW T, T \subseteq S
    PROVE  IsFiniteSet(T) /\ Cardinality(T) \in Nat /\ Cardinality(T) <= Cardinality(S)
BY FS_Subset, FS_CardinalityType

LEMMA OneMore ==
    ASSUME NEW S, IsFiniteSet(S), NEW x, NEW T, T \subseteq S \cup {x}
    PROVE  IsFiniteSet(T) /\ Cardinality(T) \in Nat /\ Cardinality(T) <= Cardinality(S) + 1
<1>1. IsFiniteSet(S \cup {x}) /\ Cardinality(S \cup {x}) <= Cardinality(S) + 1
      /\ Cardinality(S) \in Nat /\ Cardinality(S \cup {x}) \in Nat
  <2>1. Cardinality(S) \in Nat
    BY FS_CardinalityType
  <2>2. /\ IsFiniteSet(S \cup {x})
        /\ Cardinality(S \cup {x}) = IF x \in S THEN Cardinality(S) ELSE Cardinality(S) + 1
    BY FS_AddElement
  <2>3. Cardinality(S \cup {x}) \in Nat
    BY <2>2, FS_CardinalityType
  <2>4. QED
    BY <2>1, <2>2, <2>3
<1>2. IsFiniteSet(T) /\ Cardinality(T) \in Nat /\ Cardinality(T) <= Cardinality(S \cup {x})
  BY <1>1, Subset
<1>3. QED
  BY <1>1, <1>2

LEMMA Least ==
    ASSUME NEW S \in SUBSET Nat, S # {}
    PROVE  \E x \in S : \A y \in S : x <= y
<1>1. PICK below : below = {p \in Nat \X Nat : p[1] < p[2]}
  OBVIOUS
<1>2. IsWellFoundedOn(below, Nat)
  BY <1>1, NatLessThanWellFounded DEF OpToRel
<1>3. PICK x \in S : \A y \in S : ~ (<<y, x>> \in below)
  BY <1>2, WFMin
<1>4. ASSUME NEW y \in S
      PROVE  x <= y
  <2>1. <<y, x>> \notin below /\ y \in Nat /\ x \in Nat
    BY <1>3
  <2>2. ~ (y < x)
    BY <1>1, <2>1
  <2>3. QED
    BY <2>1, <2>2
<1>5. QED
  BY <1>4

KeysAreUnique(table) == \A r, s \in table : SameKey(r, s) => r = s

In(table, namespace) == {r \in table : r.namespace = namespace}

(* The rows a store leaves of its namespace are no more than MaxEntries: all *)
(* the others are newer than the oldest of them.                            *)
LEMMA TrimmedIsBounded ==
    ASSUME NEW table \in SUBSET CacheRows, IsFiniteSet(table), KeysAreUnique(table),
           NEW namespace
    PROVE  Cardinality(In(Trimmed(table, namespace), namespace)) <= MaxEntries
<1>1. PICK live : live = {r \in table : r.fresh}
  OBVIOUS
<1>2. PICK left : left = In(Trimmed(table, namespace), namespace)
  OBVIOUS
<1>3. /\ left \subseteq live /\ left \subseteq table /\ live \subseteq table
      /\ \A r \in left : r.namespace = namespace /\ Cardinality(NewerThan(live, r)) < MaxEntries
  BY <1>1, <1>2 DEF In, Trimmed
<1>4. \A r \in left : r.stamp \in Nat /\ r.vector \in Nat
  BY <1>3 DEF CacheRows
<1>5. CASE left = {}
  BY <1>2, <1>5, FS_EmptySet
<1>6. CASE left # {}
  <2>1. PICK s \in {r.stamp : r \in left} : \A y \in {r.stamp : r \in left} : s <= y
    <3>1. {r.stamp : r \in left} \in SUBSET Nat /\ {r.stamp : r \in left} # {}
      BY <1>4, <1>6
    <3>2. QED
      BY <3>1, Least
  <2>2. PICK old : old = {r \in left : r.stamp = s}
    OBVIOUS
  <2>3. PICK v \in {r.vector : r \in old} : \A y \in {r.vector : r \in old} : v <= y
    <3>1. {r.vector : r \in old} \in SUBSET Nat /\ {r.vector : r \in old} # {}
      BY <1>4, <2>1, <2>2
    <3>2. QED
      BY <3>1, Least
  <2>4. PICK oldest \in old : oldest.vector = v
    BY <2>3
  <2>5. oldest \in left /\ oldest.stamp = s
    BY <2>2, <2>4
  <2>6. ASSUME NEW r \in left, r # oldest
        PROVE  r \in NewerThan(live, oldest)
    <3>1. r.namespace = oldest.namespace /\ r \in live
      BY <1>3, <2>5
    <3>2. CASE r.stamp = s
      <4>1. v <= r.vector
        BY <2>2, <2>3, <3>2
      <4>2. r.vector # v
        BY <1>3, <2>4, <2>5, <2>6, <3>1 DEF KeysAreUnique, SameKey
      <4>3. r.vector > oldest.vector
        BY <1>4, <2>4, <2>5, <4>1, <4>2
      <4>4. QED
        BY <2>5, <3>1, <3>2, <4>3 DEF NewerThan
    <3>3. CASE r.stamp # s
      <4>1. s <= r.stamp
        BY <2>1
      <4>2. r.stamp > oldest.stamp
        BY <1>4, <2>5, <3>3, <4>1
      <4>3. QED
        BY <3>1, <4>2 DEF NewerThan
    <3>4. QED
      BY <3>2, <3>3
  <2>7. left \subseteq NewerThan(live, oldest) \cup {oldest}
    BY <2>6
  <2>8. IsFiniteSet(NewerThan(live, oldest))
    <3>1. NewerThan(live, oldest) \subseteq table
      BY <1>3 DEF NewerThan
    <3>2. QED
      BY <3>1, Subset
  <2>9. Cardinality(NewerThan(live, oldest)) < MaxEntries
    BY <1>3, <2>5
  <2>10. PICK n \in Nat : n = Cardinality(NewerThan(live, oldest))
    BY <2>8, FS_CardinalityType
  <2>11. Cardinality(left) \in Nat /\ Cardinality(left) <= n + 1
    BY <2>7, <2>8, <2>10, OneMore
  <2>12. n + 1 <= MaxEntries
    BY <2>9, <2>10
  <2>13. QED
    BY <1>2, <2>11, <2>12
<1>7. QED
  BY <1>5, <1>6

LEMMA Swapped ==
    ASSUME NEW S, IsFiniteSet(S), NEW x \in S, NEW y, NEW T, T \subseteq (S \ {x}) \cup {y}
    PROVE  IsFiniteSet(T) /\ Cardinality(T) \in Nat /\ Cardinality(T) <= Cardinality(S)
<1>1. Cardinality(S) \in Nat
  BY FS_CardinalityType
<1>2. IsFiniteSet(S \ {x}) /\ Cardinality(S \ {x}) = Cardinality(S) - 1
  BY FS_RemoveElement
<1>3. /\ IsFiniteSet(T) /\ Cardinality(T) \in Nat
      /\ Cardinality(T) <= Cardinality(S \ {x}) + 1
  BY <1>2, OneMore
<1>4. QED
  BY <1>1, <1>2, <1>3

(* What a committed store of call c would leave of its namespace.           *)
After(table, c) == In(Without(Upserted(table, c.pending), c.doomed), c.pending.namespace)

LEMMA UpsertedKeys ==
    ASSUME NEW table, IsFiniteSet(table), KeysAreUnique(table), NEW r
    PROVE  IsFiniteSet(Upserted(table, r)) /\ KeysAreUnique(Upserted(table, r))
<1>1. Upserted(table, r) \subseteq table \cup {r}
  BY DEF Upserted
<1>2. IsFiniteSet(Upserted(table, r))
  BY <1>1, OneMore
<1>3. KeysAreUnique(Upserted(table, r))
  BY DEF KeysAreUnique, Upserted, SameKey
<1>4. QED
  BY <1>2, <1>3

LEMMA AfterIsFinite ==
    ASSUME NEW table, IsFiniteSet(table), NEW c
    PROVE  IsFiniteSet(After(table, c)) /\ Cardinality(After(table, c)) \in Nat
<1>1. After(table, c) \subseteq table \cup {c.pending}
  BY DEF After, In, Without, Upserted
<1>2. QED
  BY <1>1, OneMore

(* A row of another namespace changes nothing. *)
LEMMA AfterElsewhere ==
    ASSUME NEW old, NEW new, NEW x, new \subseteq old \cup {x}, NEW c,
           x.namespace # c.pending.namespace
    PROVE  After(new, c) \subseteq After(old, c)
BY DEF After, In, Without, Upserted

LEMMA AfterAdds ==
    ASSUME NEW table, NEW c
    PROVE  After(table, c) \subseteq In(table, c.pending.namespace) \cup {c.pending}
BY DEF After, In, Without, Upserted

(* A store that is about to trim leaves its namespace within its bound.     *)
LEMMA AfterTrim ==
    ASSUME NEW table \in SUBSET CacheRows, IsFiniteSet(table), KeysAreUnique(table),
           NEW c, c.pending \in CacheRows, NEW seen, seen = Upserted(table, c.pending),
           c.doomed = seen \ Trimmed(seen, c.pending.namespace)
    PROVE  Cardinality(After(table, c)) <= MaxEntries
<1>1. seen \in SUBSET CacheRows /\ IsFiniteSet(seen) /\ KeysAreUnique(seen)
  BY UpsertedTypes, UpsertedKeys
<1>2. PICK left : left = In(Trimmed(seen, c.pending.namespace), c.pending.namespace)
  OBVIOUS
<1>3. Cardinality(left) <= MaxEntries
  BY <1>1, <1>2, TrimmedIsBounded
<1>4. IsFiniteSet(left)
  <2>1. left \subseteq seen
    BY <1>2 DEF In, Trimmed
  <2>2. QED
    BY <1>1, <2>1, Subset
<1>5. After(table, c) \subseteq left
  <2>1. ASSUME NEW r \in After(table, c)
        PROVE  r \in left
    <3>1. /\ r \in seen /\ r.namespace = c.pending.namespace
          /\ \A d \in c.doomed : SameKey(d, r) => ~d.fresh /\ r.fresh
      BY <2>1 DEF After, In, Without
    <3>2. SameKey(r, r)
      BY DEF SameKey
    <3>3. r \notin c.doomed
      BY <3>1, <3>2
    <3>4. QED
      BY <1>2, <3>1, <3>3 DEF In
  <2>2. QED
    BY <2>1
<1>6. Cardinality(After(table, c)) \in Nat /\ Cardinality(After(table, c)) <= Cardinality(left)
  BY <1>4, <1>5, Subset
<1>7. Cardinality(left) \in Nat
  BY <1>4, FS_CardinalityType
<1>8. QED
  BY <1>3, <1>6, <1>7

-----------------------------------------------------------------------------
(* The invariant of the cache.  The open stores have looked at the table in *)
(* some order f; a store finds room for every store that looked before it   *)
(* and may still add a row behind its back.  One that looked later counts   *)
(* what is there by then, the other's row apart.                            *)

Most == MaxEntries + Cardinality(Tasks) - 1

Older(tasks, f, t) == {u \in Tasks : tasks[u].at = "commit" /\ f[u] < f[t]}

InTurn(tasks, table, f, k) ==
    /\ \A t \in Tasks : f[t] < k
    /\ \A t, u \in Tasks :
          tasks[t].at = "commit" /\ tasks[u].at = "commit" /\ f[t] = f[u] => t = u
    /\ \A t \in Tasks : tasks[t].at = "commit" =>
          Cardinality(After(table, tasks[t])) + Cardinality(Older(tasks, f, t)) <= Most

TableFits(table) ==
    /\ IsFiniteSet(table)
    /\ KeysAreUnique(table)
    /\ \A r \in table : r.route = 0
    /\ \A namespace : Cardinality(In(table, namespace)) <= Most

CacheFits(tasks, table) ==
    /\ TableFits(table)
    /\ \E f \in [Tasks -> Nat], k \in Nat : InTurn(tasks, table, f, k)

LEMMA SomeTasks == Cardinality(Tasks) \in Nat /\ Most \in Int
BY FS_CardinalityType DEF Most

LEMMA OlderIsFinite ==
    ASSUME NEW tasks, NEW f, NEW t
    PROVE  /\ IsFiniteSet(Older(tasks, f, t)) /\ Cardinality(Older(tasks, f, t)) \in Nat
BY Subset DEF Older

(* Nothing happens to the table, and no store comes to look at it. *)
LEMMA QuietStep ==
    ASSUME NEW old, NEW new, NEW table, CacheFits(old, table),
           \A u \in Tasks : new[u].at = "commit" => new[u] = old[u]
    PROVE  CacheFits(new, table)
<1>1. PICK f \in [Tasks -> Nat], k \in Nat : InTurn(old, table, f, k)
  BY DEF CacheFits
<1>2. ASSUME NEW t \in Tasks, new[t].at = "commit"
      PROVE  Cardinality(After(table, new[t])) + Cardinality(Older(new, f, t)) <= Most
  <2>1. new[t] = old[t] /\ old[t].at = "commit"
    BY <1>2
  <2>2. Cardinality(After(table, old[t])) + Cardinality(Older(old, f, t)) <= Most
    BY <1>1, <2>1 DEF InTurn
  <2>3. Older(new, f, t) \subseteq Older(old, f, t)
    BY DEF Older
  <2>4. /\ Cardinality(Older(new, f, t)) <= Cardinality(Older(old, f, t))
        /\ Cardinality(Older(new, f, t)) \in Nat /\ Cardinality(Older(old, f, t)) \in Nat
    BY <2>3, OlderIsFinite, Subset
  <2>5. Cardinality(After(table, old[t])) \in Nat
    BY AfterIsFinite DEF CacheFits, TableFits
  <2>6. QED
    BY <2>1, <2>2, <2>4, <2>5, SomeTasks
<1>3. InTurn(new, table, f, k)
  BY <1>1, <1>2 DEF InTurn
<1>4. QED
  BY <1>3 DEF CacheFits

(* A store looks at the table: it is the last of those that are open. *)
LEMMA TrimStep ==
    ASSUME NEW old, NEW new, NEW table \in SUBSET CacheRows, CacheFits(old, table),
           NEW t \in Tasks, \A u \in Tasks : u # t => new[u] = old[u],
           new[t].pending \in CacheRows,
           NEW seen, seen = Upserted(table, new[t].pending),
           new[t].doomed = seen \ Trimmed(seen, new[t].pending.namespace)
    PROVE  CacheFits(new, table)
<1>1. PICK f \in [Tasks -> Nat], k \in Nat : InTurn(old, table, f, k)
  BY DEF CacheFits
<1>2. PICK g : g = [f EXCEPT ![t] = k]
  OBVIOUS
<1>3. g \in [Tasks -> Nat] /\ g[t] = k /\ \A u \in Tasks : u # t => g[u] = f[u] /\ f[u] < k
  BY <1>1, <1>2 DEF InTurn
<1>4. IsFiniteSet(table) /\ KeysAreUnique(table)
  BY DEF CacheFits, TableFits
<1>5. ASSUME NEW u \in Tasks, new[u].at = "commit"
      PROVE  Cardinality(After(table, new[u])) + Cardinality(Older(new, g, u)) <= Most
  <2>1. CASE u = t
    <3>1. Cardinality(After(table, new[u])) <= MaxEntries
      BY <1>4, <2>1, AfterTrim
    <3>2. Older(new, g, u) \subseteq Tasks \ {t}
      BY <1>3, <2>1 DEF Older
    <3>3. IsFiniteSet(Tasks \ {t}) /\ Cardinality(Tasks \ {t}) = Cardinality(Tasks) - 1
      BY FS_RemoveElement
    <3>4. /\ Cardinality(Older(new, g, u)) \in Nat
          /\ Cardinality(Older(new, g, u)) <= Cardinality(Tasks) - 1
      BY <3>2, <3>3, Subset
    <3>5. Cardinality(After(table, new[u])) \in Nat
      BY <1>4, AfterIsFinite
    <3>6. QED
      BY <3>1, <3>4, <3>5, SomeTasks DEF Most
  <2>2. CASE u # t
    <3>1. new[u] = old[u] /\ g[u] = f[u] /\ f[u] \in Nat
      BY <1>3, <2>2
    <3>2. Cardinality(After(table, old[u])) + Cardinality(Older(old, f, u)) <= Most
      BY <1>1, <1>5, <3>1 DEF InTurn
    <3>3. Older(new, g, u) \subseteq Older(old, f, u)
      <4>1. ASSUME NEW w \in Tasks, new[w].at = "commit", g[w] < g[u]
            PROVE  old[w].at = "commit" /\ f[w] < f[u]
        <5>1. w # t
          BY <1>3, <2>2, <3>1, <4>1
        <5>2. QED
          BY <1>3, <3>1, <4>1, <5>1
      <4>2. QED
        BY <4>1 DEF Older
    <3>4. /\ Cardinality(Older(new, g, u)) <= Cardinality(Older(old, f, u))
          /\ Cardinality(Older(new, g, u)) \in Nat /\ Cardinality(Older(old, f, u)) \in Nat
      BY <3>3, OlderIsFinite, Subset
    <3>5. Cardinality(After(table, old[u])) \in Nat
      BY <1>4, AfterIsFinite
    <3>6. QED
      BY <3>1, <3>2, <3>4, <3>5, SomeTasks
  <2>3. QED
    BY <2>1, <2>2
<1>6. ASSUME NEW u \in Tasks, NEW w \in Tasks, new[u].at = "commit", new[w].at = "commit",
             g[u] = g[w]
      PROVE  u = w
  <2>1. CASE u = t \/ w = t
    BY <1>3, <1>6, <2>1
  <2>2. CASE u # t /\ w # t
    BY <1>1, <1>3, <1>6, <2>2 DEF InTurn
  <2>3. QED
    BY <2>1, <2>2
<1>7. \A u \in Tasks : g[u] < k + 1
  BY <1>3
<1>8. InTurn(new, table, g, k + 1) /\ k + 1 \in Nat
  BY <1>5, <1>6, <1>7 DEF InTurn
<1>9. QED
  BY <1>3, <1>8 DEF CacheFits

(* A store commits.  Each of the others that looked before it finds at most *)
(* what it left and its own row; each that looked later finds one row more  *)
(* and one store fewer to leave room for.                                   *)
LEMMA CommitStep ==
    ASSUME NEW old, NEW new, NEW table, CacheFits(old, table),
           NEW t \in Tasks, old[t].at = "commit", new[t].at # "commit",
           \A u \in Tasks : u # t => new[u] = old[u],
           old[t].pending.route = 0,
           NEW left, left = Without(Upserted(table, old[t].pending), old[t].doomed)
    PROVE  CacheFits(new, left)
<1>1. PICK f \in [Tasks -> Nat], k \in Nat : InTurn(old, table, f, k)
  BY DEF CacheFits
<1>2. PICK p : p = old[t].pending
  OBVIOUS
<1>3. left \subseteq Upserted(table, p) /\ left \subseteq table \cup {p}
  BY <1>2 DEF Without, Upserted
<1>4. TableFits(table) /\ IsFiniteSet(table) /\ KeysAreUnique(table)
  BY DEF CacheFits, TableFits
<1>5. In(left, p.namespace) = After(table, old[t])
  BY <1>2 DEF After
<1>6. /\ Cardinality(After(table, old[t])) + Cardinality(Older(old, f, t)) <= Most
      /\ IsFiniteSet(After(table, old[t])) /\ Cardinality(After(table, old[t])) \in Nat
      /\ Cardinality(Older(old, f, t)) \in Nat
  BY <1>1, <1>4, AfterIsFinite, OlderIsFinite DEF InTurn
<1>7. TableFits(left)
  <2>1. IsFiniteSet(left)
    <3>1. left \subseteq table \cup {p} /\ IsFiniteSet(table)
      BY <1>3, <1>4
    <3>2. QED
      BY ONLY <3>1, OneMore
  <2>2. KeysAreUnique(left)
    BY <1>3, <1>4, UpsertedKeys DEF KeysAreUnique
  <2>3. \A r \in left : r.route = 0
    BY <1>2, <1>3, <1>4 DEF TableFits
  <2>4. ASSUME NEW namespace
        PROVE  Cardinality(In(left, namespace)) <= Most
    <3>1. CASE namespace = p.namespace
      BY <1>5, <1>6, <3>1, SomeTasks
    <3>2. CASE namespace # p.namespace
      <4>1. In(left, namespace) \subseteq In(table, namespace)
        BY <1>3, <3>2 DEF In
      <4>2. IsFiniteSet(In(table, namespace)) /\ Cardinality(In(table, namespace)) \in Nat
        BY <1>4, Subset DEF In
      <4>3. /\ Cardinality(In(left, namespace)) \in Nat
            /\ Cardinality(In(left, namespace)) <= Cardinality(In(table, namespace))
        BY <4>1, <4>2, Subset
      <4>4. Cardinality(In(table, namespace)) <= Most
        BY <1>4 DEF TableFits
      <4>5. QED
        BY <4>2, <4>3, <4>4, SomeTasks
    <3>3. QED
      BY <3>1, <3>2
  <2>5. QED
    BY <2>1, <2>2, <2>3, <2>4 DEF TableFits
<1>8. ASSUME NEW u \in Tasks, new[u].at = "commit"
      PROVE  Cardinality(After(left, new[u])) + Cardinality(Older(new, f, u)) <= Most
  <2>1. u # t /\ new[u] = old[u] /\ old[u].at = "commit"
    BY <1>8
  <2>2. /\ Cardinality(After(table, old[u])) + Cardinality(Older(old, f, u)) <= Most
        /\ IsFiniteSet(After(table, old[u])) /\ Cardinality(After(table, old[u])) \in Nat
        /\ IsFiniteSet(Older(old, f, u)) /\ Cardinality(Older(old, f, u)) \in Nat
    BY <1>1, <1>4, <2>1, AfterIsFinite, OlderIsFinite DEF InTurn
  <2>3. Older(new, f, u) \subseteq Older(old, f, u) \ {t}
    BY DEF Older
  <2>4. /\ Cardinality(Older(new, f, u)) \in Nat
        /\ Cardinality(Older(new, f, u)) <= Cardinality(Older(old, f, u))
    BY <2>2, <2>3, Subset
  <2>5. CASE p.namespace # old[u].pending.namespace
    <3>1. After(left, old[u]) \subseteq After(table, old[u])
      BY <1>3, <2>5, AfterElsewhere
    <3>2. /\ Cardinality(After(left, old[u])) \in Nat
          /\ Cardinality(After(left, old[u])) <= Cardinality(After(table, old[u]))
      BY <2>2, <3>1, Subset
    <3>3. QED
      BY <2>1, <2>2, <2>4, <3>2, SomeTasks
  <2>6. CASE f[t] < f[u]
    <3>1. After(left, old[u]) \subseteq After(table, old[u]) \cup {p}
      <4>1. left \subseteq table \cup {p}
        BY <1>3
      <4>2. QED
        BY <4>1 DEF After, In, Without, Upserted
    <3>2. /\ Cardinality(After(left, old[u])) \in Nat
          /\ Cardinality(After(left, old[u])) <= Cardinality(After(table, old[u])) + 1
      BY <2>2, <3>1, OneMore
    <3>3. t \in Older(old, f, u)
      BY <2>6 DEF Older
    <3>4. /\ IsFiniteSet(Older(old, f, u) \ {t})
          /\ Cardinality(Older(old, f, u) \ {t}) = Cardinality(Older(old, f, u)) - 1
      BY <2>2, <3>3, FS_RemoveElement
    <3>5. Cardinality(Older(new, f, u)) <= Cardinality(Older(old, f, u)) - 1
      BY <2>3, <3>4, Subset
    <3>6. QED
      BY <2>1, <2>2, <2>4, <3>2, <3>5, SomeTasks
  <2>7. CASE f[u] < f[t] /\ p.namespace = old[u].pending.namespace
    <3>1. After(left, old[u]) \subseteq After(table, old[t]) \cup {old[u].pending}
      BY <1>5, <2>7, AfterAdds
    <3>2. /\ Cardinality(After(left, old[u])) \in Nat
          /\ Cardinality(After(left, old[u])) <= Cardinality(After(table, old[t])) + 1
      BY <1>6, <3>1, OneMore
    <3>3. /\ IsFiniteSet(Older(old, f, u) \cup {u})
          /\ Cardinality(Older(old, f, u) \cup {u}) = Cardinality(Older(old, f, u)) + 1
      <4>1. u \notin Older(old, f, u)
        BY DEF Older
      <4>2. QED
        BY <2>2, <4>1, FS_AddElement
    <3>4. Older(old, f, u) \cup {u} \subseteq Older(old, f, t)
      BY <2>1, <2>7 DEF Older
    <3>5. Cardinality(Older(old, f, u)) + 1 <= Cardinality(Older(old, f, t))
      BY <3>3, <3>4, OlderIsFinite, Subset
    <3>6. QED
      BY <1>6, <2>1, <2>2, <2>4, <3>2, <3>5, SomeTasks
  <2>8. f[t] # f[u]
    BY <1>1, <2>1 DEF InTurn
  <2>9. f[t] < f[u] \/ f[u] < f[t]
    BY <2>8
  <2>10. QED
    BY <2>5, <2>6, <2>7, <2>9
<1>9. InTurn(new, left, f, k)
  BY <1>1, <1>8 DEF InTurn
<1>10. QED
  BY <1>7, <1>9 DEF CacheFits

(* A row expires: it is the same row to every store, or none. *)
LEMMA ExpireStep ==
    ASSUME NEW tasks, NEW table, CacheFits(tasks, table), NEW r \in table, r \in CacheRows, r.fresh,
           NEW e, e = [r EXCEPT !.fresh = FALSE],
           NEW left, left = (table \ {r}) \cup {e}
    PROVE  CacheFits(tasks, left)
<1>1. PICK f \in [Tasks -> Nat], k \in Nat : InTurn(tasks, table, f, k)
  BY DEF CacheFits
<1>2. /\ e.namespace = r.namespace /\ e.vector = r.vector /\ e.route = r.route /\ ~e.fresh
  BY DEF CacheRows
<1>3. \A x : (SameKey(x, e) <=> SameKey(x, r)) /\ (SameKey(e, x) <=> SameKey(r, x))
  BY <1>2 DEF SameKey
<1>4. IsFiniteSet(table) /\ KeysAreUnique(table) /\ \A x \in table : x.route = 0
  BY DEF CacheFits, TableFits
<1>5. TableFits(left)
  <2>1. IsFiniteSet(left)
    BY <1>4, Swapped
  <2>2. KeysAreUnique(left)
    <3>1. SUFFICES ASSUME NEW x \in left, NEW y \in left, SameKey(x, y)
                   PROVE  x = y
      BY DEF KeysAreUnique
    <3>2. CASE x \in table /\ y \in table
      BY <1>4, <3>1, <3>2 DEF KeysAreUnique
    <3>3. CASE x = e /\ y \in table
      BY <1>3, <1>4, <3>1, <3>3 DEF KeysAreUnique
    <3>4. CASE x \in table /\ y = e
      BY <1>3, <1>4, <3>1, <3>4 DEF KeysAreUnique
    <3>5. CASE x = e /\ y = e
      BY <3>5
    <3>6. QED
      BY <3>2, <3>3, <3>4, <3>5
  <2>3. \A x \in left : x.route = 0
    BY <1>2, <1>4
  <2>4. ASSUME NEW namespace
        PROVE  Cardinality(In(left, namespace)) <= Most
    <3>1. IsFiniteSet(In(table, namespace)) /\ Cardinality(In(table, namespace)) \in Nat
      BY <1>4, Subset DEF In
    <3>2. Cardinality(In(table, namespace)) <= Most
      BY DEF CacheFits, TableFits
    <3>3. CASE r.namespace = namespace
      <4>1. r \in In(table, namespace) /\ In(left, namespace) \subseteq (In(table, namespace) \ {r}) \cup {e}
        BY <3>3 DEF In
      <4>2. /\ Cardinality(In(left, namespace)) \in Nat
            /\ Cardinality(In(left, namespace)) <= Cardinality(In(table, namespace))
        BY <3>1, <4>1, Swapped
      <4>3. QED
        BY <3>1, <3>2, <4>2, SomeTasks
    <3>4. CASE r.namespace # namespace
      <4>1. In(left, namespace) \subseteq In(table, namespace)
        BY <1>2, <3>4 DEF In
      <4>2. /\ Cardinality(In(left, namespace)) \in Nat
            /\ Cardinality(In(left, namespace)) <= Cardinality(In(table, namespace))
        BY <3>1, <4>1, Subset
      <4>3. QED
        BY <3>1, <3>2, <4>2, SomeTasks
    <3>5. QED
      BY <3>3, <3>4
  <2>5. QED
    BY <2>1, <2>2, <2>3, <2>4 DEF TableFits
<1>6. ASSUME NEW c
      PROVE  Cardinality(After(left, c)) <= Cardinality(After(table, c))
  <2>1. IsFiniteSet(After(table, c))
    BY <1>4, AfterIsFinite
  <2>2. \A x \in After(left, c) : x = e \/ x \in After(table, c)
    BY DEF After, In, Without, Upserted
  <2>3. CASE e \notin After(left, c)
    BY <2>1, <2>2, <2>3, Subset
  <2>4. CASE e \in After(left, c) /\ e = c.pending
    <3>1. e \in After(table, c)
      BY <2>4 DEF After, In, Without, Upserted
    <3>2. After(left, c) \subseteq After(table, c)
      BY <2>2, <3>1
    <3>3. QED
      BY <2>1, <3>2, Subset
  <2>5. CASE e \in After(left, c) /\ e # c.pending
    <3>1. ~SameKey(e, c.pending) /\ \A d \in c.doomed : ~SameKey(d, e)
      BY <1>2, <2>5 DEF After, In, Without, Upserted
    <3>2. e.namespace = c.pending.namespace
      BY <2>5 DEF After, In
    <3>3. ~SameKey(r, c.pending) /\ \A d \in c.doomed : ~SameKey(d, r)
      BY <1>3, <3>1
    <3>4. r \in After(table, c)
      BY <1>2, <3>2, <3>3 DEF After, In, Without, Upserted
    <3>5. r # e /\ r # c.pending
      BY <1>2, <3>3 DEF SameKey
    <3>6. r \notin After(left, c)
      BY <3>5 DEF After, In, Without, Upserted
    <3>7. After(left, c) \subseteq (After(table, c) \ {r}) \cup {e}
      BY <2>2, <3>6
    <3>8. QED
      BY <2>1, <3>4, <3>7, Swapped
  <2>6. QED
    BY <2>3, <2>4, <2>5
<1>7. ASSUME NEW t \in Tasks, tasks[t].at = "commit"
      PROVE  Cardinality(After(left, tasks[t])) + Cardinality(Older(tasks, f, t)) <= Most
  <2>1. Cardinality(After(table, tasks[t])) + Cardinality(Older(tasks, f, t)) <= Most
    BY <1>1, <1>7 DEF InTurn
  <2>2. /\ Cardinality(After(left, tasks[t])) \in Nat /\ Cardinality(After(table, tasks[t])) \in Nat
        /\ Cardinality(Older(tasks, f, t)) \in Nat
    BY <1>4, <1>5, AfterIsFinite, OlderIsFinite DEF TableFits
  <2>3. Cardinality(After(left, tasks[t])) <= Cardinality(After(table, tasks[t]))
    BY <1>6
  <2>4. QED
    BY <2>1, <2>2, <2>3, SomeTasks
<1>8. InTurn(tasks, left, f, k)
  BY <1>1, <1>7 DEF InTurn
<1>9. QED
  BY <1>5, <1>8 DEF CacheFits

CacheInv == CallSpaces /\ CacheFits(task, rows)

LEMMA CacheStarts == Init => CacheInv
<1> SUFFICES ASSUME Init
             PROVE  CacheInv
  OBVIOUS
<1>1. CallSpaces
  BY CallsStart
<1>2. rows = {} /\ \A t \in Tasks : task[t].at = "idle"
  BY DEF Init, Idle
<1>3. TableFits({})
  <2>1. IsFiniteSet({}) /\ Cardinality({}) = 0
    BY FS_EmptySet
  <2>2. 0 <= Most
    BY SomeTasks DEF Most
  <2>3. \A namespace : In({}, namespace) = {}
    BY DEF In
  <2>4. QED
    BY <2>1, <2>2, <2>3 DEF TableFits, KeysAreUnique
<1>4. PICK f : f = [t \in Tasks |-> 0]
  OBVIOUS
<1>5. f \in [Tasks -> Nat] /\ \A t \in Tasks : f[t] < 1
  BY <1>4
<1>6. InTurn(task, rows, f, 1)
  BY <1>2, <1>5 DEF InTurn
<1>7. QED
  BY <1>1, <1>2, <1>3, <1>5, <1>6 DEF CacheInv, CacheFits

(* Steps that leave the table alone and take no store to its commit. *)
LEMMA QuietKeeps ==
    ASSUME CacheInv, CallSpaces', rows' = rows,
           \A u \in Tasks : task'[u].at = "commit" => task'[u] = task[u]
    PROVE  CacheInv'
<1>1. PICK old : old = task
  OBVIOUS
<1>2. PICK new : new = task'
  OBVIOUS
<1>3. CacheFits(old, rows) /\ \A u \in Tasks : new[u].at = "commit" => new[u] = old[u]
  BY <1>1, <1>2 DEF CacheInv
<1>4. CacheFits(new, rows)
  BY <1>3, QuietStep
<1>5. QED
  BY <1>2, <1>4 DEF CacheInv

LEMMA TrimKeepsCache ==
    ASSUME CacheInv, CallSpaces', NEW t \in Tasks, Trim(t)
    PROVE  CacheInv'
<1>1. PICK old : old = task
  OBVIOUS
<1>2. PICK new : new = task'
  OBVIOUS
<1>3. PICK c \in States : c = task[t]
  BY DEF CacheInv, CallSpaces, Types
<1>4. CallFits(c) /\ c.at = "trim" /\ c.pending \in CacheRows
      /\ c.pending.namespace = c.request.namespace
  BY <1>3 DEF CacheInv, CallSpaces, CallsFit, CallFits, Trim
<1>5. PICK seen : seen = Upserted(rows, c.pending)
  OBVIOUS
<1>6. PICK doomed : doomed = seen \ Trimmed(seen, c.pending.namespace)
  OBVIOUS
<1>7. task' = [task EXCEPT ![t] = [c EXCEPT !.at = "commit", !.doomed = doomed]]
  BY <1>3, <1>4, <1>5, <1>6 DEF Trim, Becomes
<1>8. task \in [Tasks -> States] /\ rows \in SUBSET CacheRows /\ CacheFits(old, rows)
  BY <1>1 DEF CacheInv, CallSpaces, Types
<1>9. PICK e : e = [c EXCEPT !.at = "commit", !.doomed = doomed]
  OBVIOUS
<1>10. e.pending = c.pending /\ e.doomed = doomed
  BY <1>9 DEF States
<1>11. new[t] = e /\ \A u \in Tasks : u # t => new[u] = old[u]
  BY <1>1, <1>2, <1>7, <1>8, <1>9
<1>12. CacheFits(new, rows)
  BY <1>4, <1>5, <1>6, <1>8, <1>10, <1>11, TrimStep
<1>13. QED
  BY <1>2, <1>12 DEF CacheInv, Trim

LEMMA CommitKeepsCache ==
    ASSUME CacheInv, CallSpaces', NEW t \in Tasks, Commit(t)
    PROVE  CacheInv'
<1>1. PICK old : old = task
  OBVIOUS
<1>2. PICK new : new = task'
  OBVIOUS
<1>3. /\ old[t].at = "commit" /\ old[t].pending.route = 0
      /\ task \in [Tasks -> States] /\ CacheFits(old, rows)
  BY <1>1 DEF CacheInv, CallSpaces, Types, CallsFit, CallFits, Commit
<1>4. PICK e : e = Ended("answer")
  OBVIOUS
<1>5. e.at # "commit"
  BY <1>4 DEF Ended, Idle
<1>6. task' = [task EXCEPT ![t] = e]
  BY <1>4 DEF Commit, Becomes
<1>7. new[t] = e /\ \A u \in Tasks : u # t => new[u] = old[u]
  BY <1>1, <1>2, <1>3, <1>6
<1>8. PICK left : left = Without(Upserted(rows, old[t].pending), old[t].doomed)
  OBVIOUS
<1>9. CacheFits(new, left)
  BY <1>3, <1>5, <1>7, <1>8, CommitStep
<1>10. rows' = left
  BY <1>1, <1>8 DEF Commit
<1>11. QED
  BY <1>2, <1>9, <1>10 DEF CacheInv

LEMMA ExpireKeepsCache ==
    ASSUME CacheInv, CallSpaces', NEW r \in rows, Expire(r)
    PROVE  CacheInv'
<1>1. r \in CacheRows /\ CacheFits(task, rows) /\ r.fresh
  BY DEF CacheInv, CallSpaces, Types, Expire
<1>2. PICK e : e = [r EXCEPT !.fresh = FALSE]
  OBVIOUS
<1>3. PICK left : left = (rows \ {r}) \cup {e}
  OBVIOUS
<1>4. CacheFits(task, left)
  BY <1>1, <1>2, <1>3, ExpireStep
<1>5. rows' = left /\ task' = task
  BY <1>2, <1>3 DEF Expire
<1>6. QED
  BY <1>4, <1>5 DEF CacheInv

(* No other action takes a call to the end of a store. *)
LEMMA EndedIsIdle == \A how : Ended(how).at = "idle"
BY DEF Ended, Idle

LEMMA GivesUpIsIdle == \A how, c : GivesUp(how, c).at = "idle"
<1>1. TAKE how, c
<1>2. PICK n : n = Ended(how)
  OBVIOUS
<1>3. n.at = "idle" /\ GivesUp(how, c) = [n EXCEPT !.route = c.route, !.tries = c.tries]
  BY <1>2, EndedIsIdle DEF GivesUp
<1>4. QED
  BY <1>2, <1>3 DEF Ended, Idle

LEMMA AttemptIsNoStore ==
    ASSUME NEW c \in States, c.at = "try", NEW d, NEW hint
    PROVE  AfterOutage(c, d, hint).at # "commit"
<1>1. ASSUME NEW n, NEW how
      PROVE  GivesUp(how, n).at # "commit"
  BY GivesUpIsIdle
<1>2. PICK m : m = [c EXCEPT !.total = @ + 1, !.tries = c.tries + 1, !.left = @ - d, !.outage = TRUE]
  OBVIOUS
<1>3. m.at = "try" /\ DOMAIN m = DOMAIN c
  BY <1>2 DEF States
<1>4. /\ [m EXCEPT !.route = @ + 1, !.tries = 0].at = "try"
      /\ \A x : [m EXCEPT !.left = @ - x].at = "try"
  BY <1>3 DEF States
<1>5. QED
  BY <1>1, <1>2, <1>4 DEF AfterOutage

LEMMA OthersAreQuiet ==
    ASSUME CallSpaces, NEW t \in Tasks,
           \/ \E q \in Requests : Begin(t, q)
           \/ Refuse(t) \/ Probe(t) \/ Hit(t) \/ Miss(t) \/ Outage(t) \/ DeadlinePasses(t)
           \/ Escalate(t) \/ Answer(t) \/ Insert(t) \/ StoreFails(t) \/ Cancel(t)
    PROVE  /\ rows' = rows
           /\ \A u \in Tasks : task'[u].at = "commit" => task'[u] = task[u]
<1>1. rows' = rows
  BY DEF Begin, Refuse, Probe, Hit, Miss, Outage, DeadlinePasses, Escalate, Answer, Insert,
         StoreFails, Cancel
<1>2. PICK n : Becomes(t, n) /\ n.at # "commit"
  <2>1. CASE \E how : Becomes(t, Ended(how))
    BY <2>1, EndedIsIdle
  <2>2. CASE \E v : Becomes(t, Trying(t, v))
    <3>1. \A v : Trying(t, v).at = "try"
      BY DEF Trying, Idle
    <3>2. QED
      BY <2>2, <3>1
  <2>3. CASE \E q \in Requests : Begin(t, q)
    <3>1. PICK q \in Requests : Begin(t, q)
      BY <2>3
    <3>2. PICK at \in {"probe", "try"} : at = IF q.cached THEN "probe" ELSE "try"
      OBVIOUS
    <3>3. PICK e : e = [Idle EXCEPT !.at = at, !.request = q,
                                    !.left = IF q.cached THEN 0 ELSE TotalTimeout]
      OBVIOUS
    <3>4. e.at = at
      BY <3>3 DEF Idle
    <3>5. Becomes(t, e)
      BY <3>1, <3>2, <3>3 DEF Begin
    <3>6. QED
      BY <3>2, <3>4, <3>5
  <2>4. CASE \E c : Becomes(t, GivesUp("deadline", c))
    BY <2>4, GivesUpIsIdle
  <2>5. CASE Outage(t)
    <3>1. task[t].at = "try" /\ task[t] \in States
      BY <2>5 DEF Outage, Trial, CallSpaces, Types
    <3>2. PICK d, hint : Becomes(t, AfterOutage(task[t], d, hint))
      BY <2>5 DEF Outage
    <3>3. QED
      BY <3>1, <3>2, AttemptIsNoStore
  <2>6. PICK c \in States : c = task[t]
    BY DEF CallSpaces, Types
  <2>7. CASE \E v : Becomes(t, [task[t] EXCEPT !.at = "find", !.probed = v])
    <3>1. \A v : [c EXCEPT !.at = "find", !.probed = v].at = "find"
      BY DEF States
    <3>2. QED
      BY <2>6, <2>7, <3>1
  <2>8. CASE Becomes(t, [task[t] EXCEPT !.at = "insert", !.left = 0, !.total = 0, !.tries = 0])
    <3>1. [c EXCEPT !.at = "insert", !.left = 0, !.total = 0, !.tries = 0].at = "insert"
      BY DEF States
    <3>2. QED
      BY <2>6, <2>8, <3>1
  <2>9. CASE \E r : Becomes(t, [task[t] EXCEPT !.at = "trim", !.pending = r])
    <3>1. \A r : [c EXCEPT !.at = "trim", !.pending = r].at = "trim"
      BY DEF States
    <3>2. QED
      BY <2>6, <2>9, <3>1
  <2>10. QED
    BY <2>1, <2>2, <2>3, <2>4, <2>5, <2>7, <2>8, <2>9
       DEF Refuse, Probe, Hit, Miss, DeadlinePasses, Escalate, Answer, Insert, StoreFails, Cancel
<1>3. task \in [Tasks -> States]
  BY DEF CallSpaces, Types
<1>4. QED
  BY <1>1, <1>2, <1>3 DEF Becomes

LEMMA CacheKeeps == CacheInv /\ [Next]_vars => CacheInv'
<1> SUFFICES ASSUME CacheInv, [Next]_vars
             PROVE  CacheInv'
  OBVIOUS
<1>1. CallSpaces /\ CallSpaces'
  BY CallsKeep DEF CacheInv
<1>2. CASE UNCHANGED vars
  BY <1>1, <1>2, QuietKeeps DEF vars
<1>3. ASSUME NEW r \in rows, Expire(r)
      PROVE  CacheInv'
  BY <1>1, <1>3, ExpireKeepsCache
<1>4. ASSUME NEW t \in Tasks, NEW q \in Requests, Complete(t, q) \/ Embed(t, q)
      PROVE  CacheInv'
  BY <1>1, <1>4, OthersAreQuiet, QuietKeeps DEF Complete, Embed
<1>5. ASSUME NEW t \in Tasks, Trim(t) \/ Commit(t)
      PROVE  CacheInv'
  BY <1>1, <1>5, TrimKeepsCache, CommitKeepsCache
<1>6. ASSUME NEW t \in Tasks, Step(t) \/ Cancel(t), ~(Trim(t) \/ Commit(t))
      PROVE  CacheInv'
  BY <1>1, <1>6, OthersAreQuiet, QuietKeeps DEF Step
<1>7. QED
  BY <1>2, <1>3, <1>4, <1>5, <1>6 DEF Next, Step

(* For any number of concurrent calls, every vector, every size of a        *)
(* namespace and however long they go on: only answers of the primary route *)
(* are there to be hit, one row of a key, and a namespace never exceeds its *)
(* bound by more than the other calls that may be storing.                  *)
THEOREM CacheStaysSound == Spec => []CacheIsSound
<1>1. CacheInv => CacheIsSound
  <2> SUFFICES ASSUME CacheInv, NEW r \in rows
               PROVE  /\ r.route = 0
                      /\ Cardinality({s \in rows : s.namespace = r.namespace})
                             <= MaxEntries + Cardinality(Tasks) - 1
                      /\ \A s \in rows : SameKey(r, s) => r = s
    BY DEF CacheIsSound
  <2>1. TableFits(rows)
    BY DEF CacheInv, CacheFits
  <2>2. Cardinality(In(rows, r.namespace)) <= Most
    BY <2>1 DEF TableFits
  <2>3. In(rows, r.namespace) = {s \in rows : s.namespace = r.namespace}
    BY DEF In
  <2>4. QED
    BY <2>1, <2>2, <2>3 DEF TableFits, KeysAreUnique, Most
<1>2. QED
  BY <1>1, CacheStarts, CacheKeeps, PTL DEF Spec

=============================================================================
