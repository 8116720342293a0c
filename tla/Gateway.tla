------------------------------- MODULE Gateway -------------------------------
(***************************************************************************)
(* The gateway client (gateway_client/client.py): logical calls of         *)
(* concurrent tasks, each with bounded attempts, backoff, a fallback route *)
(* and one deadline over both routes; the semantic cache that an explicitly *)
(* public call looks in first and stores its answer in afterwards; and the *)
(* cost every response reports to the client's budget tracker.             *)
(*                                                                         *)
(* Time is what a call has left before its deadline.  The embedding of a   *)
(* cached call is a logical call of its own: one step, with its cost.      *)
(***************************************************************************)
EXTENDS GatewayBudgets, SemanticCache

CONSTANTS
    Tasks,           \* coroutines calling complete()
    Requests,        \* [kind, run, cached, namespace]; kind is "chat" or "embed"
    Runs,            \* runs the requests belong to
    Vectors,         \* what an embedding may return
    Costs,           \* costs a response header may state
    Hints,           \* Retry-After values
    HasFallback,     \* does routes_for() return a second route?
    TotalTimeout, RequestTimeout, MaxAttempts, Backoff, MaxDelay,
    MaxCalls,        \* bound: calls begun
    None

ASSUME GatewayAssumption ==
    /\ TotalTimeout \in Nat \ {0} /\ RequestTimeout \in Nat \ {0}
    /\ MaxAttempts \in Nat \ {0}
    /\ Backoff \in Nat /\ MaxDelay \in Nat \ {0}
    /\ \A n \in 0 .. MaxAttempts : Backoff * 2 ^ n \in Nat
    /\ HasFallback \in BOOLEAN
    /\ Costs \subseteq Nat /\ Hints \subseteq Nat /\ Vectors \subseteq Nat
    /\ IsFiniteSet(Tasks)
    /\ \A q \in Requests : q.run \in Runs
    /\ MaxCalls \in Nat
    /\ None \notin Nat

VARIABLES
    task,      \* per task: its call, see Idle
    rows,      \* committed cache entries
    tracker,   \* the client's BudgetAlertTracker
    alerts,    \* history: alerts per run since it was last forgotten
    calls,     \* bound counter
    stamps     \* timestamps handed out to cache entries

vars == <<task, rows, tracker, alerts, calls, stamps>>

LastRoute == IF HasFallback THEN 1 ELSE 0

(* A task between calls.  at: where it is; left: time before its deadline; *)
(* total and tries: attempts of the call and of its route; probed: the     *)
(* vector the cache was searched with; pending and doomed: the row its     *)
(* open store transaction inserted and those it deleted; outage and ended: *)
(* history, how its last attempt and its last call ended.                  *)
Idle == [at |-> "idle", request |-> None, left |-> 0, route |-> 0, total |-> 0, tries |-> 0,
         probed |-> None, pending |-> None, doomed |-> {}, outage |-> FALSE, ended |-> "none"]

TypeOK ==
    /\ \A t \in Tasks :
        /\ DOMAIN task[t] = DOMAIN Idle
        /\ task[t].at \in {"idle", "probe", "find", "try", "insert", "trim", "commit"}
        /\ task[t].request \in Requests \cup {None}
        /\ task[t].left \in 0 .. TotalTimeout
        /\ task[t].route \in 0 .. LastRoute
        /\ task[t].total \in 0 .. (LastRoute + 1) * MaxAttempts
        /\ task[t].tries \in 0 .. MaxAttempts
        /\ task[t].probed \in Vectors \cup {None}
    /\ Tracked(tracker) \subseteq Runs

Init ==
    /\ task = [t \in Tasks |-> Idle]
    /\ rows = {}
    /\ tracker = NewTracker
    /\ alerts = [r \in Runs |-> 0]
    /\ calls = 0
    /\ stamps = 0

-----------------------------------------------------------------------------
Becomes(t, state) == task' = [task EXCEPT ![t] = state]

Ended(how) == [Idle EXCEPT !.ended = how]

(* Giving up, with the attempts made on the route it was on. *)
GivesUp(how, c) == [Ended(how) EXCEPT !.route = c.route, !.tries = c.tries]

(* The logical call of _invoke_core starts: route 0, the whole deadline. *)
Trying(t, vector) ==
    [Idle EXCEPT !.at = "try", !.request = task[t].request, !.left = TotalTimeout,
                 !.probed = vector]

(* observe() for a response or an error that states its cost; None is a    *)
(* missing header.                                                         *)
Charge(t, cost) ==
    IF cost = None
    THEN UNCHANGED <<tracker, alerts>>
    ELSE LET run == task[t].request.run
         IN /\ tracker' = Observed(tracker, run, cost)
            /\ alerts' = [r \in Runs |->
                   IF r \notin Tracked(tracker') THEN 0
                   ELSE IF r = run /\ Alerts(tracker, run, cost) THEN alerts[r] + 1
                   ELSE alerts[r]]

-----------------------------------------------------------------------------
(* complete(): a public call that may be cached probes first.              *)

Begin(t, q) ==
    /\ task[t].at = "idle"
    /\ calls < MaxCalls
    /\ calls' = calls + 1
    /\ Becomes(t, [Idle EXCEPT !.at = IF q.cached THEN "probe" ELSE "try",
                               !.request = q,
                               !.left = IF q.cached THEN 0 ELSE TotalTimeout])
    /\ UNCHANGED <<rows, tracker, alerts, stamps>>

(* embed(): never cached. *)
Embed(t, q) == q.kind = "embed" /\ ~q.cached /\ Begin(t, q)
Complete(t, q) == q.kind = "chat" /\ Begin(t, q)

(* RequestGuards refuse the text, a binary part or the token estimate,     *)
(* before the first attempt of a route.                                    *)
Refuse(t) ==
    /\ task[t].at = "probe" \/ (task[t].at = "try" /\ task[t].total = 0)
    /\ Becomes(t, Ended("refused"))
    /\ UNCHANGED <<rows, tracker, alerts, calls, stamps>>

(* The probe's embedding, charged to the same run; its vector need not be  *)
(* the one a repetition of the request gets.  A gateway error or the       *)
(* probe's own timeout bypasses the cache.                                 *)
Probe(t) ==
    /\ task[t].at = "probe"
    /\ \E cost \in Costs \cup {None} : Charge(t, cost)
    /\ \/ \E v \in Vectors : Becomes(t, [task[t] EXCEPT !.at = "find", !.probed = v])
       \/ Becomes(t, Trying(t, None))
    /\ UNCHANGED <<rows, calls, stamps>>

(* A hit whose JSON still validates is the answer. *)
Hit(t) ==
    /\ task[t].at = "find"
    /\ Found(rows, task[t].request.namespace, task[t].probed) # {}
    /\ Becomes(t, Ended("hit"))
    /\ UNCHANGED <<rows, tracker, alerts, calls, stamps>>

(* No hit, or an entry that no longer validates; a lookup that failed or   *)
(* timed out also keeps the answer from being stored.                      *)
Miss(t) ==
    /\ task[t].at = "find"
    /\ Becomes(t, Trying(t, task[t].probed)) \/ Becomes(t, Trying(t, None))
    /\ UNCHANGED <<rows, tracker, alerts, calls, stamps>>

-----------------------------------------------------------------------------
(* _invoke_core: one attempt of the while loop and what follows it.        *)

Delay(n, hint) ==
    IF hint # None THEN hint
    ELSE LET b == Backoff * 2 ^ (n - 1) IN IF b < MaxDelay THEN b ELSE MaxDelay

(* Why the loop leaves this route after an outage: attempts used up, a     *)
(* delay above the cap, or a named fallback that needs the time.           *)
LeavesRouteLate(c, n, delay, remaining) ==
    n >= MaxAttempts \/ delay > MaxDelay
LeavesRoute(c, n, delay, remaining) ==
    \/ n >= MaxAttempts
    \/ delay > MaxDelay
    \/ c.route < LastRoute /\ remaining <= RequestTimeout + delay

(* The call after an outage (connection, timeout, 408/429, 5xx) that took  *)
(* d units of time.                                                        *)
AfterOutage(call, d, hint) ==
    LET n == call.tries + 1
        c == [call EXCEPT !.total = @ + 1, !.tries = n, !.left = @ - d, !.outage = TRUE]
        delay == Delay(n, hint)
    IN IF LeavesRoute(c, n, delay, c.left)
       THEN IF c.route < LastRoute
            THEN [c EXCEPT !.route = @ + 1, !.tries = 0]
            ELSE GivesUp("unavailable", c)
       ELSE IF delay >= c.left
            THEN GivesUp("deadline", c)
            ELSE [c EXCEPT !.left = @ - delay]

AttemptTime(t) == 0 .. (IF task[t].left < RequestTimeout THEN task[t].left ELSE RequestTimeout)

Trial(t) == task[t].at = "try" /\ task[t].left > 0

Outage(t) ==
    /\ Trial(t)
    /\ \E d \in AttemptTime(t), hint \in Hints \cup {None} :
           Becomes(t, AfterOutage(task[t], d, hint))
    /\ UNCHANGED <<rows, tracker, alerts, calls, stamps>>

(* asyncio.timeout around the whole call ends an attempt that takes all     *)
(* that is left; with nothing left, the next route is not attempted.       *)
DeadlinePasses(t) ==
    /\ task[t].at = "try"
    /\ task[t].left <= RequestTimeout
    /\ Becomes(t, GivesUp("deadline",
                          [task[t] EXCEPT !.tries = IF Trial(t) THEN @ + 1 ELSE @]))
    /\ UNCHANGED <<rows, tracker, alerts, calls, stamps>>

(* A response that is refused locally, with its cost: the envelope of an    *)
(* answer, embeddings that are not one finite vector of one length for      *)
(* every input, the schema of a chat answer, or the tokens used.            *)
Refusals(q) ==
    {"InvalidGatewayResponse", "TokenBudgetExceeded"}
        \cup (IF q.kind = "chat" THEN {"InvalidStructuredOutput"} ELSE {})

(* The call ends with such a response, or with an error nobody retries:     *)
(* quota, other 4xx.                                                       *)
EscalateAsOutage(t) ==
    /\ Trial(t)
    /\ Becomes(t, IF task[t].route < LastRoute
                  THEN [task[t] EXCEPT !.route = @ + 1, !.tries = 0, !.total = @ + 1,
                                       !.outage = FALSE]
                  ELSE Ended("invalid"))
    /\ UNCHANGED <<rows, tracker, alerts, calls, stamps>>
Escalate(t) ==
    /\ Trial(t)
    /\ \/ \E how \in Refusals(task[t].request) : Becomes(t, Ended(how))
          /\ \E cost \in Costs \cup {None} : Charge(t, cost)
       \/ Becomes(t, Ended("rejected")) /\ UNCHANGED <<tracker, alerts>>
    /\ UNCHANGED <<rows, calls, stamps>>

(* A valid answer: charged, and stored if the probe named a key, the       *)
(* primary route gave it and it holds no PII.                              *)
StoreAllowed(c) == c.probed # None /\ c.route = 0

Answer(t) ==
    /\ Trial(t)
    /\ \E cost \in Costs \cup {None} : Charge(t, cost)
    /\ \/ Becomes(t, Ended("answer"))
       \/ StoreAllowed(task[t]) /\ Becomes(t, [task[t] EXCEPT !.at = "insert", !.left = 0,
                                                               !.total = 0, !.tries = 0])
    /\ UNCHANGED <<rows, calls, stamps>>

-----------------------------------------------------------------------------
(* _store_cache: one transaction.  The unique key waits for another open   *)
(* store that inserted or deleted the same key.                            *)

Entry(t) ==
    [namespace |-> task[t].request.namespace, vector |-> task[t].probed,
     route |-> task[t].route, stamp |-> stamps, fresh |-> TRUE]

Touched(c) == c.doomed \cup (IF c.pending = None THEN {} ELSE {c.pending})

Insert(t) ==
    /\ task[t].at = "insert"
    /\ \A u \in Tasks : \A r \in Touched(task[u]) : ~SameKey(r, Entry(t))
    /\ Becomes(t, [task[t] EXCEPT !.at = "trim", !.pending = Entry(t)])
    /\ stamps' = stamps + 1
    /\ UNCHANGED <<rows, tracker, alerts, calls>>

(* The DELETEs see the rows that are committed by now and their own. *)
Trim(t) ==
    LET seen == Upserted(rows, task[t].pending)
    IN /\ task[t].at = "trim"
       /\ Becomes(t, [task[t] EXCEPT !.at = "commit",
                          !.doomed = seen \ Trimmed(seen, task[t].request.namespace)])
       /\ UNCHANGED <<rows, tracker, alerts, calls, stamps>>

Commit(t) ==
    /\ task[t].at = "commit"
    /\ rows' = Without(Upserted(rows, task[t].pending), task[t].doomed)
    /\ Becomes(t, Ended("answer"))
    /\ UNCHANGED <<tracker, alerts, calls, stamps>>

(* The store fails or times out: the answer is returned all the same. *)
StoreFails(t) ==
    /\ task[t].at \in {"insert", "trim", "commit"}
    /\ Becomes(t, Ended("answer"))
    /\ UNCHANGED <<rows, tracker, alerts, calls, stamps>>

Cancel(t) ==
    /\ task[t].at # "idle"
    /\ Becomes(t, Ended("cancelled"))
    /\ UNCHANGED <<rows, tracker, alerts, calls, stamps>>

(* A row's time to live passes. *)
Expire(r) ==
    /\ r.fresh
    /\ rows' = (rows \ {r}) \cup {[r EXCEPT !.fresh = FALSE]}
    /\ UNCHANGED <<task, tracker, alerts, calls, stamps>>

-----------------------------------------------------------------------------
Step(t) ==
    \/ Refuse(t)
    \/ Probe(t)
    \/ Hit(t)
    \/ Miss(t)
    \/ Outage(t)
    \/ DeadlinePasses(t)
    \/ Escalate(t)
    \/ Answer(t)
    \/ Insert(t)
    \/ Trim(t)
    \/ Commit(t)
    \/ StoreFails(t)

Next ==
    \/ \E t \in Tasks : (\E q \in Requests : Complete(t, q) \/ Embed(t, q)) \/ Step(t) \/ Cancel(t)
    \/ \E r \in rows : Expire(r)

Spec == Init /\ [][Next]_vars
-----------------------------------------------------------------------------
(* Properties *)

(* "Quota/billing denial, guard rejection, invalid model output, and other *)
(* business failures escalate without fallback": whatever is attempted     *)
(* again, on either route, was an outage, and no call makes more attempts  *)
(* than its routes allow.                                                  *)
OnlyOutagesAreRetried ==
    \A t \in Tasks : task[t].at = "try" /\ task[t].total > 0 =>
        /\ task[t].outage
        /\ task[t].total < (LastRoute + 1) * MaxAttempts

(* A named fallback is always tried: no series of slow attempts, delays    *)
(* and Retry-After hints on the primary route uses up the whole deadline,  *)
(* so a call that gives up has attempted its last route.                   *)
FallbackIsTried ==
    \A t \in Tasks : task[t].ended \in {"deadline", "unavailable"} =>
        task[t].route = LastRoute /\ task[t].tries > 0

(* The cache holds what the primary route answered, however stores, expiry  *)
(* and lookups of several calls interleave: a fallback's answer is never    *)
(* there to be hit.  "Each namespace is bounded": every open store sees the *)
(* committed rows and its own, so concurrent stores may leave one extra row *)
(* each, and no more, however long they go on; and one row of a key.        *)
CacheIsSound ==
    \A r \in rows :
        /\ r.route = 0
        /\ Cardinality({s \in rows : s.namespace = r.namespace})
               <= MaxEntries + Cardinality(Tasks) - 1
        /\ \A s \in rows : SameKey(r, s) => r = s

(* While the client remembers a run it has alerted once if the observed    *)
(* total reached the threshold, and not at all before; forgetting the run  *)
(* forgets its alert with its total.                                       *)
OneAlertPerRun ==
    \A r \in Runs : alerts[r] = IF r \in Tracked(tracker) /\ tracker.total[r] >= Threshold
                                THEN 1 ELSE 0
=============================================================================
