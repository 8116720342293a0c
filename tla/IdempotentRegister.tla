------------------------- MODULE IdempotentRegister -------------------------
(***************************************************************************)
(* What ingestion promises to the clients of its endpoints: every request  *)
(* is answered by one atomic step that either leaves the register as it    *)
(* was or decides the request's key for ever, and the client may be told   *)
(* of a failure whatever happened.  Nothing is said of the raw bucket,     *)
(* locks, transactions or when anything is looked up; Ingestion is shown   *)
(* to implement it.                                                        *)
(***************************************************************************)
EXTENDS Naturals, Sequences

CONSTANTS Clients, Keys, Contents, Nonces, None

VARIABLES
    runs,      \* runs[i] is the content run i was created for
    decided,   \* key -> the outcome it replays, or None
    consumed,  \* nonces of the requests that took effect
    waiting,   \* clients whose request is unanswered
    asked,     \* client -> its last request, or None
    answer     \* client -> its last answer

register == <<runs, decided, consumed>>
vars == <<register, waiting, asked, answer>>

Requests == [key: Keys, content: Contents, nonce: Nonces \cup {None}]

(* An upload and an email with the same document are different requests. *)
Identity(q) == <<IF q.nonce = None THEN "UPLOAD" ELSE "EMAIL", q.content>>
Outcome(q, status, run) == [hash |-> Identity(q), status |-> status, run |-> run]
Nothing(status) == [hash |-> <<>>, status |-> status, run |-> 0]

Init ==
    /\ runs = <<>>
    /\ decided = [k \in Keys |-> None]
    /\ consumed = {}
    /\ waiting = {}
    /\ asked = [c \in Clients |-> None]
    /\ answer = [c \in Clients |-> Nothing(0)]

Ask(c, q) ==
    /\ waiting' = waiting \cup {c}
    /\ asked' = [asked EXCEPT ![c] = q]
    /\ answer' = [answer EXCEPT ![c] = Nothing(0)]
    /\ UNCHANGED register

(* A signed request out of its time is not even looked at. *)
TurnAway(c, q) ==
    /\ q.nonce # None
    /\ asked' = [asked EXCEPT ![c] = q]
    /\ answer' = [answer EXCEPT ![c] = Nothing(401)]
    /\ UNCHANGED <<register, waiting>>

Finish(c, a) ==
    /\ waiting' = waiting \ {c}
    /\ answer' = [answer EXCEPT ![c] = a]
    /\ UNCHANGED asked

(* Answered with the outcome that now stands, or cut off before hearing it. *)
FinishWith(c, outcome) == \E a \in {outcome, Nothing(503)} : Finish(c, a)

GiveUp(c) ==
    /\ Finish(c, Nothing(503))
    /\ UNCHANGED register

(* The key belongs to another request, or the nonce has been used. *)
Refuse(c) ==
    LET q == asked[c]
    IN /\ \/ decided[q.key] # None /\ decided[q.key].hash # Identity(q)
          \/ q.nonce \in consumed
       /\ Finish(c, Nothing(409))
       /\ UNCHANGED register

Unspent(q) == q.nonce \notin consumed
Consume(q) == consumed' = consumed \cup ({q.nonce} \ {None})

(* The same request under a decided key changes nothing but its own nonce. *)
Repeat(c) ==
    LET q == asked[c]
    IN /\ decided[q.key] # None
       /\ decided[q.key].hash = Identity(q)
       /\ Unspent(q)
       /\ Consume(q)
       /\ FinishWith(c, decided[q.key])
       /\ UNCHANGED <<runs, decided>>

Decide(c, status, run) ==
    LET q == asked[c]
    IN /\ decided[q.key] = None
       /\ Unspent(q)
       /\ Consume(q)
       /\ decided' = [decided EXCEPT ![q.key] = Outcome(q, status, run)]
       /\ FinishWith(c, Outcome(q, status, run))

(* A content nobody has ingested gets its run. *)
Accept(c) ==
    /\ \A i \in DOMAIN runs : runs[i] # asked[c].content
    /\ runs' = Append(runs, asked[c].content)
    /\ Decide(c, 201, Len(runs) + 1)

(* A content that has a run is pointed to it. *)
Duplicate(c) ==
    /\ \E i \in DOMAIN runs : runs[i] = asked[c].content /\ Decide(c, 200, i)
    /\ UNCHANGED runs

Next ==
    \/ \E c \in Clients \ waiting, q \in Requests : Ask(c, q) \/ TurnAway(c, q)
    \/ \E c \in waiting :
        \/ GiveUp(c)
        \/ Refuse(c)
        \/ Repeat(c)
        \/ Accept(c)
        \/ Duplicate(c)

Spec == Init /\ [][Next]_vars
=============================================================================
