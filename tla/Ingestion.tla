----------------------------- MODULE Ingestion -----------------------------
(***************************************************************************)
(* Invoice ingestion: IngestionService.ingest over IngestionRepository,    *)
(* concurrent requests of the upload and email endpoints.  Each request    *)
(* looks for a stored answer, writes the raw object, and then runs one     *)
(* transaction whose statements take locks: the idempotency key's advisory *)
(* lock, the uncommitted webhook nonce, and the invoice of the content     *)
(* (uncommitted insert of the creator, row lock of a duplicate).  What the *)
(* transaction writes becomes visible at its commit; a failure anywhere    *)
(* rolls it back and leaves only the raw object.                           *)
(***************************************************************************)
EXTENDS Naturals, Sequences, FiniteSets

CONSTANTS
    Clients,   \* request handlers
    Keys,      \* idempotency keys
    Contents,  \* document contents (content_hash)
    Nonces,    \* webhook nonces of the email endpoint
    None

ASSUME IngestionAssumption ==
    /\ None \notin Clients \cup Keys \cup Contents \cup Nonces
    /\ None \notin [hash: {"UPLOAD", "EMAIL"} \X Contents, status: {200, 201}, run: Nat]

(* nonce is None for an upload: source and content make the request hash. *)
Requests == [key: Keys, content: Contents, nonce: Nonces \cup {None}]
Source(q) == IF q.nonce = None THEN "UPLOAD" ELSE "EMAIL"
RequestHash(q) == <<Source(q), q.content>>

VARIABLES
    objects,   \* contents of the raw bucket
    runs,      \* committed invoice + initial run: runs[i] is run i's content
    requests,  \* ingestion_requests: key -> stored hash and outcome, or None
    events,    \* ledger: run -> number of accepted and duplicate_rejected events
    nonces,    \* committed webhook_nonces
    spent,     \* history: successful email requests per nonce
    expired,   \* nonces whose signed timestamp is outside the receipt window
    keyLock, nonceLock, contentLock,  \* holder of each lock
    pc, req,   \* where each handler is, and the request it serves
    found,     \* run of the original a duplicate found, 0 for a creator
    answer     \* what the handler answered last

tables == <<runs, requests, events, nonces, spent>>
locks == <<keyLock, nonceLock, contentLock>>
handler == <<pc, req, found, answer>>
vars == <<objects, tables, locks, handler, expired>>

Outcome(q, status, run) == [hash |-> RequestHash(q), status |-> status, run |-> run]
Failed == [hash |-> <<>>, status |-> 503, run |-> 0]
Conflict == [hash |-> <<>>, status |-> 409, run |-> 0]
Unauthorized == [hash |-> <<>>, status |-> 401, run |-> 0]
NoAnswer == [hash |-> <<>>, status |-> 0, run |-> 0]

TypeOK ==
    /\ objects \subseteq Contents
    /\ runs \in Seq(Contents)
    /\ requests \in [Keys -> {None} \cup
           [hash: {"UPLOAD", "EMAIL"} \X Contents, status: {200, 201}, run: DOMAIN runs]]
    /\ DOMAIN events = DOMAIN runs
    /\ nonces \subseteq Nonces
    /\ spent \in [Nonces -> Nat]
    /\ expired \subseteq Nonces
    /\ keyLock \in [Keys -> Clients \cup {None}]
    /\ nonceLock \in [Nonces -> Clients \cup {None}]
    /\ contentLock \in [Contents -> Clients \cup {None}]
    /\ pc \in [Clients -> {"idle", "fast", "put", "key", "nonce", "recheck", "create",
                           "original", "commit"}]
    /\ req \in [Clients -> Requests \cup {None}]
    /\ found \in [Clients -> {0} \cup DOMAIN runs]
    /\ \A c \in Clients : answer[c].status \in {0, 200, 201, 401, 409, 503}

Init ==
    /\ objects = {}
    /\ runs = <<>>
    /\ requests = [k \in Keys |-> None]
    /\ events = <<>>
    /\ nonces = {}
    /\ spent = [n \in Nonces |-> 0]
    /\ expired = {}
    /\ keyLock = [k \in Keys |-> None]
    /\ nonceLock = [n \in Nonces |-> None]
    /\ contentLock = [d \in Contents |-> None]
    /\ pc = [c \in Clients |-> "idle"]
    /\ req = [c \in Clients |-> None]
    /\ found = [c \in Clients |-> 0]
    /\ answer = [c \in Clients |-> NoAnswer]

-----------------------------------------------------------------------------
Goto(c, label) == pc' = [pc EXCEPT ![c] = label]

WithoutNothing(lock, c) == lock
Without(lock, c) == [x \in DOMAIN lock |-> IF lock[x] = c THEN None ELSE lock[x]]

(* The end of a request: its transaction, if any, is over. *)
Respond(c, a) ==
    /\ Goto(c, "idle")
    /\ answer' = [answer EXCEPT ![c] = a]
    /\ found' = [found EXCEPT ![c] = 0]
    /\ keyLock' = Without(keyLock, c)
    /\ nonceLock' = Without(nonceLock, c)
    /\ contentLock' = Without(contentLock, c)
    /\ UNCHANGED req

Receive(c, q, label) ==
    /\ req' = [req EXCEPT ![c] = q]
    /\ answer' = [answer EXCEPT ![c] = NoAnswer]
    /\ Goto(c, label)
    /\ UNCHANGED <<found, objects, tables, locks, expired>>

(* POST /v1/invoices: an authenticated upload of one document. *)
Upload(c, q) ==
    /\ pc[c] = "idle"
    /\ q.nonce = None
    /\ Receive(c, q, "fast")

(* POST /v1/invoices/email-webhook: a document whose signature is checked   *)
(* before anything is stored or looked for; a nonce is signed once, with    *)
(* its timestamp, and only accepted within the window around it.           *)
Email(c, q) ==
    /\ pc[c] = "idle"
    /\ q.nonce \in Nonces \ expired
    /\ Receive(c, q, "put")

EmailRefused(c, q) ==
    /\ pc[c] = "idle"
    /\ q.nonce \in expired
    /\ req' = [req EXCEPT ![c] = q]
    /\ answer' = [answer EXCEPT ![c] = Unauthorized]
    /\ UNCHANGED <<pc, found, objects, tables, locks, expired>>

(* The receipt window of a signed request has passed. *)
SignatureExpires(n) ==
    /\ n \notin expired
    /\ expired' = expired \cup {n}
    /\ UNCHANGED <<handler, objects, tables, locks>>

(* replay(): the stored outcome of this very request, or a conflict. *)
Replay(q) == IF requests[q.key].hash = RequestHash(q) THEN requests[q.key] ELSE Conflict

(* An upload looks for its answer before it stores anything. *)
FastReplay(c) ==
    /\ pc[c] = "fast"
    /\ requests[req[c].key] # None
    /\ Respond(c, Replay(req[c]))
    /\ UNCHANGED <<objects, tables>>

FastMiss(c) ==
    /\ pc[c] = "fast"
    /\ requests[req[c].key] = None
    /\ Goto(c, "put")
    /\ UNCHANGED <<req, found, answer, objects, tables, locks>>

(* S3RawStorage.put: conditional, an existing object stays. *)
Put(c) ==
    /\ pc[c] = "put"
    /\ objects' = objects \cup {req[c].content}
    /\ Goto(c, "key")
    /\ UNCHANGED <<req, found, answer, tables, locks>>

-----------------------------------------------------------------------------
(* The transaction *)

LockKey(c) ==
    /\ pc[c] = "key"
    /\ keyLock[req[c].key] = None
    /\ keyLock' = [keyLock EXCEPT ![req[c].key] = c]
    /\ Goto(c, IF req[c].nonce = None THEN "recheck" ELSE "nonce")
    /\ UNCHANGED <<req, found, answer, objects, tables, nonceLock, contentLock>>

(* INSERT ... ON CONFLICT DO NOTHING waits for an uncommitted nonce. *)
ClaimNonce(c) ==
    /\ pc[c] = "nonce"
    /\ nonceLock[req[c].nonce] = None
    /\ IF req[c].nonce \in nonces
       THEN Respond(c, Conflict)
       ELSE /\ nonceLock' = [nonceLock EXCEPT ![req[c].nonce] = c]
            /\ Goto(c, "recheck")
            /\ UNCHANGED <<req, found, answer, keyLock, contentLock>>
    /\ UNCHANGED <<objects, tables>>

(* Nonce of a request whose transaction commits. *)
SpendNonce(c) ==
    LET n == req[c].nonce
    IN IF n = None
       THEN UNCHANGED <<nonces, spent>>
       ELSE nonces' = nonces \cup {n} /\ spent' = [spent EXCEPT ![n] = @ + 1]

(* replay() again, now under the key's lock.  Answering from here commits  *)
(* the nonce, and the acknowledgement may be lost; a conflict raises and   *)
(* rolls it back.                                                          *)
Recheck(c) ==
    /\ pc[c] = "recheck"
    /\ requests[req[c].key] # None
    /\ IF Replay(req[c]) = Conflict
       THEN Respond(c, Conflict) /\ UNCHANGED <<nonces, spent>>
       ELSE /\ \E a \in {Replay(req[c]), Failed} : Respond(c, a)
            /\ SpendNonce(c)
    /\ UNCHANGED <<objects, runs, requests, events>>

RecheckMissBlind(c) ==
    /\ pc[c] = "recheck"
    /\ Goto(c, "create")
    /\ UNCHANGED <<req, found, answer, objects, tables, locks>>
RecheckMiss(c) ==
    /\ pc[c] = "recheck"
    /\ requests[req[c].key] = None
    /\ Goto(c, "create")
    /\ UNCHANGED <<req, found, answer, objects, tables, locks>>

Known(d) == \E i \in DOMAIN runs : runs[i] = d

(* create(): the unique content hash waits for an uncommitted insert, finds *)
(* a committed invoice, or inserts.                                        *)
CreateUnique(c) ==
    /\ pc[c] = "create"
    /\ Goto(c, IF Known(req[c].content) THEN "original" ELSE "commit")
    /\ UNCHANGED <<req, found, answer, keyLock, nonceLock, contentLock, objects, tables>>
Create(c) ==
    /\ pc[c] = "create"
    /\ contentLock[req[c].content] = None \/ Known(req[c].content)
    /\ IF Known(req[c].content)
       THEN Goto(c, "original") /\ UNCHANGED contentLock
       ELSE /\ contentLock' = [contentLock EXCEPT ![req[c].content] = c]
            /\ Goto(c, "commit")
    /\ UNCHANGED <<req, found, answer, keyLock, nonceLock, objects, tables>>

(* original(): locks the invoice's row and takes the request that created  *)
(* it; without one the ingestion is unavailable.                           *)
Original(c) ==
    LET first == {k \in Keys : requests[k] # None /\ requests[k].status = 201
                               /\ runs[requests[k].run] = req[c].content}
    IN /\ pc[c] = "original"
       /\ contentLock[req[c].content] = None
       /\ IF first = {}
          THEN Respond(c, Failed)
          ELSE /\ contentLock' = [contentLock EXCEPT ![req[c].content] = c]
               /\ \E k \in first : found' = [found EXCEPT ![c] = requests[k].run]
               /\ Goto(c, "commit")
               /\ UNCHANGED <<req, answer, keyLock, nonceLock>>
       /\ UNCHANGED <<objects, tables>>

(* The event, remember() and the commit; the key's lock keeps remember()    *)
(* from meeting a stored key.  The connection may be lost after the commit: *)
(* the handler then answers 503 for a request that succeeded.              *)
RememberedAccepted(q, status, run) == [requests EXCEPT ![q.key] = Outcome(q, 201, run)]
Remembered(q, status, run) == [requests EXCEPT ![q.key] = Outcome(q, status, run)]

Commit(c) ==
    LET q == req[c]
        run == IF found[c] = 0 THEN Len(runs) + 1 ELSE found[c]
        status == IF found[c] = 0 THEN 201 ELSE 200
    IN /\ pc[c] = "commit"
       /\ runs' = IF found[c] = 0 THEN Append(runs, q.content) ELSE runs
       /\ events' = IF found[c] = 0
                    THEN Append(events, [accepted |-> 1, duplicates |-> 0])
                    ELSE [events EXCEPT ![run].duplicates = @ + 1]
       /\ requests' = Remembered(q, status, run)
       /\ SpendNonce(c)
       /\ \E a \in {Outcome(q, status, run), Failed} : Respond(c, a)
       /\ UNCHANGED objects

(* Storage, connection, statement, lock and ledger failures and timeouts;  *)
(* also a handler that dies.                                               *)
Fail(c) ==
    /\ pc[c] # "idle"
    /\ Respond(c, Failed)
    /\ UNCHANGED <<objects, tables>>

-----------------------------------------------------------------------------
Step(c) ==
    \/ FastReplay(c)
    \/ FastMiss(c)
    \/ Put(c)
    \/ LockKey(c)
    \/ ClaimNonce(c)
    \/ Recheck(c)
    \/ RecheckMiss(c)
    \/ Create(c)
    \/ Original(c)
    \/ Commit(c)

Next ==
    \/ \E c \in Clients :
        \/ \E q \in Requests : Upload(c, q) \/ Email(c, q) \/ EmailRefused(c, q)
        \/ Step(c) /\ UNCHANGED expired
        \/ Fail(c) /\ UNCHANGED expired
    \/ \E n \in Nonces : SignatureExpires(n)

Spec == Init /\ [][Next]_vars

(* A handler runs until it has answered; only waiting for a lock blocks it. *)
FairSpec == Spec /\ \A c \in Clients : SF_vars(Step(c) /\ UNCHANGED expired)
-----------------------------------------------------------------------------
(* Properties *)

(* "Database uniqueness and these locks make simultaneous new keys safe":   *)
(* a content has at most one invoice and initial run, and since raw        *)
(* persistence comes first, every run can read its document.               *)
OneRunPerContent ==
    /\ \A i, j \in DOMAIN runs : runs[i] = runs[j] => i = j
    /\ \A i \in DOMAIN runs : runs[i] \in objects

Answered(run, status) ==
    {k \in Keys : requests[k] # None /\ requests[k].run = run /\ requests[k].status = status}

(* Every stored outcome names the run of its content, and every run has     *)
(* exactly one 201 among them, the original that duplicates refer to ("The *)
(* original ingestion identity is unavailable" never arises).  Its ledger  *)
(* has the one ingest.accepted event and an ingest.duplicate_rejected for  *)
(* each key answered 200, however often requests are retried or their      *)
(* answers are lost.  "Every successful signed request consumes its nonce": *)
(* no other request does, and no two successes share one.                  *)
EventsAccountForKeys ==
    /\ \A k \in Keys : requests[k] # None =>
           runs[requests[k].run] = requests[k].hash[2]
    /\ \A i \in DOMAIN runs :
           /\ Cardinality(Answered(i, 201)) = 1
           /\ events[i] = [accepted |-> 1, duplicates |-> Cardinality(Answered(i, 200))]
    /\ \A n \in Nonces : spent[n] = IF n \in nonces THEN 1 ELSE 0

(* The nonce check, "invoice/run/ledger event, and successful response      *)
(* commit atomically": however the handlers interleave, a request is        *)
(* answered as by one step of an IdempotentRegister, at the commit of its   *)
(* transaction, or where it fails or replays.  A key's outcome never        *)
(* changes, a nonce is used once, and a client told of a failure knows that *)
(* its request took effect completely or not at all.                        *)
Register == INSTANCE IdempotentRegister WITH
    decided <- requests,
    consumed <- nonces,
    waiting <- {c \in Clients : pc[c] # "idle"},
    asked <- req

ImplementsRegister == Register!Spec

(* The waits for keys, nonces and contents never form a cycle: each request *)
(* is answered without help from a lock timeout.                           *)
EventuallyAnswered == \A c \in Clients : pc[c] # "idle" ~> pc[c] = "idle"
=============================================================================
