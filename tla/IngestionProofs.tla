-------------------------- MODULE IngestionProofs --------------------------
(***************************************************************************)
(* Proofs about Ingestion, for every set of request handlers, keys,        *)
(* contents and nonces: the safety properties of concurrent ingestion.     *)
(***************************************************************************)
EXTENDS Ingestion, SequenceTheorems, FiniteSetTheorems, TLAPS

USE IngestionAssumption

Stored == [hash: {"UPLOAD", "EMAIL"} \X Contents, status: {200, 201}, run: Nat]

(* TypeOK, with the types of the events and of the answers. *)
Types ==
    /\ TypeOK
    /\ events \in Seq([accepted: Nat, duplicates: Nat]) /\ Len(events) = Len(runs)
    /\ answer \in [Clients -> {NoAnswer, Failed, Conflict, Unauthorized} \cup Stored]

InKey == {"nonce", "recheck", "create", "original", "commit"}  \* holding the key's lock
InNonce == {"recheck", "create", "original", "commit"}         \* and the nonce, if any
Missed == {"create", "original", "commit"}                     \* nothing stored for the key

(* A handler between two of its steps: the object it has written, the locks *)
(* it holds and what they keep true until it commits: no stored answer for  *)
(* its key, an unspent nonce, and at the commit a content still without a   *)
(* run, or with the run it found.  Success is only reported of what is      *)
(* stored under the key of the request.                                     *)
ClientFits(c) ==
    /\ pc[c] # "idle" => req[c] \in Requests /\ answer[c] = NoAnswer
    /\ pc[c] = "fast" => req[c].nonce = None
    /\ pc[c] \in {"key"} \cup InKey => req[c].content \in objects
    /\ pc[c] = "nonce" => req[c].nonce # None
    /\ pc[c] \in InKey => keyLock[req[c].key] = c
    /\ pc[c] \in InNonce /\ req[c].nonce # None =>
           nonceLock[req[c].nonce] = c /\ req[c].nonce \notin nonces
    /\ pc[c] \in Missed => requests[req[c].key] = None
    /\ pc[c] = "commit" =>
           /\ contentLock[req[c].content] = c
           /\ IF found[c] = 0 THEN ~Known(req[c].content)
              ELSE found[c] \in DOMAIN runs /\ runs[found[c]] = req[c].content
    /\ pc[c] # "commit" => found[c] = 0
    /\ answer[c].status \in {200, 201} =>
           /\ req[c] \in Requests
           /\ answer[c] = requests[req[c].key] /\ answer[c] # None
           /\ answer[c].hash = RequestHash(req[c])

ClientsFit == \A c \in Clients : ClientFits(c)

(* The outcomes of a run are finitely many, so that they can be counted. *)
OutcomesFinite ==
    \A i \in DOMAIN runs : IsFiniteSet(Answered(i, 200)) /\ IsFiniteSet(Answered(i, 201))

IInv == Types /\ ClientsFit /\ OneRunPerContent /\ EventsAccountForKeys /\ OutcomesFinite

-----------------------------------------------------------------------------
(* What a step of handler c may do to the others: it leaves what they are   *)
(* doing and the locks they hold, and writes only under the locks it holds. *)
Frame(c) ==
    /\ \A d \in Clients \ {c} : /\ pc'[d] = pc[d] /\ req'[d] = req[d]
                                /\ found'[d] = found[d] /\ answer'[d] = answer[d]
    /\ \A k \in Keys : keyLock[k] \notin {c, None} => keyLock'[k] = keyLock[k]
    /\ \A n \in Nonces : nonceLock[n] \notin {c, None} => nonceLock'[n] = nonceLock[n]
    /\ \A x \in Contents : contentLock[x] \notin {c, None} => contentLock'[x] = contentLock[x]
    /\ objects \subseteq objects'
    /\ \A i \in DOMAIN runs : i \in DOMAIN runs' /\ runs'[i] = runs[i]
    /\ \A i \in DOMAIN runs' : i \in DOMAIN runs \/ contentLock[runs'[i]] = c
    /\ \A n \in nonces' : n \in nonces \/ nonceLock[n] = c
    /\ \A k \in Keys : requests'[k] = requests[k] \/ (keyLock[k] = c /\ requests[k] = None)

(* Such a step leaves every other handler fit. *)
LEMMA OthersFit ==
    ASSUME IInv, NEW c \in Clients, Frame(c), NEW d \in Clients, d # c
    PROVE  ClientFits(d)'
<1> USE DEF IInv, ClientsFit
<1>1. ClientFits(d) /\ d # None
  OBVIOUS
<1>2. /\ pc'[d] = pc[d] /\ req'[d] = req[d] /\ found'[d] = found[d] /\ answer'[d] = answer[d]
      /\ objects \subseteq objects'
  BY DEF Frame
<1>3. req[d] \in Requests => /\ req[d].key \in Keys /\ req[d].content \in Contents
                             /\ req[d].nonce \in Nonces \cup {None}
  BY DEF Requests
<1>4. pc[d] # "idle" => req[d] \in Requests
  BY <1>1 DEF ClientFits
<1>5. pc[d] \in InKey => keyLock'[req[d].key] = d
  BY <1>1, <1>3, <1>4 DEF ClientFits, Frame, InKey
<1>6. pc[d] \in InNonce /\ req[d].nonce # None =>
          nonceLock'[req[d].nonce] = d /\ req[d].nonce \notin nonces'
  BY <1>1, <1>3, <1>4 DEF ClientFits, Frame, InNonce
<1>7. pc[d] \in Missed => requests'[req[d].key] = None
  BY <1>1, <1>3, <1>4 DEF ClientFits, Frame, InKey, Missed
<1>8. pc[d] = "commit" =>
          /\ contentLock'[req[d].content] = d
          /\ IF found[d] = 0 THEN ~Known(req[d].content)'
             ELSE found[d] \in DOMAIN runs' /\ runs'[found[d]] = req[d].content
  BY <1>1, <1>2, <1>3, <1>4 DEF ClientFits, Frame, Known
<1>9. answer[d].status \in {200, 201} => answer[d] = requests'[req[d].key]
  BY <1>1, <1>3 DEF ClientFits, Frame
<1>10. QED
  BY <1>1, <1>2, <1>5, <1>6, <1>7, <1>8, <1>9
     DEF ClientFits, Known, Source, RequestHash

(* What the tables hold is not disturbed by a step that leaves them alone,  *)
(* but may spend a nonce.                                                   *)
LEMMA SameTables ==
    ASSUME IInv, UNCHANGED <<runs, requests, events>>, objects \subseteq objects',
           \A n \in Nonces : spent'[n] = IF n \in nonces' THEN 1 ELSE 0
    PROVE  OneRunPerContent' /\ EventsAccountForKeys' /\ OutcomesFinite'
<1>1. OneRunPerContent'
  BY DEF IInv, OneRunPerContent
<1>2. EventsAccountForKeys'
  <2>1. EventsAccountForKeys
    BY DEF IInv
  <2>2. runs' = runs /\ requests' = requests /\ events' = events
    OBVIOUS
  <2>3. ASSUME NEW i, NEW t
        PROVE  Answered(i, t)' = Answered(i, t)
    BY ONLY <2>2 DEF Answered
  <2>4. ASSUME NEW i \in DOMAIN runs
        PROVE  /\ Cardinality(Answered(i, 201)') = 1
               /\ events'[i] = [accepted |-> 1, duplicates |-> Cardinality(Answered(i, 200)')]
    BY ONLY <2>1, <2>2, <2>3, i \in DOMAIN runs DEF EventsAccountForKeys
  <2>5. \A k \in Keys : requests'[k] # None => runs'[requests'[k].run] = requests'[k].hash[2]
    BY ONLY <2>1, <2>2 DEF EventsAccountForKeys
  <2>6. QED
    BY <2>2, <2>4, <2>5 DEF EventsAccountForKeys, Answered
<1>3. OutcomesFinite'
  <2>1. OutcomesFinite
    BY DEF IInv
  <2>2. QED
    BY ONLY <2>1, UNCHANGED <<runs, requests>> DEF OutcomesFinite, Answered
<1>4. QED
  BY <1>1, <1>2, <1>3

(* The end of a request frees its locks and no others. *)
LEMMA RespondStep ==
    ASSUME IInv, NEW c \in Clients, NEW a, Respond(c, a)
    PROVE  /\ pc' = [pc EXCEPT ![c] = "idle"]
           /\ answer' = [answer EXCEPT ![c] = a]
           /\ found' = [found EXCEPT ![c] = 0]
           /\ req' = req
           /\ keyLock' \in [Keys -> Clients \cup {None}]
           /\ nonceLock' \in [Nonces -> Clients \cup {None}]
           /\ contentLock' \in [Contents -> Clients \cup {None}]
           /\ \A k \in Keys : keyLock[k] # c => keyLock'[k] = keyLock[k]
           /\ \A n \in Nonces : nonceLock[n] # c => nonceLock'[n] = nonceLock[n]
           /\ \A x \in Contents : contentLock[x] # c => contentLock'[x] = contentLock[x]
BY DEF IInv, Types, TypeOK, Respond, Goto, Without

(* A request that ends without writing: answered from the stored outcome of *)
(* its key, refused or failed.  The nonce it claimed may be spent with it.  *)
LEMMA EndStep ==
    ASSUME IInv, NEW c \in Clients, NEW a, Respond(c, a), UNCHANGED expired,
           UNCHANGED <<objects, runs, requests, events>>,
           \/ UNCHANGED <<nonces, spent>>
           \/ SpendNonce(c) /\ pc[c] = "recheck",
           pc[c] # "idle",
           \/ a \in {Failed, Conflict}
           \/ /\ requests[req[c].key] # None
              /\ a = Replay(req[c])
    PROVE  IInv'
<1> USE DEF IInv
<1>1. /\ pc' = [pc EXCEPT ![c] = "idle"]
      /\ answer' = [answer EXCEPT ![c] = a]
      /\ found' = [found EXCEPT ![c] = 0]
      /\ req' = req
      /\ keyLock' \in [Keys -> Clients \cup {None}]
      /\ nonceLock' \in [Nonces -> Clients \cup {None}]
      /\ contentLock' \in [Contents -> Clients \cup {None}]
      /\ \A k \in Keys : keyLock[k] # c => keyLock'[k] = keyLock[k]
      /\ \A n \in Nonces : nonceLock[n] # c => nonceLock'[n] = nonceLock[n]
      /\ \A x \in Contents : contentLock[x] # c => contentLock'[x] = contentLock[x]
  BY RespondStep
<1>2. req[c] \in Requests /\ req[c].key \in Keys
  BY DEF ClientsFit, ClientFits, Requests
<1>3. /\ a \in {Failed, Conflict} \cup Stored
      /\ a.status \in {200, 201} =>
             a = requests[req[c].key] /\ a # None /\ a.hash = RequestHash(req[c])
  <2>1. CASE a \in {Failed, Conflict}
    BY <2>1 DEF Failed, Conflict
  <2>2. CASE requests[req[c].key] # None /\ a = Replay(req[c])
    <3>1. requests[req[c].key] \in Stored
      BY <1>2, <2>2 DEF Types, TypeOK, Stored
    <3>2. QED
      BY <2>2, <3>1 DEF Replay, Conflict
  <2>3. QED
    BY <2>1, <2>2
<1>4. pc[c] = "recheck" /\ req[c].nonce # None =>
          /\ req[c].nonce \in Nonces \ nonces
          /\ nonceLock[req[c].nonce] = c
  BY <1>2 DEF ClientsFit, ClientFits, InNonce, Requests
<1>5. /\ nonces' \subseteq Nonces
      /\ spent' \in [Nonces -> Nat]
      /\ \A n \in nonces' : n \in nonces \/ nonceLock[n] = c
      /\ \A n \in Nonces : spent'[n] = IF n \in nonces' THEN 1 ELSE 0
  BY <1>4 DEF SpendNonce, Types, TypeOK, EventsAccountForKeys
<1>6. Types'
  BY <1>1, <1>3, <1>5 DEF Types, TypeOK, Failed, Conflict, Stored
<1>7. Frame(c)
  BY <1>1, <1>5 DEF Frame, Types, TypeOK
<1>8. ClientFits(c)'
  <2>1. pc'[c] = "idle" /\ answer'[c] = a /\ found'[c] = 0 /\ req'[c] = req[c]
    BY <1>1 DEF Types, TypeOK
  <2>2. QED
    BY <1>2, <1>3, <2>1 DEF ClientFits, Source, RequestHash, InKey, InNonce, Missed
<1>9. ClientsFit'
  BY <1>7, <1>8, OthersFit DEF ClientsFit
<1>10. OneRunPerContent' /\ EventsAccountForKeys' /\ OutcomesFinite'
  BY <1>5, SameTables
<1>11. QED
  BY <1>6, <1>9, <1>10

(* A handler takes a request up or refuses it, a signature expires, or      *)
(* nothing happens.                                                         *)
LEMMA ReceiveStep ==
    ASSUME IInv,
           \/ \E c \in Clients, q \in Requests : Upload(c, q) \/ Email(c, q) \/ EmailRefused(c, q)
           \/ \E n \in Nonces : SignatureExpires(n)
           \/ UNCHANGED vars
    PROVE  IInv'
<1> USE DEF IInv
<1>1. UNCHANGED <<objects, runs, requests, events, nonces, spent, keyLock, nonceLock,
                  contentLock, found>>
  BY DEF Upload, Email, EmailRefused, Receive, SignatureExpires, vars, tables, locks, handler
<1>2. OneRunPerContent' /\ EventsAccountForKeys' /\ OutcomesFinite'
  BY <1>1, SameTables DEF EventsAccountForKeys
<1>3. ASSUME NEW c \in Clients, NEW q \in Requests,
             Upload(c, q) \/ Email(c, q) \/ EmailRefused(c, q)
      PROVE  Types' /\ ClientsFit'
  <2>1. /\ answer'[c] \in {NoAnswer, Unauthorized}
        /\ pc'[c] \in {"idle", "fast", "put"}
        /\ pc'[c] # "idle" => answer'[c] = NoAnswer
        /\ pc'[c] = "fast" => q.nonce = None
        /\ req' = [req EXCEPT ![c] = q]
        /\ answer' = [answer EXCEPT ![c] = answer'[c]]
        /\ pc' = [pc EXCEPT ![c] = pc'[c]]
        /\ expired' = expired
    <3>1. CASE Upload(c, q)
      BY <3>1 DEF Upload, Receive, Goto, Types, TypeOK
    <3>2. CASE Email(c, q)
      BY <3>2 DEF Email, Receive, Goto, Types, TypeOK
    <3>3. CASE EmailRefused(c, q)
      BY <3>3 DEF EmailRefused, Types, TypeOK
    <3>4. QED
      BY <1>3, <3>1, <3>2, <3>3
  <2>2. pc[c] = "idle"
    BY <1>3 DEF Upload, Email, EmailRefused
  <2>3. Types'
    <3>1. /\ req' \in [Clients -> Requests \cup {None}]
          /\ answer' \in [Clients -> {NoAnswer, Failed, Conflict, Unauthorized} \cup Stored]
          /\ pc' \in [Clients -> {"idle", "fast", "put", "key", "nonce", "recheck", "create",
                                 "original", "commit"}]
      <4>1. req' \in [Clients -> Requests \cup {None}]
        BY <2>1 DEF Types, TypeOK
      <4>2. answer' \in [Clients -> {NoAnswer, Failed, Conflict, Unauthorized} \cup Stored]
        BY <2>1 DEF Types
      <4>3. pc' \in [Clients -> {"idle", "fast", "put", "key", "nonce", "recheck", "create",
                                 "original", "commit"}]
        BY <2>1 DEF Types, TypeOK
      <4>4. QED
        BY <4>1, <4>2, <4>3
    <3>2. \A d \in Clients : answer'[d].status \in {0, 200, 201, 401, 409, 503}
      BY <3>1 DEF NoAnswer, Failed, Conflict, Unauthorized, Stored
    <3>3. QED
      BY <1>1, <2>1, <3>1, <3>2 DEF Types, TypeOK
  <2>4. Frame(c)
    BY <1>1, <2>1 DEF Frame, Types, TypeOK
  <2>5. ClientFits(c)'
    <3>1. req'[c] = q /\ found'[c] = 0
      BY <1>1, <2>1, <2>2 DEF Types, TypeOK, ClientsFit, ClientFits
    <3>2. answer'[c].status \notin {200, 201}
      BY <2>1 DEF NoAnswer, Unauthorized
    <3>3. QED
      BY <2>1, <3>1, <3>2 DEF ClientFits, InKey, InNonce, Missed
  <2>6. QED
    BY <2>3, <2>4, <2>5, OthersFit DEF ClientsFit
<1>4. ASSUME (\E n \in Nonces : SignatureExpires(n)) \/ UNCHANGED vars
      PROVE  Types' /\ ClientsFit'
  <2>1. UNCHANGED <<pc, req, answer>> /\ expired' \subseteq Nonces
    BY <1>4 DEF SignatureExpires, vars, handler, Types, TypeOK
  <2>2. Types'
    BY <1>1, <2>1 DEF Types, TypeOK
  <2>3. ASSUME NEW c \in Clients
        PROVE  ClientFits(c)'
    BY <1>1, <2>1 DEF ClientsFit, ClientFits, Known, RequestHash, Source
  <2>4. QED
    BY <2>2, <2>3 DEF ClientsFit
<1>5. QED
  BY <1>2, <1>3, <1>4

(* A handler goes on to its transaction and takes its locks there. *)
LEMMA AdvanceStep ==
    ASSUME IInv, NEW c \in Clients, UNCHANGED expired,
           \/ FastMiss(c) \/ Put(c) \/ LockKey(c) \/ RecheckMiss(c) \/ Create(c)
           \/ ClaimNonce(c) /\ req[c].nonce \notin nonces
    PROVE  IInv'
<1> USE DEF IInv
<1>1. UNCHANGED <<runs, requests, events, nonces, spent, req, found, answer>>
      /\ objects \subseteq objects'
  BY DEF FastMiss, Put, LockKey, RecheckMiss, Create, ClaimNonce, tables, locks
<1>2. OneRunPerContent' /\ EventsAccountForKeys' /\ OutcomesFinite'
  BY <1>1, SameTables DEF EventsAccountForKeys
<1>3. /\ pc[c] \in {"fast", "put", "key", "nonce", "recheck", "create"}
      /\ req[c] \in Requests
      /\ answer[c] = NoAnswer
      /\ found[c] = 0
  BY DEF FastMiss, Put, LockKey, RecheckMiss, Create, ClaimNonce, ClientsFit, ClientFits
<1>4. /\ req[c].key \in Keys /\ req[c].content \in Contents
      /\ req[c].nonce # None => req[c].nonce \in Nonces
  BY <1>3 DEF Requests
<1>5. CASE FastMiss(c)
  <2>1. pc[c] = "fast" /\ pc' = [pc EXCEPT ![c] = "put"]
        /\ UNCHANGED <<objects, keyLock, nonceLock, contentLock>>
    BY <1>5 DEF FastMiss, Goto, locks
  <2>2. Types' /\ Frame(c)
    BY <1>1, <2>1 DEF Types, TypeOK, Frame
  <2>3. ClientFits(c)'
    <3>1. pc'[c] = "put"
      BY <2>1 DEF Types, TypeOK
    <3>2. QED
      BY <1>1, <1>3, <3>1 DEF ClientFits, NoAnswer, InKey, InNonce, Missed
  <2>4. QED
    BY <1>2, <2>2, <2>3, OthersFit DEF ClientsFit
<1>6. CASE Put(c)
  <2>1. /\ pc' = [pc EXCEPT ![c] = "key"]
        /\ objects' = objects \cup {req[c].content}
        /\ UNCHANGED <<keyLock, nonceLock, contentLock>>
    BY <1>6 DEF Put, Goto, locks
  <2>2. Types' /\ Frame(c)
    BY <1>1, <1>4, <2>1 DEF Types, TypeOK, Frame
  <2>3. ClientFits(c)'
    <3>1. pc'[c] = "key"
      BY <2>1 DEF Types, TypeOK
    <3>2. QED
      BY <1>1, <1>3, <2>1, <3>1 DEF ClientFits, NoAnswer, InKey, InNonce, Missed
  <2>4. QED
    BY <1>2, <2>2, <2>3, OthersFit DEF ClientsFit
<1>7. CASE LockKey(c)
  <2>1. /\ pc[c] = "key" /\ keyLock[req[c].key] = None
        /\ keyLock' = [keyLock EXCEPT ![req[c].key] = c]
        /\ pc' = [pc EXCEPT ![c] = IF req[c].nonce = None THEN "recheck" ELSE "nonce"]
        /\ UNCHANGED <<objects, nonceLock, contentLock>>
    BY <1>7 DEF LockKey, Goto
  <2>2. Types' /\ Frame(c)
    BY <1>1, <1>4, <2>1 DEF Types, TypeOK, Frame
  <2>3. ClientFits(c)'
    <3>1. /\ pc'[c] = IF req[c].nonce = None THEN "recheck" ELSE "nonce"
          /\ keyLock'[req[c].key] = c
          /\ req[c].content \in objects
      BY <1>4, <2>1 DEF Types, TypeOK, ClientsFit, ClientFits
    <3>2. QED
      BY <1>1, <1>3, <2>1, <3>1 DEF ClientFits, NoAnswer, InKey, InNonce, Missed
  <2>4. QED
    BY <1>2, <2>2, <2>3, OthersFit DEF ClientsFit
<1>8. CASE ClaimNonce(c) /\ req[c].nonce \notin nonces
  <2>1. /\ pc[c] = "nonce" /\ nonceLock[req[c].nonce] = None
        /\ nonceLock' = [nonceLock EXCEPT ![req[c].nonce] = c]
        /\ pc' = [pc EXCEPT ![c] = "recheck"]
        /\ UNCHANGED <<objects, keyLock, contentLock>>
    BY <1>8 DEF ClaimNonce, Goto
  <2>2. /\ keyLock[req[c].key] = c /\ req[c].content \in objects
        /\ req[c].nonce \in Nonces
    BY <1>4, <2>1 DEF ClientsFit, ClientFits, InKey
  <2>3. Types' /\ Frame(c)
    BY <1>1, <2>1, <2>2 DEF Types, TypeOK, Frame
  <2>4. ClientFits(c)'
    <3>1. pc'[c] = "recheck" /\ nonceLock'[req[c].nonce] = c
      BY <2>1, <2>2 DEF Types, TypeOK
    <3>2. QED
      BY <1>1, <1>3, <1>8, <2>1, <2>2, <3>1 DEF ClientFits, NoAnswer, InKey, InNonce, Missed
  <2>5. QED
    BY <1>2, <2>3, <2>4, OthersFit DEF ClientsFit
<1>9. ASSUME NEW label \in {"create", "original"},
             pc[c] \in {"recheck", "create"},
             pc' = [pc EXCEPT ![c] = label],
             requests[req[c].key] = None,
             UNCHANGED <<objects, keyLock, nonceLock, contentLock>>
      PROVE  IInv'
  <2>1. /\ keyLock[req[c].key] = c /\ req[c].content \in objects
        /\ req[c].nonce # None =>
              nonceLock[req[c].nonce] = c /\ req[c].nonce \notin nonces
    BY <1>9 DEF ClientsFit, ClientFits, InKey, InNonce
  <2>2. Types' /\ Frame(c)
    BY <1>1, <1>9 DEF Types, TypeOK, Frame
  <2>3. ClientFits(c)'
    <3>1. pc'[c] = label
      BY <1>9 DEF Types, TypeOK
    <3>2. QED
      BY <1>1, <1>3, <1>9, <2>1, <3>1 DEF ClientFits, NoAnswer, InKey, InNonce, Missed
  <2>4. QED
    BY <1>2, <2>2, <2>3, OthersFit DEF ClientsFit
<1>10. CASE Create(c) /\ ~Known(req[c].content)
  <2>1. /\ pc[c] = "create" /\ contentLock[req[c].content] = None
        /\ contentLock' = [contentLock EXCEPT ![req[c].content] = c]
        /\ pc' = [pc EXCEPT ![c] = "commit"]
        /\ UNCHANGED <<objects, keyLock, nonceLock>>
    BY <1>10 DEF Create, Goto
  <2>2. /\ keyLock[req[c].key] = c /\ req[c].content \in objects
        /\ requests[req[c].key] = None
        /\ req[c].nonce # None =>
              nonceLock[req[c].nonce] = c /\ req[c].nonce \notin nonces
    BY <2>1 DEF ClientsFit, ClientFits, InKey, InNonce, Missed
  <2>3. Types' /\ Frame(c)
    BY <1>1, <1>4, <2>1 DEF Types, TypeOK, Frame
  <2>4. ClientFits(c)'
    <3>1. pc'[c] = "commit" /\ contentLock'[req[c].content] = c /\ ~Known(req[c].content)'
      BY <1>1, <1>4, <1>10, <2>1 DEF Types, TypeOK, Known
    <3>2. QED
      BY <1>1, <1>3, <2>1, <2>2, <3>1 DEF ClientFits, NoAnswer, InKey, InNonce, Missed
  <2>5. QED
    BY <1>2, <2>3, <2>4, OthersFit DEF ClientsFit
<1>11. CASE RecheckMiss(c)
  <2>1. /\ pc[c] = "recheck" /\ requests[req[c].key] = None
        /\ pc' = [pc EXCEPT ![c] = "create"]
        /\ UNCHANGED <<objects, keyLock, nonceLock, contentLock>>
    BY <1>11 DEF RecheckMiss, Goto, locks
  <2>2. QED
    BY <1>9, <2>1
<1>12. CASE Create(c) /\ Known(req[c].content)
  <2>1. /\ pc[c] = "create" /\ requests[req[c].key] = None
        /\ pc' = [pc EXCEPT ![c] = "original"]
        /\ UNCHANGED <<objects, keyLock, nonceLock, contentLock>>
    BY <1>12 DEF Create, Goto, ClientsFit, ClientFits, Missed
  <2>2. QED
    BY <1>9, <2>1
<1>13. QED
  BY <1>5, <1>6, <1>7, <1>8, <1>10, <1>11, <1>12

(* A duplicate finds the original and holds its row. *)
LEMMA OriginalStep ==
    ASSUME IInv, NEW c \in Clients, UNCHANGED expired, Original(c)
    PROVE  IInv'
<1> USE DEF IInv
<1>1. /\ pc[c] = "original" /\ contentLock[req[c].content] = None
      /\ UNCHANGED <<objects, runs, requests, events, nonces, spent>>
  BY DEF Original, tables
<1>2. CASE Respond(c, Failed)
  BY <1>1, <1>2, EndStep
<1>3. ASSUME ~Respond(c, Failed)
      PROVE  IInv'
  <2>1. PICK k \in Keys : /\ requests[k] # None
                         /\ runs[requests[k].run] = req[c].content
                         /\ found' = [found EXCEPT ![c] = requests[k].run]
    BY <1>3 DEF Original
  <2>2. /\ contentLock' = [contentLock EXCEPT ![req[c].content] = c]
        /\ pc' = [pc EXCEPT ![c] = "commit"]
        /\ UNCHANGED <<req, answer, keyLock, nonceLock>>
    BY <1>3 DEF Original, Goto
  <2>3. /\ req[c] \in Requests /\ answer[c] = NoAnswer
        /\ keyLock[req[c].key] = c /\ req[c].content \in objects
        /\ requests[req[c].key] = None
        /\ req[c].nonce # None =>
              nonceLock[req[c].nonce] = c /\ req[c].nonce \notin nonces
    BY <1>1 DEF ClientsFit, ClientFits, InKey, InNonce, Missed
  <2>4. /\ req[c].content \in Contents
        /\ requests[k].run \in DOMAIN runs
    BY <2>1, <2>3 DEF Requests, Types, TypeOK
  <2>5. requests[k].run # 0
    BY <2>4 DEF Types, TypeOK
  <2>6. Types' /\ Frame(c)
    BY <1>1, <2>1, <2>2, <2>4, SMTT(20) DEF Types, TypeOK, Frame
  <2>7. ClientFits(c)'
    <3>1. /\ pc'[c] = "commit" /\ contentLock'[req[c].content] = c
          /\ found'[c] = requests[k].run
      BY <2>1, <2>2, <2>4 DEF Types, TypeOK
    <3>2. QED
      BY <1>1, <2>1, <2>2, <2>3, <2>4, <2>5, <3>1
         DEF ClientFits, NoAnswer, InKey, InNonce, Missed
  <2>8. OneRunPerContent' /\ EventsAccountForKeys' /\ OutcomesFinite'
    BY <1>1, SameTables DEF EventsAccountForKeys
  <2>9. QED
    BY <2>6, <2>7, <2>8, OthersFit DEF ClientsFit
<1>4. QED
  BY <1>2, <1>3

(* An outcome stored under a free key: it joins the outcomes of its run and *)
(* status, and no others.                                                   *)
LEMMA RememberStep ==
    ASSUME IInv, NEW q \in Requests, NEW status \in {200, 201}, NEW run \in Nat,
           requests[q.key] = None,
           requests' = Remembered(q, status, run)
    PROVE  /\ Outcome(q, status, run) \in Stored
           /\ Outcome(q, status, run) # None
           /\ requests'[q.key] = Outcome(q, status, run)
           /\ \A k \in Keys : k # q.key => requests'[k] = requests[k]
           /\ q.key \notin Answered(run, status)
           /\ \A i \in Nat, t \in {200, 201} :
                 Answered(i, t)' = IF i = run /\ t = status
                                   THEN Answered(i, t) \cup {q.key} ELSE Answered(i, t)
<1> USE DEF IInv
<1>1. q.key \in Keys /\ q.content \in Contents
  BY DEF Requests
<1>2. Outcome(q, status, run) \in Stored
  BY <1>1 DEF Outcome, RequestHash, Source, Stored
<1>3. Outcome(q, status, run) # None
  BY <1>2 DEF Stored
<1>4. /\ requests'[q.key] = Outcome(q, status, run)
      /\ \A k \in Keys : k # q.key => requests'[k] = requests[k]
  BY <1>1 DEF Remembered, Types, TypeOK
<1>5. Outcome(q, status, run).status = status /\ Outcome(q, status, run).run = run
  BY DEF Outcome
<1>6. ASSUME NEW i \in Nat, NEW t \in {200, 201}
      PROVE  Answered(i, t)' = IF i = run /\ t = status
                               THEN Answered(i, t) \cup {q.key} ELSE Answered(i, t)
  BY <1>1, <1>3, <1>4, <1>5 DEF Answered
<1>7. q.key \notin Answered(run, status)
  BY DEF Answered
<1>8. QED
  BY <1>2, <1>3, <1>4, <1>6, <1>7

(* The commit of a creator or of a duplicate, but for its runs and events. *)
LEMMA CommitWrites ==
    ASSUME IInv, NEW c \in Clients, UNCHANGED expired, Commit(c),
           NEW run \in Nat \ {0}, NEW status \in {200, 201},
           found[c] = 0 => run = Len(runs) + 1 /\ status = 201,
           found[c] # 0 => run = found[c] /\ status = 200,
           \A i \in DOMAIN runs : i \in DOMAIN runs' /\ runs'[i] = runs[i],
           run \in DOMAIN runs', runs'[run] = req[c].content,
           \A i \in DOMAIN runs' : i \in DOMAIN runs \/ runs'[i] = req[c].content,
           runs' \in Seq(Contents),
           events' \in Seq([accepted: Nat, duplicates: Nat]),
           Len(events') = Len(runs')
    PROVE  /\ Types'
           /\ ClientsFit'
           /\ requests' = Remembered(req[c], status, run)
           /\ \A n \in Nonces : spent'[n] = IF n \in nonces' THEN 1 ELSE 0
           /\ objects' = objects /\ req[c].content \in objects
<1> USE DEF IInv
<1>1. /\ pc[c] = "commit" /\ req[c] \in Requests
      /\ contentLock[req[c].content] = c
      /\ keyLock[req[c].key] = c
      /\ requests[req[c].key] = None
      /\ req[c].content \in objects
      /\ req[c].nonce # None => req[c].nonce \notin nonces /\ nonceLock[req[c].nonce] = c
  BY DEF Commit, ClientsFit, ClientFits, InKey, InNonce, Missed
<1>2. /\ req[c].key \in Keys /\ req[c].content \in Contents
      /\ req[c].nonce # None => req[c].nonce \in Nonces
  BY <1>1 DEF Requests
<1>3. /\ requests' = Remembered(req[c], status, run)
      /\ SpendNonce(c)
      /\ \E a \in {Outcome(req[c], status, run), Failed} : Respond(c, a)
      /\ objects' = objects
  BY DEF Commit
<1>4. PICK a \in {Outcome(req[c], status, run), Failed} : Respond(c, a)
  BY <1>3
<1>5. /\ Outcome(req[c], status, run) \in Stored
      /\ Outcome(req[c], status, run) # None
      /\ requests'[req[c].key] = Outcome(req[c], status, run)
      /\ \A k \in Keys : k # req[c].key => requests'[k] = requests[k]
  <2>1. PICK q \in Requests : q = req[c]
    BY <1>1
  <2>2. /\ Outcome(q, status, run) \in Stored
        /\ Outcome(q, status, run) # None
        /\ requests'[q.key] = Outcome(q, status, run)
        /\ \A k \in Keys : k # q.key => requests'[k] = requests[k]
    <3>1. requests[q.key] = None /\ requests' = Remembered(q, status, run)
      BY <1>1, <1>3, <2>1
    <3>2. run \in Nat
      OBVIOUS
    <3>3. QED
      BY <3>1, <3>2, RememberStep
  <2>3. QED
    BY <2>1, <2>2
<1>6. /\ pc' = [pc EXCEPT ![c] = "idle"]
      /\ answer' = [answer EXCEPT ![c] = a]
      /\ found' = [found EXCEPT ![c] = 0]
      /\ req' = req
      /\ keyLock' \in [Keys -> Clients \cup {None}]
      /\ nonceLock' \in [Nonces -> Clients \cup {None}]
      /\ contentLock' \in [Contents -> Clients \cup {None}]
      /\ \A k \in Keys : keyLock[k] # c => keyLock'[k] = keyLock[k]
      /\ \A n \in Nonces : nonceLock[n] # c => nonceLock'[n] = nonceLock[n]
      /\ \A x \in Contents : contentLock[x] # c => contentLock'[x] = contentLock[x]
  BY <1>4, RespondStep
<1>7. /\ nonces' \subseteq Nonces
      /\ spent' \in [Nonces -> Nat]
      /\ \A n \in nonces' : n \in nonces \/ nonceLock[n] = c
      /\ \A n \in Nonces : spent'[n] = IF n \in nonces' THEN 1 ELSE 0
  <2>1. /\ nonces \subseteq Nonces /\ spent \in [Nonces -> Nat]
        /\ \A n \in Nonces : spent[n] = IF n \in nonces THEN 1 ELSE 0
    BY DEF Types, TypeOK, EventsAccountForKeys
  <2>2. PICK n : n = req[c].nonce
    OBVIOUS
  <2>3. CASE n = None
    <3>1. nonces' = nonces /\ spent' = spent
      BY <1>3, <2>2, <2>3 DEF SpendNonce
    <3>2. QED
      BY ONLY <2>1, <3>1
  <2>4. CASE n # None
    <3>1. nonces' = nonces \cup {n} /\ spent' = [spent EXCEPT ![n] = @ + 1]
      BY <1>3, <2>2, <2>4 DEF SpendNonce
    <3>2. n \in Nonces /\ n \notin nonces /\ nonceLock[n] = c
      BY <1>1, <1>2, <2>2, <2>4
    <3>3. QED
      BY ONLY <2>1, <3>1, <3>2
  <2>5. QED
    BY <2>3, <2>4
<1>8. Types'
  <2>1. requests' \in [Keys -> {None} \cup
           [hash: {"UPLOAD", "EMAIL"} \X Contents, status: {200, 201}, run: DOMAIN runs']]
    <3>1. Outcome(req[c], status, run) \in
             [hash: {"UPLOAD", "EMAIL"} \X Contents, status: {200, 201}, run: DOMAIN runs']
      BY <1>2 DEF Outcome, RequestHash, Source
    <3>2. \A k \in Keys : requests'[k] \in {None} \cup
             [hash: {"UPLOAD", "EMAIL"} \X Contents, status: {200, 201}, run: DOMAIN runs']
      <4>1. \A k \in Keys : requests[k] \in {None} \cup
             [hash: {"UPLOAD", "EMAIL"} \X Contents, status: {200, 201}, run: DOMAIN runs]
        BY DEF Types, TypeOK
      <4>2. DOMAIN runs \subseteq DOMAIN runs'
        OBVIOUS
      <4>3. \A k \in Keys : requests[k] \in {None} \cup
             [hash: {"UPLOAD", "EMAIL"} \X Contents, status: {200, 201}, run: DOMAIN runs']
        BY ONLY <4>1, <4>2
      <4>4. QED
        BY ONLY <1>5, <3>1, <4>3
    <3>3. requests' = [requests EXCEPT ![req[c].key] = Outcome(req[c], status, run)]
      BY <1>3 DEF Remembered
    <3>4. DOMAIN requests = Keys /\ requests' = [k \in Keys |-> requests'[k]]
      <4>1. DOMAIN requests = Keys
        BY DEF Types, TypeOK
      <4>2. QED
        BY ONLY <3>3, <4>1
    <3>5. QED
      BY ONLY <3>2, <3>4
  <2>2. answer' \in [Clients -> {NoAnswer, Failed, Conflict, Unauthorized} \cup Stored]
    BY <1>5, <1>6 DEF Types
  <2>3. \A d \in Clients : answer'[d].status \in {0, 200, 201, 401, 409, 503}
    BY <2>2 DEF NoAnswer, Failed, Conflict, Unauthorized, Stored
  <2>4. DOMAIN events' = DOMAIN runs'
    OBVIOUS
  <2>5. found' \in [Clients -> {0} \cup DOMAIN runs']
    BY <1>6 DEF Types, TypeOK
  <2>6. objects' \subseteq Contents /\ pc' \in [Clients -> {"idle", "fast", "put", "key", "nonce",
                                      "recheck", "create", "original", "commit"}]
    BY <1>3, <1>6 DEF Types, TypeOK
  <2>7. QED
    BY <1>6, <1>7, <2>1, <2>2, <2>3, <2>4, <2>5, <2>6 DEF Types, TypeOK
<1>9. Frame(c)
  <2>1. \A i \in DOMAIN runs' : i \in DOMAIN runs \/ contentLock[runs'[i]] = c
    BY <1>1
  <2>2. \A k \in Keys : requests'[k] = requests[k] \/ (keyLock[k] = c /\ requests[k] = None)
    BY <1>1, <1>5
  <2>3. \A d \in Clients \ {c} : /\ pc'[d] = pc[d] /\ req'[d] = req[d]
                                /\ found'[d] = found[d] /\ answer'[d] = answer[d]
    BY <1>6 DEF Types, TypeOK
  <2>4. QED
    BY <1>3, <1>6, <1>7, <2>1, <2>2, <2>3 DEF Frame
<1>10. ClientFits(c)'
  <2>1. pc'[c] = "idle" /\ answer'[c] = a /\ found'[c] = 0 /\ req'[c] = req[c]
    BY <1>6 DEF Types, TypeOK
  <2>2. Outcome(req[c], status, run).hash = RequestHash(req[c])
    BY DEF Outcome
  <2>3. a # Failed => a = requests'[req[c].key] /\ a # None /\ a.hash = RequestHash(req[c])
    BY <1>5, <2>2
  <2>4. Failed.status \notin {200, 201}
    BY DEF Failed
  <2>5. QED
    BY <1>1, <2>1, <2>3, <2>4 DEF ClientFits, Source, RequestHash, InKey, InNonce, Missed
<1>11. ClientsFit'
  BY <1>9, <1>10, OthersFit DEF ClientsFit
<1>12. QED
  BY <1>1, <1>3, <1>7, <1>8, <1>11

(* The commit of a creator: the run is the first of its content, its one    *)
(* event and its one outcome are those of this request.                     *)
LEMMA CreatorCommit ==
    ASSUME IInv, NEW c \in Clients, UNCHANGED expired, Commit(c), found[c] = 0
    PROVE  IInv'
<1> USE DEF IInv
<1>1. PICK q \in Requests : q = req[c]
  BY DEF Commit, ClientsFit, ClientFits
<1>2. PICK n : n = Len(runs) + 1
  OBVIOUS
<1>3. /\ requests[q.key] = None /\ ~Known(q.content) /\ q.content \in Contents
  BY <1>1 DEF Commit, ClientsFit, ClientFits, Missed, Requests
<1>4. /\ runs' = Append(runs, q.content)
      /\ events' = Append(events, [accepted |-> 1, duplicates |-> 0])
  BY <1>1 DEF Commit
<1>5. /\ n \in Nat \ {0}
      /\ runs' \in Seq(Contents)
      /\ DOMAIN runs' = DOMAIN runs \cup {n} /\ n \notin DOMAIN runs
      /\ \A i \in DOMAIN runs : runs'[i] = runs[i] /\ i \in Nat
      /\ runs'[n] = q.content
  <2>1. runs \in Seq(Contents)
    BY DEF Types, TypeOK
  <2>2. /\ Len(runs) \in Nat
        /\ DOMAIN runs = 1 .. Len(runs)
        /\ runs' \in Seq(Contents)
        /\ DOMAIN runs' = 1 .. Len(runs) + 1
        /\ \A i \in 1 .. Len(runs) : runs'[i] = runs[i]
        /\ runs'[Len(runs) + 1] = q.content
    BY <1>3, <1>4, <2>1, AppendProperties, LenProperties
  <2>3. QED
    BY <1>2, <2>2
<1>6. /\ events' \in Seq([accepted: Nat, duplicates: Nat])
      /\ Len(events') = Len(runs')
      /\ \A i \in DOMAIN runs : events'[i] = events[i]
      /\ events'[n] = [accepted |-> 1, duplicates |-> 0]
  <2>1. /\ events \in Seq([accepted: Nat, duplicates: Nat])
        /\ Len(events) = Len(runs)
        /\ runs \in Seq(Contents)
    BY DEF Types, TypeOK
  <2>2. [accepted |-> 1, duplicates |-> 0] \in [accepted: Nat, duplicates: Nat]
    OBVIOUS
  <2>3. QED
    BY <1>2, <1>3, <1>4, <2>1, <2>2, AppendProperties, LenProperties
<1>7. /\ Types' /\ ClientsFit'
      /\ requests' = Remembered(q, 201, n)
      /\ \A x \in Nonces : spent'[x] = IF x \in nonces' THEN 1 ELSE 0
      /\ objects' = objects /\ q.content \in objects
  BY <1>1, <1>2, <1>5, <1>6, CommitWrites
<1>8. OneRunPerContent'
  BY <1>3, <1>5, <1>7 DEF OneRunPerContent, Known
<1>9. /\ requests'[q.key] = Outcome(q, 201, n)
      /\ \A k \in Keys : k # q.key => requests'[k] = requests[k]
      /\ \A i \in Nat, t \in {200, 201} :
            Answered(i, t)' = IF i = n /\ t = 201
                              THEN Answered(i, t) \cup {q.key} ELSE Answered(i, t)
  BY <1>3, <1>5, <1>7, RememberStep
<1>10. \A k \in Keys : requests[k] # None => requests[k].run \in DOMAIN runs
  BY DEF Types, TypeOK
<1>11. Answered(n, 200)' = {} /\ Answered(n, 201)' = {q.key}
  <2>1. Answered(n, 200) = {} /\ Answered(n, 201) = {}
    BY <1>5, <1>10 DEF Answered
  <2>2. QED
    BY <1>5, <1>9, <2>1
<1>12. \A i \in DOMAIN runs, t \in {200, 201} : Answered(i, t)' = Answered(i, t)
  BY <1>5, <1>9
<1>13. /\ Cardinality({q.key}) = 1 /\ IsFiniteSet({q.key})
       /\ Cardinality({}) = 0 /\ IsFiniteSet({})
  BY FS_Singleton, FS_EmptySet
<1>14. OutcomesFinite'
  <2>1. ASSUME NEW i \in DOMAIN runs'
        PROVE  IsFiniteSet(Answered(i, 200)') /\ IsFiniteSet(Answered(i, 201)')
    <3>1. CASE i = n
      BY <1>11, <1>13, <3>1
    <3>2. CASE i \in DOMAIN runs
      BY <1>12, <3>2 DEF OutcomesFinite
    <3>3. QED
      BY <1>5, <3>1, <3>2
  <2>2. QED
    BY <2>1 DEF OutcomesFinite, Answered
<1>15. EventsAccountForKeys'
  <2>1. ASSUME NEW k \in Keys, requests'[k] # None
        PROVE  runs'[requests'[k].run] = requests'[k].hash[2]
    <3>1. CASE k = q.key
      BY <1>5, <1>9, <3>1 DEF Outcome, RequestHash
    <3>2. CASE k # q.key
      BY <1>5, <1>9, <1>10, <2>1, <3>2 DEF EventsAccountForKeys
    <3>3. QED
      BY <3>1, <3>2
  <2>2. ASSUME NEW i \in DOMAIN runs'
        PROVE  /\ Cardinality(Answered(i, 201)') = 1
               /\ events'[i] = [accepted |-> 1, duplicates |-> Cardinality(Answered(i, 200)')]
    <3>1. CASE i = n
      <4>1. events'[n] = [accepted |-> 1, duplicates |-> 0]
        BY <1>6
      <4>2. QED
        BY ONLY <1>11, <1>13, <3>1, <4>1
    <3>2. CASE i \in DOMAIN runs
      <4>1. Answered(i, 201)' = Answered(i, 201) /\ Answered(i, 200)' = Answered(i, 200)
        BY <1>12, <3>2
      <4>2. /\ Cardinality(Answered(i, 201)) = 1
            /\ events[i] = [accepted |-> 1, duplicates |-> Cardinality(Answered(i, 200))]
        BY <3>2 DEF EventsAccountForKeys
      <4>3. events'[i] = events[i]
        BY <1>6, <3>2
      <4>4. QED
        BY ONLY <4>1, <4>2, <4>3
    <3>3. QED
      BY <1>5, <3>1, <3>2
  <2>3. QED
    BY <1>7, <2>1, <2>2 DEF EventsAccountForKeys, Answered
<1>16. QED
  BY <1>7, <1>8, <1>14, <1>15

(* The commit of a duplicate: one more event and one more outcome of the    *)
(* run it found.                                                            *)
LEMMA DuplicateCommit ==
    ASSUME IInv, NEW c \in Clients, UNCHANGED expired, Commit(c), found[c] # 0
    PROVE  IInv'
<1> USE DEF IInv
<1>1. PICK q \in Requests : q = req[c]
  BY DEF Commit, ClientsFit, ClientFits
<1>2. PICK r : r = found[c]
  OBVIOUS
<1>3. /\ requests[q.key] = None
      /\ r \in DOMAIN runs /\ runs[r] = q.content
  BY <1>1, <1>2 DEF Commit, ClientsFit, ClientFits, Missed
<1>4. \A i \in DOMAIN runs : i \in Nat \ {0}
  BY DEF Types, TypeOK
<1>5. /\ events \in Seq([accepted: Nat, duplicates: Nat])
      /\ Len(events) = Len(runs) /\ DOMAIN events = DOMAIN runs /\ runs \in Seq(Contents)
  BY DEF Types, TypeOK
<1>6. events[r] \in [accepted: Nat, duplicates: Nat]
  <2>1. r \in 1 .. Len(events)
    BY <1>3, <1>5
  <2>2. QED
    BY <1>5, <2>1, ElementOfSeq
<1>7. PICK e : /\ e = [accepted |-> events[r].accepted, duplicates |-> events[r].duplicates + 1]
               /\ events' = [events EXCEPT ![r] = e]
  <2>1. events' = [events EXCEPT ![r].duplicates = events[r].duplicates + 1]
    BY <1>2 DEF Commit
  <2>2. [events[r] EXCEPT !.duplicates = events[r].duplicates + 1] =
           [accepted |-> events[r].accepted, duplicates |-> events[r].duplicates + 1]
    BY <1>6
  <2>3. QED
    BY <2>1, <2>2
<1>8. e \in [accepted: Nat, duplicates: Nat] /\ runs' = runs
  BY <1>6, <1>7 DEF Commit
<1>9. events' \in Seq([accepted: Nat, duplicates: Nat]) /\ Len(events') = Len(events)
  BY <1>3, <1>5, <1>7, <1>8, ExceptSeq
<1>10. /\ Types' /\ ClientsFit'
       /\ requests' = Remembered(q, 200, r)
       /\ \A x \in Nonces : spent'[x] = IF x \in nonces' THEN 1 ELSE 0
       /\ objects' = objects
  <2>1. /\ r \in Nat \ {0} /\ found[c] # 0 /\ r = found[c]
        /\ r \in DOMAIN runs'
    BY <1>2, <1>3, <1>4, <1>8
  <2>2. runs'[r] = req[c].content
    BY <1>1, <1>3, <1>8
  <2>3. /\ \A i \in DOMAIN runs : i \in DOMAIN runs' /\ runs'[i] = runs[i]
        /\ \A i \in DOMAIN runs' : i \in DOMAIN runs \/ runs'[i] = req[c].content
        /\ runs' \in Seq(Contents)
    BY <1>5, <1>8
  <2>4. Len(events') = Len(runs')
    BY <1>5, <1>8, <1>9
  <2>5. /\ Types' /\ ClientsFit'
        /\ requests' = Remembered(req[c], 200, r)
        /\ \A x \in Nonces : spent'[x] = IF x \in nonces' THEN 1 ELSE 0
        /\ objects' = objects
    BY <1>9, <2>1, <2>2, <2>3, <2>4, CommitWrites
  <2>6. QED
    BY <1>1, <2>5
<1>11. OneRunPerContent'
  BY <1>7, <1>8, <1>10 DEF OneRunPerContent
<1>12. /\ requests'[q.key] = Outcome(q, 200, r)
       /\ \A k \in Keys : k # q.key => requests'[k] = requests[k]
       /\ q.key \notin Answered(r, 200)
       /\ \A i \in Nat, t \in {200, 201} :
             Answered(i, t)' = IF i = r /\ t = 200
                               THEN Answered(i, t) \cup {q.key} ELSE Answered(i, t)
  BY <1>3, <1>4, <1>10, RememberStep
<1>13. /\ Answered(r, 200)' = Answered(r, 200) \cup {q.key}
       /\ \A i \in DOMAIN runs : i # r => Answered(i, 200)' = Answered(i, 200)
       /\ \A i \in DOMAIN runs : Answered(i, 201)' = Answered(i, 201)
  BY <1>3, <1>4, <1>12
<1>14. /\ IsFiniteSet(Answered(r, 200) \cup {q.key})
       /\ Cardinality(Answered(r, 200) \cup {q.key}) = Cardinality(Answered(r, 200)) + 1
  <2>1. IsFiniteSet(Answered(r, 200))
    BY <1>3 DEF OutcomesFinite
  <2>2. QED
    BY <1>12, <2>1, FS_AddElement
<1>15. OutcomesFinite'
  <2>1. ASSUME NEW i \in DOMAIN runs
        PROVE  IsFiniteSet(Answered(i, 200)') /\ IsFiniteSet(Answered(i, 201)')
    BY <1>13, <1>14 DEF OutcomesFinite
  <2>2. QED
    BY <1>7, <1>8, <2>1 DEF OutcomesFinite, Answered
<1>16. EventsAccountForKeys'
  <2>1. ASSUME NEW k \in Keys, requests'[k] # None
        PROVE  runs'[requests'[k].run] = requests'[k].hash[2]
    <3>1. CASE k = q.key
      BY <1>3, <1>7, <1>8, <1>12, <3>1 DEF Outcome, RequestHash
    <3>2. CASE k # q.key
      BY <1>7, <1>8, <1>12, <2>1, <3>2 DEF EventsAccountForKeys
    <3>3. QED
      BY <3>1, <3>2
  <2>2. ASSUME NEW i \in DOMAIN runs'
        PROVE  /\ Cardinality(Answered(i, 201)') = 1
               /\ events'[i] = [accepted |-> 1, duplicates |-> Cardinality(Answered(i, 200)')]
    <3>1. events[r] = [accepted |-> 1, duplicates |-> Cardinality(Answered(r, 200))]
      BY <1>3 DEF EventsAccountForKeys
    <3>2. e = [accepted |-> 1, duplicates |-> Cardinality(Answered(r, 200)) + 1]
      BY <1>7, <1>8, <3>1
    <3>3. \A j \in DOMAIN runs : events'[j] = IF j = r THEN e ELSE events[j]
      BY <1>5, <1>7, <1>8
    <3>4. i \in DOMAIN runs
      BY <1>7, <1>8
    <3>5. Cardinality(Answered(i, 201)') = 1
      <4>1. Answered(i, 201)' = Answered(i, 201)
        BY <1>13, <3>4
      <4>2. Cardinality(Answered(i, 201)) = 1
        BY <3>4 DEF EventsAccountForKeys
      <4>3. QED
        BY ONLY <4>1, <4>2
    <3>6. CASE i = r
      <4>1. events'[i] = e
        BY <3>3, <3>4, <3>6
      <4>2. QED
        BY ONLY <1>13, <1>14, <3>2, <3>5, <3>6, <4>1
    <3>7. CASE i # r
      <4>1. Answered(i, 200)' = Answered(i, 200)
        BY <1>13, <3>4, <3>7
      <4>2. events'[i] = [accepted |-> 1, duplicates |-> Cardinality(Answered(i, 200))]
        BY <3>3, <3>4, <3>7 DEF EventsAccountForKeys
      <4>3. QED
        BY ONLY <3>5, <4>1, <4>2
    <3>8. QED
      BY <3>6, <3>7
  <2>3. QED
    BY <1>10, <2>1, <2>2 DEF EventsAccountForKeys, Answered
<1>17. QED
  BY <1>10, <1>11, <1>15, <1>16

-----------------------------------------------------------------------------
(* The inductive invariant. *)
THEOREM Invariant == Spec => []IInv
<1>1. Init => IInv
  <2> SUFFICES ASSUME Init
               PROVE  IInv
    OBVIOUS
  <2>1. DOMAIN runs = {} /\ runs \in Seq(Contents) /\ Len(runs) = 0
        /\ events \in Seq([accepted: Nat, duplicates: Nat]) /\ Len(events) = 0
    BY DEF Init
  <2>2. Types
    BY <2>1 DEF Init, Types, TypeOK, NoAnswer
  <2>3. ClientsFit
    BY DEF Init, ClientsFit, ClientFits, InKey, InNonce, Missed, NoAnswer
  <2>4. OneRunPerContent /\ EventsAccountForKeys /\ OutcomesFinite
    BY <2>1 DEF Init, OneRunPerContent, EventsAccountForKeys, OutcomesFinite
  <2>5. QED
    BY <2>2, <2>3, <2>4 DEF IInv
<1>2. IInv /\ [Next]_vars => IInv'
  <2> SUFFICES ASSUME IInv, [Next]_vars
               PROVE  IInv'
    OBVIOUS
  <2>1. ASSUME NEW c \in Clients, Step(c), UNCHANGED expired
        PROVE  IInv'
    <3>1. CASE FastReplay(c) \/ Recheck(c)
      <4>1. PICK a \in {Replay(req[c]), Conflict, Failed} : Respond(c, a)
        BY <3>1 DEF FastReplay, Recheck
      <4>2. requests[req[c].key] # None /\ pc[c] # "idle"
        BY <3>1 DEF FastReplay, Recheck
      <4>3. /\ UNCHANGED <<objects, runs, requests, events>>
            /\ \/ UNCHANGED <<nonces, spent>>
               \/ SpendNonce(c) /\ pc[c] = "recheck"
        BY <3>1 DEF FastReplay, Recheck, tables
      <4>4. QED
        BY <2>1, <4>1, <4>2, <4>3, EndStep
    <3>2. CASE ClaimNonce(c) /\ req[c].nonce \in nonces
      BY <2>1, <3>2, EndStep DEF ClaimNonce, tables
    <3>3. CASE \/ FastMiss(c) \/ Put(c) \/ LockKey(c) \/ RecheckMiss(c) \/ Create(c)
               \/ ClaimNonce(c) /\ req[c].nonce \notin nonces
      BY <2>1, <3>3, AdvanceStep
    <3>4. CASE Original(c)
      BY <2>1, <3>4, OriginalStep
    <3>5. CASE Commit(c)
      BY <2>1, <3>5, CreatorCommit, DuplicateCommit
    <3>6. QED
      BY <2>1, <3>1, <3>2, <3>3, <3>4, <3>5 DEF Step
  <2>2. ASSUME NEW c \in Clients, Fail(c), UNCHANGED expired
        PROVE  IInv'
    BY <2>2, EndStep DEF Fail, tables
  <2>3. QED
    BY <2>1, <2>2, ReceiveStep DEF Next
<1>3. QED
  BY <1>1, <1>2, PTL DEF Spec

(* Every row, lock, request and answer keeps its type. *)
THEOREM TypeCorrect == Spec => []TypeOK
BY Invariant, PTL DEF IInv, Types

(* Simultaneous requests with new keys never give a content two runs, and   *)
(* every run can read its document.                                         *)
THEOREM RunsAreUnique == Spec => []OneRunPerContent
BY Invariant, PTL DEF IInv

(* The events of every run, its outcomes and the spent nonces add up.       *)
THEOREM EventsAlwaysAccount == Spec => []EventsAccountForKeys
BY Invariant, PTL DEF IInv

(* A client is told about success only what its key replays for ever: the   *)
(* stored outcome of the same source and content.                          *)
AnswersAreStored ==
    \A c \in Clients : answer[c].status \in {200, 201} =>
        /\ answer[c] = requests[req[c].key]
        /\ answer[c].hash = RequestHash(req[c])

(* Success is reported only of an outcome stored under the request's key    *)
(* for the same source and content.                                         *)
THEOREM AnswersStayStored == Spec => []AnswersAreStored
<1>1. IInv => AnswersAreStored
  BY DEF IInv, ClientsFit, ClientFits, AnswersAreStored
<1>2. QED
  BY <1>1, Invariant, PTL

-----------------------------------------------------------------------------
(* The refinement: a request is one step of the register. *)

Waiting == {c \in Clients : pc[c] # "idle"}
Busy == {"fast", "put", "key", "nonce", "recheck", "create", "original", "commit"}

(* The two modules speak of the same requests and answers. *)
LEMMA SameWords ==
    /\ Register!Requests = Requests
    /\ \A q : Register!Identity(q) = RequestHash(q)
    /\ \A q, s, i : Register!Outcome(q, s, i) = Outcome(q, s, i)
    /\ Register!Nothing(0) = NoAnswer
    /\ Register!Nothing(401) = Unauthorized
    /\ Register!Nothing(409) = Conflict
    /\ Register!Nothing(503) = Failed
BY DEF Register!Requests, Requests, Register!Identity, RequestHash, Source,
       Register!Outcome, Outcome, Register!Nothing, NoAnswer, Unauthorized, Conflict, Failed

(* An answer ends the wait of its client. *)
LEMMA RespondFinishes ==
    ASSUME IInv, NEW c \in Clients, pc[c] # "idle", NEW a, Respond(c, a)
    PROVE  /\ c \in Waiting
           /\ Register!Finish(c, a)
<1>1. /\ pc' = [pc EXCEPT ![c] = "idle"]
      /\ answer' = [answer EXCEPT ![c] = a]
      /\ req' = req
  BY DEF Respond, Goto
<1>2. Waiting' = Waiting \ {c}
  BY <1>1 DEF Waiting, IInv, Types, TypeOK
<1>3. QED
  BY <1>1, <1>2 DEF Waiting, Register!Finish

(* A step that neither answers nor writes a table is none of the register. *)
LEMMA Silent ==
    ASSUME IInv, NEW c \in Clients, NEW label \in Busy,
           pc[c] # "idle", pc' = [pc EXCEPT ![c] = label],
           UNCHANGED <<runs, requests, nonces, req, answer>>
    PROVE  UNCHANGED Register!vars
<1>1. Waiting' = Waiting
  BY DEF Waiting, Busy, IInv, Types, TypeOK
<1>2. QED
  BY <1>1 DEF Waiting, Register!vars, Register!register

(* A handler takes a request up, or turns it away. *)
LEMMA AskedStep ==
    ASSUME IInv, NEW c \in Clients, NEW q \in Requests,
           Upload(c, q) \/ Email(c, q) \/ EmailRefused(c, q)
    PROVE  Register!Next
<1>1. c \in Clients \ Waiting /\ q \in Register!Requests
  BY SameWords DEF Upload, Email, EmailRefused, Waiting
<1>2. CASE Upload(c, q) \/ Email(c, q)
  <2>1. PICK label \in {"fast", "put"} : Receive(c, q, label)
    BY <1>2 DEF Upload, Email
  <2>2. Waiting' = Waiting \cup {c}
    BY <2>1 DEF Receive, Goto, Waiting, IInv, Types, TypeOK
  <2>3. Register!Ask(c, q)
    BY <2>1, <2>2, SameWords DEF Receive, tables, Waiting, Register!Ask, Register!register
  <2>4. QED
    BY <1>1, <2>3 DEF Register!Next, Waiting
<1>3. CASE EmailRefused(c, q)
  <2>1. q.nonce # None
    BY <1>3, IngestionAssumption DEF EmailRefused, IInv, Types, TypeOK
  <2>2. Register!TurnAway(c, q)
    BY <1>3, <2>1, SameWords
       DEF EmailRefused, tables, Register!TurnAway, Register!register
  <2>3. QED
    BY <1>1, <2>2 DEF Register!Next, Waiting
<1>4. QED
  BY <1>2, <1>3

(* A failure that leaves the tables alone is a request given up. *)
LEMMA GivesUp ==
    ASSUME IInv, NEW c \in Clients, pc[c] # "idle", Respond(c, Failed),
           UNCHANGED <<runs, requests, nonces>>
    PROVE  Register!Next
<1>1. c \in Waiting /\ Register!Finish(c, Register!Nothing(503))
  BY RespondFinishes, SameWords
<1>2. Register!GiveUp(c)
  BY <1>1 DEF Register!GiveUp, Register!register
<1>3. QED
  BY <1>1, <1>2 DEF Register!Next, Waiting

(* A conflict refuses a key that another request owns, or a spent nonce. *)
LEMMA Refuses ==
    ASSUME IInv, NEW c \in Clients, pc[c] # "idle", Respond(c, Conflict),
           UNCHANGED <<runs, requests, nonces>>,
           \/ /\ requests[req[c].key] # None
              /\ requests[req[c].key].hash # RequestHash(req[c])
           \/ req[c].nonce \in nonces
    PROVE  Register!Next
<1>1. c \in Waiting /\ Register!Finish(c, Register!Nothing(409))
  BY RespondFinishes, SameWords
<1>2. Register!Refuse(c)
  BY <1>1, SameWords DEF Register!Refuse, Register!register
<1>3. QED
  BY <1>1, <1>2 DEF Register!Next, Waiting

(* A replay repeats what the key has decided and spends only the request's  *)
(* own nonce, which an upload does not have; it may be heard as a failure.  *)
LEMMA Repeats ==
    ASSUME IInv, NEW c \in Clients, pc[c] # "idle",
           NEW a \in {requests[req[c].key], Failed}, Respond(c, a),
           UNCHANGED <<runs, requests>>,
           requests[req[c].key] # None,
           requests[req[c].key].hash = RequestHash(req[c]),
           req[c].nonce \notin nonces,
           nonces' = nonces \cup ({req[c].nonce} \ {None})
    PROVE  Register!Next
<1>1. c \in Waiting /\ Register!Finish(c, a)
  BY RespondFinishes
<1>2. Register!FinishWith(c, requests[req[c].key])
  BY <1>1, SameWords DEF Register!FinishWith
<1>3. Register!Repeat(c)
  BY <1>2, SameWords DEF Register!Repeat, Register!Unspent, Register!Consume
<1>4. QED
  BY <1>1, <1>3 DEF Register!Next, Waiting

(* A commit decides the key, for a content's first run or for the run it    *)
(* already has.                                                             *)
LEMMA Decides ==
    ASSUME IInv, NEW c \in Clients, Commit(c)
    PROVE  Register!Next
<1> DEFINE q == req[c]
           status == IF found[c] = 0 THEN 201 ELSE 200
           run == IF found[c] = 0 THEN Len(runs) + 1 ELSE found[c]
<1>1. /\ pc[c] = "commit"
      /\ requests' = [requests EXCEPT ![q.key] = Outcome(q, status, run)]
      /\ runs' = IF found[c] = 0 THEN Append(runs, q.content) ELSE runs
      /\ SpendNonce(c)
      /\ \E a \in {Outcome(q, status, run), Failed} : Respond(c, a)
  BY DEF Commit, Remembered
<1>2. /\ requests[q.key] = None
      /\ q.nonce # None => q.nonce \notin nonces
      /\ IF found[c] = 0 THEN ~Known(q.content)
         ELSE found[c] \in DOMAIN runs /\ runs[found[c]] = q.content
  BY <1>1 DEF IInv, ClientsFit, ClientFits, Missed, InNonce
<1>3. None \notin nonces
  BY IngestionAssumption DEF IInv, Types, TypeOK
<1>4. Register!Unspent(q) /\ Register!Consume(q)
  BY <1>1, <1>2, <1>3 DEF SpendNonce, Register!Unspent, Register!Consume
<1>5. c \in Waiting /\ Register!FinishWith(c, Outcome(q, status, run))
  <2>1. PICK a \in {Outcome(q, status, run), Failed} : Respond(c, a)
    BY <1>1
  <2>2. c \in Waiting /\ Register!Finish(c, a)
    BY <1>1, <2>1, RespondFinishes
  <2>3. QED
    BY <2>1, <2>2, SameWords DEF Register!FinishWith
<1> HIDE DEF q
<1>6. Register!Decide(c, status, run)
  <2>1. /\ requests[q.key] = None
        /\ requests' = [requests EXCEPT ![q.key] = Register!Outcome(q, status, run)]
        /\ Register!FinishWith(c, Register!Outcome(q, status, run))
    BY <1>1, <1>2, <1>5, SameWords
  <2>2. QED
    BY ONLY <1>4, <2>1 DEF Register!Decide, q
<1>7. CASE found[c] = 0
  <2>1. /\ \A i \in DOMAIN runs : runs[i] # req[c].content
        /\ runs' = Append(runs, req[c].content)
        /\ Register!Decide(c, 201, Len(runs) + 1)
    BY <1>1, <1>2, <1>6, <1>7 DEF Known, q
  <2>2. Register!Accept(c)
    BY <2>1 DEF Register!Accept
  <2>3. QED
    BY <1>5, <2>2 DEF Register!Next, Waiting
<1>8. CASE found[c] # 0
  <2>1. /\ found[c] \in DOMAIN runs /\ runs[found[c]] = req[c].content
        /\ Register!Decide(c, 200, found[c])
        /\ runs' = runs
    BY <1>1, <1>2, <1>6, <1>8 DEF q
  <2>2. Register!Duplicate(c)
    BY <2>1 DEF Register!Duplicate
  <2>3. QED
    BY <1>5, <2>2 DEF Register!Next, Waiting
<1>9. QED
  BY <1>7, <1>8

(* Every step of a handler is one of the register or leaves it alone. *)
LEMMA HandlerStep ==
    ASSUME IInv, NEW c \in Clients, Step(c)
    PROVE  [Register!Next]_(Register!vars)
<1>1. CASE \/ FastMiss(c) \/ Put(c) \/ LockKey(c) \/ RecheckMiss(c) \/ Create(c)
           \/ ClaimNonce(c) /\ req[c].nonce \notin nonces
           \/ Original(c) /\ ~Respond(c, Failed)
  <2>1. /\ pc[c] # "idle"
        /\ UNCHANGED <<runs, requests, nonces, req, answer>>
        /\ \E label \in Busy : pc' = [pc EXCEPT ![c] = label]
    <3>1. CASE FastMiss(c)
      BY <3>1 DEF FastMiss, Goto, Busy, tables
    <3>2. CASE Put(c)
      BY <3>2 DEF Put, Goto, Busy, tables
    <3>3. CASE LockKey(c)
      BY <3>3 DEF LockKey, Goto, Busy, tables
    <3>4. CASE RecheckMiss(c)
      BY <3>4 DEF RecheckMiss, Goto, Busy, tables
    <3>5. CASE Create(c)
      BY <3>5 DEF Create, Goto, Busy, tables
    <3>6. CASE ClaimNonce(c) /\ req[c].nonce \notin nonces
      BY <3>6 DEF ClaimNonce, Goto, Busy, tables
    <3>7. CASE Original(c) /\ ~Respond(c, Failed)
      BY <3>7 DEF Original, Goto, Busy, tables
    <3>8. QED
      BY <1>1, <3>1, <3>2, <3>3, <3>4, <3>5, <3>6, <3>7
  <2>2. QED
    BY <2>1, Silent
<1>2. CASE FastReplay(c)
  <2>1. /\ pc[c] = "fast" /\ requests[req[c].key] # None
        /\ Respond(c, Replay(req[c])) /\ UNCHANGED <<runs, requests, nonces>>
    BY <1>2 DEF FastReplay, tables
  <2>2. req[c].nonce = None /\ None \notin nonces
    BY <2>1, IngestionAssumption DEF IInv, ClientsFit, ClientFits, Types, TypeOK
  <2>3. CASE requests[req[c].key].hash = RequestHash(req[c])
    BY <2>1, <2>2, <2>3, Repeats DEF Replay
  <2>4. CASE requests[req[c].key].hash # RequestHash(req[c])
    BY <2>1, <2>4, Refuses DEF Replay
  <2>5. QED
    BY <2>3, <2>4
<1>3. CASE ClaimNonce(c) /\ req[c].nonce \in nonces
  BY <1>3, Refuses DEF ClaimNonce, tables
<1>4. CASE Recheck(c)
  <2>1. /\ pc[c] = "recheck" /\ requests[req[c].key] # None
        /\ UNCHANGED <<runs, requests>>
    BY <1>4 DEF Recheck
  <2>2. req[c] \in Requests /\ (req[c].nonce # None => req[c].nonce \notin nonces)
    BY <2>1 DEF IInv, ClientsFit, ClientFits, InNonce
  <2>3. None \notin nonces
    BY IngestionAssumption DEF IInv, Types, TypeOK
  <2>4. CASE requests[req[c].key].hash = RequestHash(req[c])
    <3>1. Replay(req[c]) = requests[req[c].key] /\ Replay(req[c]) # Conflict
      <4>1. requests[req[c].key] \in Stored
        BY <2>1, <2>2 DEF Requests, Stored, IInv, Types, TypeOK
      <4>2. QED
        BY <2>4, <4>1 DEF Replay, Conflict, Stored
    <3>2. /\ \E a \in {requests[req[c].key], Failed} : Respond(c, a)
          /\ nonces' = nonces \cup ({req[c].nonce} \ {None})
      BY <1>4, <3>1 DEF Recheck, SpendNonce
    <3>3. QED
      BY <2>1, <2>2, <2>3, <2>4, <3>2, Repeats
  <2>5. CASE requests[req[c].key].hash # RequestHash(req[c])
    BY <1>4, <2>1, <2>5, Refuses DEF Recheck, Replay
  <2>6. QED
    BY <2>4, <2>5
<1>5. CASE Original(c) /\ Respond(c, Failed)
  BY <1>5, GivesUp DEF Original, tables
<1>6. CASE Commit(c)
  BY <1>6, Decides
<1>7. QED
  BY <1>1, <1>2, <1>3, <1>4, <1>5, <1>6 DEF Step

(* Whatever the handlers interleave, lose or fail, their clients see an     *)
(* IdempotentRegister: every request takes effect once, in one step, or not *)
(* at all.                                                                  *)
THEOREM RegisterImplemented == Spec => ImplementsRegister
<1>1. Init => Register!Init
  <2> SUFFICES ASSUME Init
               PROVE  Register!Init
    OBVIOUS
  <2>1. Waiting = {}
    BY DEF Init, Waiting
  <2>2. QED
    BY <2>1, SameWords DEF Init, Waiting, Register!Init
<1>2. IInv /\ [Next]_vars => [Register!Next]_(Register!vars)
  <2> SUFFICES ASSUME IInv, [Next]_vars
               PROVE  [Register!Next]_(Register!vars)
    OBVIOUS
  <2>1. CASE \E c \in Clients, q \in Requests :
                 Upload(c, q) \/ Email(c, q) \/ EmailRefused(c, q)
    BY <2>1, AskedStep
  <2>2. CASE \E c \in Clients : Step(c)
    BY <2>2, HandlerStep
  <2>3. CASE \E c \in Clients : Fail(c)
    BY <2>3, GivesUp DEF Fail, tables
  <2>4. CASE (\E n \in Nonces : SignatureExpires(n)) \/ UNCHANGED vars
    <3>1. UNCHANGED <<runs, requests, nonces, pc, req, answer>>
      BY <2>4 DEF SignatureExpires, vars, handler, tables
    <3>2. QED
      BY <3>1 DEF Register!vars, Register!register
  <2>5. QED
    BY <2>1, <2>2, <2>3, <2>4 DEF Next
<1>3. QED
  BY <1>1, <1>2, Invariant, PTL DEF Spec, ImplementsRegister, Register!Spec

=============================================================================
