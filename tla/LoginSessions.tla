--------------------------- MODULE LoginSessions ---------------------------
(***************************************************************************)
(* Role logins, src/src/invoiceops_agent/api/auth_store.py, beside the     *)
(* seeding that rotates credentials, db/auth_seed.py.  A login reads its   *)
(* account FOR UPDATE and verifies the password on another thread while    *)
(* its transaction is open; a session is a row under the digest of a token *)
(* derived from the account and the request's idempotency key.  Time is    *)
(* counted in steps of the lock's fifteen minutes.                         *)
(***************************************************************************)
EXTENDS Naturals, FiniteSets

CONSTANTS
  Roles,         \* the accounts, one per role
  Requests,      \* login requests in flight at once
  Keys,          \* idempotency keys
  Secrets,       \* values of the session secret, the first in use
  MaxFailures,   \* _MAX_FAILURES
  LockTime,      \* _LOCK_MINUTES
  SessionTime,   \* auth_session_hours
  NoOne,
  MaxTime,       \* bound: the clock
  Rotations,     \* bound: credential changes
  Guesses        \* bound: wrong passwords sent

ASSUME SessionsAssumption ==
  /\ MaxFailures \in Nat \ {0} /\ LockTime \in Nat \ {0} /\ SessionTime \in Nat \ {0}
  /\ MaxTime \in Nat /\ Rotations \in Nat /\ Guesses \in Nat
  /\ NoOne \notin Requests

VARIABLES
  users,      \* role -> [password, failed, locked]: a row of auth_users
  sessions,   \* committed rows of auth_sessions: [role, key, secret, expires, password]
  holder,     \* role -> the request that has the row locked, or NoOne
  login,      \* request -> [role, guess, key, row] while its transaction is open, or NoOne
  clock,
  secret,     \* of the running API
  wrong,      \* role -> [count, last]: wrong guesses since the last success or rotation,
              \* and when the last was answered
  sent        \* [rotations, guesses]

lvars == <<users, sessions, holder, login, clock, secret, wrong, sent>>

NoLock == 0   \* locked_until of an account that is not locked

LInit ==
  /\ users = [r \in Roles |-> [password |-> 1, failed |-> 0, locked |-> NoLock]]
  /\ sessions = {}
  /\ holder = [r \in Roles |-> NoOne]
  /\ login = [q \in Requests |-> NoOne]
  /\ clock = 1
  /\ secret \in Secrets
  /\ wrong = [r \in Roles |-> [count |-> 0, last |-> 0]]
  /\ sent = [rotations |-> 0, guesses |-> 0]

-----------------------------------------------------------------------------

\* Mutant: the account is read without a lock
ReadsUnlocked(q, r) == TRUE

\* SELECT ... FOR UPDATE is granted
ReadsLocked(q, r) == holder[r] = NoOne

\* login: read the account; the guess is the current password, an earlier one or a wrong one
BeginLogin(q, r, guess, key) ==
  /\ login[q] = NoOne /\ ReadsLocked(q, r)
  /\ guess = 0 => sent.guesses < Guesses
  /\ holder' = [holder EXCEPT ![r] = q]
  /\ login' = [login EXCEPT ![q] = [role |-> r, guess |-> guess, key |-> key, row |-> users[r]]]
  /\ sent' = IF guess = 0 THEN [sent EXCEPT !.guesses = @ + 1] ELSE sent
  /\ UNCHANGED <<users, sessions, clock, secret, wrong>>

Done(q) == /\ login' = [login EXCEPT ![q] = NoOne]
           /\ holder' = [r \in Roles |-> IF holder[r] = q THEN NoOne ELSE holder[r]]

Valid(q) == login[q].guess = login[q].row.password

\* Mutant: an expired lock forgives the failures before it
LockedForgetful(row) == row.locked > clock /\ row.failed < MaxFailures

\* locked_until > now
Locked(row) == row.locked > clock

\* The generic 401 of a locked account, raised inside the transaction: nothing is written
RefuseLocked(q) ==
  /\ login[q] # NoOne /\ Locked(login[q].row)
  /\ Done(q)
  /\ UNCHANGED <<users, sessions, clock, secret, wrong, sent>>

\* A wrong password is counted and committed before the generic 401; the count is kept when a
\* lock has expired, so that one more failure locks again at once
Failure(row) ==
  [row EXCEPT !.failed = @ + 1,
              !.locked = IF row.failed + 1 >= MaxFailures THEN clock + LockTime ELSE NoLock]
CountFailure(q) ==
  /\ login[q] # NoOne /\ ~Locked(login[q].row) /\ ~Valid(q)
  /\ LET r == login[q].role
     IN /\ users' = [users EXCEPT ![r].failed = Failure(login[q].row).failed,
                                  ![r].locked = Failure(login[q].row).locked]
        /\ wrong' = [wrong EXCEPT ![r] = [count |-> @.count + 1, last |-> clock]]
  /\ Done(q)
  /\ UNCHANGED <<sessions, clock, secret, sent>>

Token(s) == <<s.role, s.key, s.secret>>

\* The right password: the counter is cleared and the session inserted unless its token is
\* there; a token that has expired is refused with 409, and the transaction rolled back
OpenSession(q) ==
  /\ login[q] # NoOne /\ ~Locked(login[q].row) /\ Valid(q)
  /\ LET r == login[q].role
         new == [role |-> r, key |-> login[q].key, secret |-> secret,
                 expires |-> clock + SessionTime, password |-> login[q].guess]
         same == {s \in sessions : Token(s) = Token(new)}
     IN IF \E s \in same : s.expires <= clock
        THEN UNCHANGED <<users, sessions, wrong>>
        ELSE /\ users' = [users EXCEPT ![r].failed = 0, ![r].locked = NoLock]
             /\ wrong' = [wrong EXCEPT ![r] = [count |-> 0, last |-> 0]]
             /\ sessions' = IF same = {} THEN sessions \cup {new} ELSE sessions
  /\ Done(q)
  /\ UNCHANGED <<clock, secret, sent>>

\* The connection is lost, or the statement or lock times out: 503, rolled back
LoseLogin(q) ==
  /\ login[q] # NoOne
  /\ Done(q)
  /\ UNCHANGED <<users, sessions, clock, secret, wrong, sent>>

Logout(s) ==
  /\ s \in sessions
  /\ sessions' = sessions \ {s}
  /\ UNCHANGED <<users, holder, login, clock, secret, wrong, sent>>

\* seed_auth_users with a new password for the role: one transaction that locks the row, changes
\* it and deletes the account's sessions
SessionsAfterRotation(r) == {s \in sessions : s.role # r}
Seed(r) ==
  /\ holder[r] = NoOne /\ sent.rotations < Rotations
  /\ users' = [users EXCEPT ![r] = [password |-> @.password + 1, failed |-> 0, locked |-> NoLock]]
  /\ sessions' = SessionsAfterRotation(r)
  /\ wrong' = [wrong EXCEPT ![r] = [count |-> 0, last |-> 0]]
  /\ sent' = [sent EXCEPT !.rotations = @ + 1]
  /\ UNCHANGED <<holder, login, clock, secret>>

\* The API is restarted with another session secret; its open logins are lost
Restart ==
  /\ sent.rotations < Rotations
  /\ secret' \in Secrets \ {secret}
  /\ login' = [q \in Requests |-> NoOne] /\ holder' = [r \in Roles |-> NoOne]
  /\ sent' = [sent EXCEPT !.rotations = @ + 1]
  /\ UNCHANGED <<users, sessions, clock, wrong>>

Tick == clock < MaxTime /\ clock' = clock + 1 /\ UNCHANGED <<users, sessions, holder, login, secret, wrong, sent>>

LNext ==
  \/ \E q \in Requests, r \in Roles, guess \in 0 .. 1 + Rotations, key \in Keys :
       guess \in {0} \cup 1 .. users[r].password /\ BeginLogin(q, r, guess, key)
  \/ \E q \in Requests : RefuseLocked(q) \/ CountFailure(q) \/ OpenSession(q) \/ LoseLogin(q)
  \/ \E s \in sessions : Logout(s)
  \/ \E r \in Roles : Seed(r)
  \/ Restart \/ Tick

\* resolve: the account of a token that is there, of the running secret and not expired
Resolved(token) ==
  {s.role : s \in {s \in sessions : Token(s) = token /\ s.secret = secret /\ s.expires > clock}}

-----------------------------------------------------------------------------

\* No session outlives the password it was opened with: the seed and a login that has already
\* read the old hash are ordered by the account's row, so every session that resolves was
\* opened with the password the account has now.
SessionsKnowThePassword ==
  \A s \in sessions : Resolved(Token(s)) # {} => s.password = users[s.role].password

\* A session opens on an account only while fewer than five wrong passwords came in since the
\* last success or rotation, or after fifteen minutes without one, and no failure is lost to a
\* login beside it: every wrong password answered is in the row's counter.
FiveFailuresLock ==
  [][\A r \in Roles :
       /\ wrong[r].count >= MaxFailures /\ wrong'[r].count = 0 /\ sent' = sent =>
            clock >= wrong[r].last + LockTime
       /\ users'[r].failed = wrong'[r].count]_lvars
=============================================================================
