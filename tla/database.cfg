SPECIFICATION Spec
CHECK_DEADLOCK FALSE
CONSTANTS
  Null = Null
  NoOne = NoOne
  Invoices = {v1, v2}
  Uploads = {u1}
  Original <- MCOriginal
  Models = {m1, m2}
  MaxAttempts = 3
  Tries = 2
  Faults = 1
  Roles = {manager}
  Requests = {q1, q2}
  Keys = {k1}
  Secrets = {s1, s2}
  MaxFailures = 2
  LockTime = 2
  SessionTime = 2
  MaxTime = 5
  Rotations = 1
  Guesses = 3
INVARIANTS
  NumberStaysFree
  NearDuplicateIsSeen
  SessionsKnowThePassword
PROPERTIES
  EveryRunSettles
  FiveFailuresLock
