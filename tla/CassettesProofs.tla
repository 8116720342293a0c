-------------------------- MODULE CassettesProofs --------------------------
(***************************************************************************)
(* Proofs about Cassettes, for every set of calls, paths and digests,      *)
(* every set of committed cassettes and every number of attempts.          *)
(***************************************************************************)
EXTENDS Cassettes, SequenceTheorems, TLAPS

USE CassettesAssumption

CassettesSpec == CassettesInit /\ [][CassettesNext]_cassettes

Labels == {"waiting", "exists", "open", "recheck", "read", "calling", "publish", "release",
           "over", "done", "dead"}
States == [at: Labels, mode: {"record", "replay"}, path: Paths, digest: Digests,
           reserved: BOOLEAN, recordable: BOOLEAN, late: BOOLEAN, gone: BOOLEAN,
           kept: Seq(Kinds), replay: Seq(Kinds)]

Types ==
    /\ call \in [Calls -> States]
    /\ files = [p \in Paths |-> files[p]]
    /\ recording \subseteq Paths

(* A call in state s has the reservation of its path, also when it dies. *)
Holds(s) == s.at = "recheck" \/ (s.reserved /\ s.at # "over")

(* A call that goes on replaying. *)
Replaying(s) == (s.at = "calling" /\ s.mode = "replay" /\ s.recordable) \/ s.at = "done"

(* What the state of a call says of itself and of its file. *)
StateFits(s) ==
    /\ s.at \in Busy => ~s.reserved /\ s.kept = <<>>
    /\ s.at \in {"exists", "open", "recheck"} => s.mode = "record"
    /\ s.at = "read" => s.mode = "replay"
    /\ s.at = "calling" /\ s.mode = "record" /\ s.recordable => s.reserved
    /\ s.at = "publish" => s.mode = "record" /\ s.recordable /\ s.reserved
    /\ s.reserved /\ s.at \in {"calling", "publish"} => files[s.path] = NoFile
    /\ Replaying(s) =>
          /\ files[s.path] # NoFile
          /\ files[s.path].digest = s.digest
          /\ files[s.path].outcomes = s.replay
          /\ Len(s.kept) <= Len(s.replay)
          /\ \A i \in 1 .. Len(s.kept) : s.kept[i] = s.replay[i]
    /\ s.at = "done" => s.kept = s.replay

CallsFit == \A c \in Calls : StateFits(call[c])

(* A reservation is held by one call. *)
Reservations ==
    /\ \A c \in Calls : Holds(call[c]) => call[c].path \in recording
    /\ \A c, d \in Calls :
          Holds(call[c]) /\ Holds(call[d]) /\ call[c].path = call[d].path => c = d

(* A published file is the whole of a call that has ended. *)
Ended == {"release", "over", "dead"}
FilesFit ==
    \A p \in Paths :
        /\ files[p] # NoFile => files[p].outcomes \in Seq(Kinds)
        /\ files[p] # Fixtures[p] =>
              /\ Fixtures[p] = NoFile
              /\ files[p].by \in Calls
              /\ call[files[p].by].at \in Ended
              /\ call[files[p].by].path = p
              /\ call[files[p].by].mode = "record" /\ call[files[p].by].recordable
              /\ files[p] = [by |-> files[p].by, digest |-> call[files[p].by].digest,
                            outcomes |-> call[files[p].by].kept]

CInv == Types /\ CallsFit /\ Reservations /\ FilesFit

-----------------------------------------------------------------------------
(* A step of one call that publishes nothing: it takes only a reservation   *)
(* that is free, gives up only its own, and an ended call only moves on.    *)
LEMMA QuietStep ==
    ASSUME CInv, NEW c \in Calls, NEW n \in States,
           Set(c, n), files' = files, recording' \subseteq Paths, StateFits(n),
           \A p \in recording : p \in recording' \/ (Holds(call[c]) /\ p = call[c].path),
           Holds(n) => /\ n.path \in recording'
                       /\ (Holds(call[c]) /\ n.path = call[c].path) \/ n.path \notin recording,
           call[c].at \in Ended => /\ n.at \in Ended /\ n.path = call[c].path
                                  /\ n.mode = call[c].mode /\ n.recordable = call[c].recordable
                                  /\ n.digest = call[c].digest /\ n.kept = call[c].kept
    PROVE  CInv'
<1> USE DEF CInv
<1>1. /\ call' \in [Calls -> States]
      /\ call'[c] = n
      /\ \A d \in Calls : d # c => call'[d] = call[d]
  BY DEF Set, Types
<1>2. Types'
  BY <1>1 DEF Types
<1>3. ASSUME NEW d \in Calls
      PROVE  StateFits(call[d])'
  <2>1. CASE d = c
    BY <1>1, <2>1 DEF StateFits, Replaying
  <2>2. CASE d # c
    BY <1>1, <2>2 DEF CallsFit, StateFits, Replaying
  <2>3. QED
    BY <2>1, <2>2
<1>4. CallsFit'
  BY <1>3 DEF CallsFit
<1>5. Reservations'
  <2>1. ASSUME NEW d \in Calls, Holds(call'[d])
        PROVE  call'[d].path \in recording'
    BY <1>1, <2>1 DEF Reservations
  <2>2. ASSUME NEW d \in Calls, d # c, Holds(call'[d]), Holds(n)
        PROVE  call'[d].path # n.path
    BY <1>1, <2>2 DEF Reservations
  <2>3. QED
    BY <1>1, <2>1, <2>2 DEF Reservations, Holds
<1>6. FilesFit'
  <2>1. ASSUME NEW p \in Paths, files[p] # Fixtures[p]
        PROVE  /\ Fixtures[p] = NoFile
               /\ files[p].by \in Calls
               /\ call'[files[p].by].at \in Ended
               /\ call'[files[p].by].path = p
               /\ call'[files[p].by].mode = "record" /\ call'[files[p].by].recordable
               /\ files[p] = [by |-> files[p].by, digest |-> call'[files[p].by].digest,
                             outcomes |-> call'[files[p].by].kept]
    <3>1. PICK d \in Calls : d = files[p].by
      BY <2>1 DEF FilesFit
    <3>2. /\ Fixtures[p] = NoFile
          /\ call[d].at \in Ended
          /\ call[d].path = p
          /\ call[d].mode = "record" /\ call[d].recordable
          /\ files[p] = [by |-> d, digest |-> call[d].digest, outcomes |-> call[d].kept]
      BY <2>1, <3>1 DEF FilesFit
    <3>3. /\ call'[d].at \in Ended
          /\ call'[d].path = call[d].path
          /\ call'[d].mode = call[d].mode
          /\ call'[d].recordable = call[d].recordable
          /\ call'[d].digest = call[d].digest /\ call'[d].kept = call[d].kept
      BY <1>1, <3>2
    <3>4. QED
      BY <3>1, <3>2, <3>3
  <2>2. \A p \in Paths : files[p] # NoFile => files[p].outcomes \in Seq(Kinds)
    BY DEF FilesFit
  <2>3. QED
    BY <2>1, <2>2 DEF FilesFit
<1>7. QED
  BY <1>2, <1>4, <1>5, <1>6

(* A mismatch ends the call or leaves it calling, never to be recorded. *)
LEMMA MismatchFits ==
    ASSUME NEW s \in States, StateFits(s), s.at \in Busy \cup {"calling"}
    PROVE  /\ Mismatched(s) \in States
           /\ StateFits(Mismatched(s))
           /\ Mismatched(s).at \in {"release", "calling"}
           /\ Mismatched(s).path = s.path
           /\ Mismatched(s).reserved = s.reserved
<1>1. PICK l \in {"release", "calling"} :
          Mismatched(s) = [s EXCEPT !.at = l, !.recordable = FALSE]
  BY DEF Mismatched
<1>2. /\ Mismatched(s) \in States
      /\ Mismatched(s).at = l /\ ~Mismatched(s).recordable
      /\ Mismatched(s).path = s.path
      /\ Mismatched(s).reserved = s.reserved
  BY <1>1 DEF States, Labels
<1>3. StateFits(Mismatched(s))
  BY <1>2 DEF StateFits, Replaying, Busy
<1>4. QED
  BY <1>2, <1>3

(* The first request of a call. *)
LEMMA FirstStep ==
    ASSUME CInv, NEW c \in Calls, NEW mode \in {"record", "replay"}, NEW p \in Paths,
           NEW d \in Digests, First(c, mode, p, d)
    PROVE  CInv'
<1>1. PICK w : w = Waiting
  OBVIOUS
<1>2. /\ w \in States /\ ~w.reserved /\ w.kept = <<>>
  BY <1>1 DEF Waiting, States, Labels
<1>3. PICK n : n = [w EXCEPT !.at = IF mode = "record" THEN "exists" ELSE "read",
                             !.mode = mode, !.path = p, !.digest = d]
  OBVIOUS
<1>4. call[c].at = "waiting" /\ Set(c, n) /\ UNCHANGED <<files, recording>>
  BY <1>1, <1>3 DEF First
<1>5. /\ n \in States /\ ~n.reserved /\ n.kept = <<>> /\ n.mode = mode
      /\ n.at = IF mode = "record" THEN "exists" ELSE "read"
  BY <1>2, <1>3 DEF States, Labels
<1>6. StateFits(n) /\ ~Holds(n)
  BY <1>5 DEF StateFits, Holds, Replaying, Busy
<1>7. QED
  BY <1>4, <1>5, <1>6, QuietStep DEF CInv, Types, Ended

(* The disk operations of a call and what cuts them short. *)
LEMMA DiskStep ==
    ASSUME CInv, NEW c \in Calls,
           Exists(c) \/ Open(c) \/ RecheckFile(c) \/ Read(c)
    PROVE  CInv'
<1>1. PICK s \in States : s = call[c]
  BY DEF CInv, Types
<1>2. StateFits(s) /\ recording \subseteq Paths
  BY <1>1 DEF CInv, CallsFit, Types
<1>3. s.at \in {"exists", "open", "recheck", "read"} /\ files' = files
  BY <1>1 DEF Exists, Open, RecheckFile, Read
<1>4. ~s.reserved /\ s.kept = <<>>
  BY <1>2, <1>3 DEF StateFits, Busy
<1>5. PICK m : m = Mismatched(s)
  OBVIOUS
<1>6. /\ m \in States /\ StateFits(m) /\ ~Holds(m)
      /\ m.at \notin Ended \/ m.at = "release"
  <2>1. s.at \in Busy \cup {"calling"}
    BY <1>3 DEF Busy
  <2>2. /\ m \in States /\ StateFits(m) /\ m.at \in {"release", "calling"}
        /\ m.reserved = s.reserved
    BY <1>2, <1>5, <2>1, MismatchFits
  <2>3. QED
    BY <1>4, <2>2 DEF Holds, Ended
<1>7. ASSUME Set(c, m), recording' = recording
      PROVE  CInv'
  BY <1>1, <1>2, <1>3, <1>6, <1>7, QuietStep DEF Ended
<1>8. CASE Exists(c)
  <2>1. PICK n : n = [s EXCEPT !.at = "open"]
    OBVIOUS
  <2>2. n \in States /\ StateFits(n) /\ ~Holds(n)
    <3>1. s.at = "exists"
      BY <1>1, <1>8 DEF Exists
    <3>2. n \in States /\ n.at = "open" /\ n.mode = s.mode /\ ~n.reserved /\ n.kept = <<>>
      BY <1>4, <2>1 DEF States, Labels
    <3>3. QED
      BY <1>2, <3>1, <3>2 DEF StateFits, Holds, Replaying, Busy
  <2>3. (Set(c, m) \/ Set(c, n)) /\ recording' = recording
    BY <1>1, <1>5, <1>8, <2>1 DEF Exists
  <2>4. CASE Set(c, n)
    BY <1>1, <1>2, <1>3, <2>2, <2>3, <2>4, QuietStep DEF Ended
  <2>5. QED
    BY <1>7, <2>3, <2>4
<1>9. CASE Open(c)
  <2>1. PICK n : n = [s EXCEPT !.at = "recheck"]
    OBVIOUS
  <2>2. /\ n \in States /\ StateFits(n) /\ n.path = s.path
    <3>1. s.at = "open"
      BY <1>1, <1>9 DEF Open
    <3>2. /\ n \in States /\ n.at = "recheck" /\ n.mode = s.mode /\ n.path = s.path
          /\ ~n.reserved /\ n.kept = <<>>
      BY <1>4, <2>1 DEF States, Labels
    <3>3. QED
      BY <1>2, <3>1, <3>2 DEF StateFits, Replaying, Busy
  <2>3. CASE s.path \in recording
    BY <1>1, <1>5, <1>7, <1>9, <2>3 DEF Open
  <2>4. CASE s.path \notin recording
    <3>1. Set(c, n) /\ recording' = recording \cup {s.path}
      BY <1>1, <1>9, <2>1, <2>4 DEF Open
    <3>2. recording' \subseteq Paths
      BY <1>2, <3>1 DEF States
    <3>3. QED
      BY <1>1, <1>3, <2>2, <2>4, <3>1, <3>2, QuietStep DEF Ended
  <2>5. QED
    BY <2>3, <2>4
<1>10. CASE RecheckFile(c)
  <2>1. s.at = "recheck" /\ Holds(call[c])
    BY <1>1, <1>10 DEF RecheckFile, Holds
  <2>2. s.path \in recording
    BY <1>1, <2>1 DEF CInv, Reservations
  <2>3. CASE files[s.path] # NoFile
    <3>1. Set(c, m) /\ recording' = recording \ {s.path}
      BY <1>1, <1>5, <1>10, <2>3 DEF RecheckFile
    <3>2. QED
      BY <1>1, <1>2, <1>3, <1>6, <2>1, <3>1, QuietStep DEF Ended
  <2>4. CASE files[s.path] = NoFile
    <3>1. PICK n : n = [Resumed(s) EXCEPT !.reserved = TRUE]
      OBVIOUS
    <3>2. Set(c, n) /\ recording' = recording
      BY <1>1, <1>10, <2>4, <3>1 DEF RecheckFile
    <3>3. PICK l \in {"release", "calling"}, r \in BOOLEAN :
            n = [s EXCEPT !.at = l, !.recordable = r, !.reserved = TRUE]
      <4>1. CASE s.gone
        BY <3>1, <4>1 DEF Resumed, States
      <4>2. CASE ~s.gone
        BY <3>1, <4>2 DEF Resumed, States
      <4>3. QED
        BY <4>1, <4>2
    <3>4. /\ n \in States /\ n.at = l /\ n.reserved /\ n.path = s.path /\ n.mode = s.mode
      BY <3>3 DEF States, Labels
    <3>5. StateFits(n)
      BY <1>2, <2>1, <2>4, <3>3, <3>4 DEF StateFits, Replaying, Busy
    <3>6. QED
      BY <1>1, <1>2, <1>3, <2>1, <2>2, <3>2, <3>4, <3>5, QuietStep DEF Ended
  <2>5. QED
    BY <2>3, <2>4
<1>11. CASE Read(c)
  <2>1. s.at = "read" /\ s.mode = "replay" /\ recording' = recording
    BY <1>1, <1>2, <1>11 DEF Read, StateFits
  <2>2. CASE files[s.path] = NoFile \/ files[s.path].digest # s.digest
    BY <1>1, <1>5, <1>7, <1>11, <2>1, <2>2 DEF Read
  <2>3. CASE files[s.path] # NoFile /\ files[s.path].digest = s.digest
    <3>1. PICK n : n = [Resumed(s) EXCEPT !.replay = IF s.late THEN <<>>
                                                     ELSE files[s.path].outcomes]
      OBVIOUS
    <3>2. Set(c, n)
      BY <1>1, <1>11, <2>3, <3>1 DEF Read
    <3>3. files[s.path].outcomes \in Seq(Kinds)
      BY <2>3 DEF CInv, FilesFit, States
    <3>4. /\ n \in States /\ n.at \in {"release", "calling"} /\ ~n.reserved
          /\ n.mode = s.mode /\ n.path = s.path /\ n.digest = s.digest /\ n.kept = <<>>
          /\ n.at = "calling" /\ n.recordable => n.replay = files[s.path].outcomes
      <4>1. CASE s.gone
        BY <1>4, <3>1, <3>3, <4>1 DEF Resumed, States, Labels
      <4>2. CASE ~s.gone
        BY <1>4, <3>1, <3>3, <4>2 DEF Resumed, States, Labels
      <4>3. QED
        BY <4>1, <4>2
    <3>5. StateFits(n)
      BY <2>1, <2>3, <3>3, <3>4 DEF StateFits, Replaying, Busy
    <3>6. ~Holds(n)
      BY <3>4 DEF Holds
    <3>7. QED
      BY <1>1, <1>2, <1>3, <2>1, <3>2, <3>4, <3>5, <3>6, QuietStep DEF Ended
  <2>4. QED
    BY <2>2, <2>3
<1>12. QED
  BY <1>8, <1>9, <1>10, <1>11

(* The attempts of a call, its end but for the publication, and what       *)
(* interrupts it.                                                           *)
LEMMA AttemptStep ==
    ASSUME CInv, NEW c \in Calls,
           Record(c) \/ Replay(c) \/ Refused(c) \/ Timer(c) \/ Interrupt(c)
    PROVE  CInv'
<1>1. PICK s \in States : s = call[c]
  BY DEF CInv, Types
<1>2. /\ StateFits(s) /\ recording \subseteq Paths
      /\ Holds(s) => s.path \in recording
  BY <1>1 DEF CInv, CallsFit, Types, Reservations
<1>3. files' = files /\ recording' = recording /\ s.at \notin Ended
  BY <1>1 DEF Record, Replay, Refused, Timer, Interrupt, Attempting, Busy, Ended
<1>4. ASSUME NEW n \in States, Set(c, n), StateFits(n), n.path = s.path, Holds(n) => Holds(s)
      PROVE  CInv'
  BY <1>1, <1>2, <1>3, <1>4, QuietStep
<1>5. CASE Record(c)
  <2>1. PICK kind \in Kinds : Set(c, [s EXCEPT !.kept = Append(s.kept, kind)])
    BY <1>1, <1>5 DEF Record
  <2>2. PICK n : n = [s EXCEPT !.kept = Append(s.kept, kind)]
    OBVIOUS
  <2>3. s.at = "calling" /\ s.mode = "record"
    BY <1>1, <1>5 DEF Record, Attempting
  <2>4. Append(s.kept, kind) \in Seq(Kinds)
    BY AppendProperties DEF States
  <2>5. /\ n \in States /\ n.at = s.at /\ n.mode = s.mode /\ n.path = s.path
        /\ n.recordable = s.recordable /\ n.reserved = s.reserved
    BY <2>2, <2>4 DEF States
  <2>6. StateFits(n) /\ (Holds(n) => Holds(s))
    BY <1>2, <2>3, <2>5 DEF StateFits, Holds, Replaying, Busy
  <2>7. QED
    BY <1>4, <2>1, <2>2, <2>5, <2>6
<1>6. PICK t : t = [s EXCEPT !.late = FALSE]
  OBVIOUS
<1>7. ASSUME s.at = "calling", Set(c, Mismatched(t))
      PROVE  CInv'
  <2>1. /\ t \in States /\ t.at = s.at /\ t.mode = s.mode /\ t.path = s.path
        /\ t.recordable = s.recordable /\ t.reserved = s.reserved /\ t.digest = s.digest
        /\ t.kept = s.kept /\ t.replay = s.replay
    BY <1>6 DEF States
  <2>2. StateFits(t)
    BY <1>2, <2>1 DEF StateFits, Replaying
  <2>3. PICK n : n = Mismatched(t)
    OBVIOUS
  <2>4. /\ n \in States /\ StateFits(n) /\ n.at \in {"release", "calling"}
        /\ n.path = s.path /\ n.reserved = s.reserved
    BY <1>7, <2>1, <2>2, <2>3, MismatchFits
  <2>5. Holds(n) => Holds(s)
    BY <1>7, <2>4 DEF Holds
  <2>6. QED
    BY <1>4, <1>7, <2>3, <2>4, <2>5
<1>8. CASE Replay(c)
  <2>1. s.at = "calling" /\ s.mode = "replay"
    BY <1>1, <1>8 DEF Replay, Attempting
  <2>2. CASE Len(s.kept) + 1 > Len(s.replay)
    BY <1>1, <1>6, <1>7, <1>8, <2>1, <2>2 DEF Replay
  <2>3. CASE ~(Len(s.kept) + 1 > Len(s.replay))
    <3>1. PICK k : k = Append(s.kept, s.replay[Len(s.kept) + 1])
      OBVIOUS
    <3>2. PICK n : n = [s EXCEPT !.kept = k]
      OBVIOUS
    <3>3. Set(c, n)
      BY <1>1, <1>8, <2>3, <3>1, <3>2 DEF Replay
    <3>4. s.kept \in Seq(Kinds) /\ s.replay \in Seq(Kinds)
      BY DEF States
    <3>5. Len(s.kept) \in Nat /\ Len(s.replay) \in Nat
          /\ Len(s.kept) + 1 \in 1 .. Len(s.replay)
      BY <2>3, <3>4, LenProperties
    <3>6. s.replay[Len(s.kept) + 1] \in Kinds
      BY <3>4, <3>5, ElementOfSeq
    <3>7. /\ k \in Seq(Kinds)
          /\ Len(k) = Len(s.kept) + 1
          /\ \A i \in 1 .. Len(s.kept) : k[i] = s.kept[i]
          /\ k[Len(s.kept) + 1] = s.replay[Len(s.kept) + 1]
      BY <3>1, <3>4, <3>6, AppendProperties
    <3>8. /\ n \in States /\ n.at = s.at /\ n.mode = s.mode /\ n.path = s.path
          /\ n.recordable = s.recordable /\ n.reserved = s.reserved /\ n.digest = s.digest
          /\ n.kept = k /\ n.replay = s.replay
      BY <3>2, <3>7 DEF States
    <3>9. (\A i \in 1 .. Len(s.kept) : s.kept[i] = s.replay[i]) =>
             \A i \in 1 .. Len(k) : k[i] = s.replay[i]
      BY <3>5, <3>7
    <3>10. StateFits(n) /\ (Holds(n) => Holds(s))
      <4>1. Holds(n) => Holds(s)
        BY <3>8 DEF Holds
      <4>2. Len(n.kept) <= Len(n.replay)
        BY <3>5, <3>7, <3>8
      <4>3. QED
        BY <1>2, <2>1, <3>8, <3>9, <4>1, <4>2 DEF StateFits, Replaying, Busy
    <3>11. QED
      BY <1>4, <3>3, <3>8, <3>10
  <2>4. QED
    BY <2>2, <2>3
<1>9. CASE Refused(c)
  BY <1>1, <1>6, <1>7, <1>9 DEF Refused
<1>10. CASE Timer(c)
  <2>1. PICK n : n = [s EXCEPT !.late = TRUE]
    OBVIOUS
  <2>2. PICK x : x = [s EXCEPT !.recordable = FALSE]
    OBVIOUS
  <2>3. /\ n \in States /\ n.at = s.at /\ n.mode = s.mode /\ n.path = s.path
        /\ n.recordable = s.recordable /\ n.reserved = s.reserved /\ n.digest = s.digest
        /\ n.kept = s.kept /\ n.replay = s.replay
    BY <2>1 DEF States
  <2>4. StateFits(n) /\ (Holds(n) => Holds(s))
    BY <1>2, <2>3 DEF StateFits, Holds, Replaying
  <2>5. /\ x \in States /\ x.at = s.at /\ x.mode = s.mode /\ x.path = s.path
        /\ ~x.recordable /\ x.reserved = s.reserved
    BY <2>2 DEF States
  <2>6. s.at = "calling" => StateFits(x) /\ (Holds(x) => Holds(s))
    BY <1>2, <2>5 DEF StateFits, Holds, Replaying, Busy
  <2>7. Set(c, n) \/ (s.at = "calling" /\ Set(c, x))
    BY <1>1, <1>10, <2>1, <2>2 DEF Timer, Attempting
  <2>8. CASE Set(c, n)
    BY <1>4, <2>3, <2>4, <2>8
  <2>9. CASE s.at = "calling" /\ Set(c, x)
    BY <1>4, <2>5, <2>6, <2>9
  <2>10. QED
    BY <2>7, <2>8, <2>9
<1>11. CASE Interrupt(c)
  <2>1. PICK n : n = [s EXCEPT !.gone = TRUE]
    OBVIOUS
  <2>2. PICK x : x = [s EXCEPT !.at = "release", !.gone = TRUE]
    OBVIOUS
  <2>3. /\ n \in States /\ n.at = s.at /\ n.mode = s.mode /\ n.path = s.path
        /\ n.recordable = s.recordable /\ n.reserved = s.reserved /\ n.digest = s.digest
        /\ n.kept = s.kept /\ n.replay = s.replay
    BY <2>1 DEF States
  <2>4. StateFits(n) /\ (Holds(n) => Holds(s))
    BY <1>2, <2>3 DEF StateFits, Holds, Replaying
  <2>5. /\ x \in States /\ x.at = "release" /\ x.path = s.path /\ x.reserved = s.reserved
    BY <2>2 DEF States, Labels
  <2>6. StateFits(x) /\ (s.at = "calling" /\ Holds(x) => Holds(s))
    BY <2>5 DEF StateFits, Holds, Replaying, Busy
  <2>7. Set(c, n) \/ (s.at = "calling" /\ Set(c, x))
    BY <1>1, <1>11, <2>1, <2>2 DEF Interrupt
  <2>8. CASE Set(c, n)
    BY <1>4, <2>3, <2>4, <2>8
  <2>9. CASE s.at = "calling" /\ Set(c, x)
    BY <1>4, <2>5, <2>6, <2>9
  <2>10. QED
    BY <2>7, <2>8, <2>9
<1>12. QED
  BY <1>5, <1>8, <1>9, <1>10, <1>11

(* The end of a call, the release of its reservation and its death. *)
LEMMA EndStep ==
    ASSUME CInv, NEW c \in Calls, Finish(c) \/ Release(c) \/ Die(c)
    PROVE  CInv'
<1>1. PICK s \in States : s = call[c]
  BY DEF CInv, Types
<1>2. /\ StateFits(s) /\ recording \subseteq Paths
      /\ Holds(s) => s.path \in recording
  BY <1>1 DEF CInv, CallsFit, Types, Reservations
<1>3. files' = files
  BY DEF Finish, Release, Die
<1>4. \A l \in {"done", "publish", "release", "over", "dead"} :
         LET n == [s EXCEPT !.at = l]
         IN /\ n \in States /\ n.at = l /\ n.mode = s.mode /\ n.path = s.path
            /\ n.recordable = s.recordable /\ n.reserved = s.reserved /\ n.digest = s.digest
            /\ n.kept = s.kept /\ n.replay = s.replay
  BY DEF States, Labels
<1>5. ASSUME NEW l \in {"done", "publish", "release"}, s.at = "calling", recording' = recording,
             Set(c, [s EXCEPT !.at = l]),
             l = "publish" => s.mode = "record" /\ s.recordable,
             l = "done" => s.mode = "replay" /\ s.recordable /\ Len(s.kept) = Len(s.replay)
      PROVE  CInv'
  <2>1. PICK n : n = [s EXCEPT !.at = l]
    OBVIOUS
  <2>2. /\ n \in States /\ n.at = l /\ n.mode = s.mode /\ n.path = s.path
        /\ n.recordable = s.recordable /\ n.reserved = s.reserved /\ n.digest = s.digest
        /\ n.kept = s.kept /\ n.replay = s.replay
    BY <1>4, <2>1
  <2>3. l = "done" => s.kept = s.replay
    <3>1. s.kept \in Seq(Kinds) /\ s.replay \in Seq(Kinds)
      BY DEF States
    <3>2. l = "done" => \A i \in 1 .. Len(s.kept) : s.kept[i] = s.replay[i]
      BY <1>2, <1>5 DEF StateFits, Replaying
    <3>3. QED
      BY <1>5, <3>1, <3>2, SeqEqual
  <2>4. StateFits(n)
    BY <1>2, <1>5, <2>2, <2>3 DEF StateFits, Replaying, Busy
  <2>5. Holds(n) => Holds(s)
    BY <1>5, <2>2 DEF Holds
  <2>6. Set(c, n) /\ s.at \notin Ended /\ recording' = recording
    BY <1>5, <2>1 DEF Ended
  <2>7. Holds(n) => /\ n.path \in recording'
                    /\ Holds(s) /\ n.path = s.path
    BY <1>2, <2>2, <2>5, <2>6
  <2>8. QED
    BY ONLY CInv, c \in Calls, <1>1, <1>2, <1>3, <2>2, <2>4, <2>6, <2>7, QuietStep
<1>6. CASE Finish(c)
  <2>1. s.at = "calling" /\ recording' = recording
    BY <1>1, <1>6 DEF Finish
  <2>2. CASE s.mode = "replay" /\ s.recordable /\ ~Consumed(s)
    <3>1. PICK n : n = Mismatched(s)
      OBVIOUS
    <3>2. /\ n \in States /\ StateFits(n) /\ n.at \in {"release", "calling"}
          /\ n.path = s.path /\ n.reserved = s.reserved
      BY <1>2, <2>1, <3>1, MismatchFits
    <3>3. Set(c, n)
      BY <1>1, <1>6, <2>2, <3>1 DEF Finish
    <3>4. Holds(n) => Holds(s)
      BY <2>1, <3>2 DEF Holds
    <3>5. QED
      BY <1>1, <1>2, <1>3, <2>1, <3>2, <3>3, <3>4, QuietStep DEF Ended
  <2>3. CASE s.mode = "replay" /\ s.recordable /\ Consumed(s)
    <3>1. Set(c, [s EXCEPT !.at = "done"])
      BY <1>1, <1>6, <2>3 DEF Finish
    <3>2. QED
      BY <1>5, <2>1, <2>3, <3>1 DEF Consumed
  <2>4. CASE ~(s.mode = "replay" /\ s.recordable)
    <3>1. \/ s.mode = "record" /\ s.recordable /\ Set(c, [s EXCEPT !.at = "publish"])
          \/ Set(c, [s EXCEPT !.at = "release"])
      BY <1>1, <1>6, <2>4 DEF Finish
    <3>2. QED
      BY <1>5, <2>1, <3>1
  <2>5. QED
    BY <2>2, <2>3, <2>4
<1>7. CASE Release(c)
  <2>1. PICK n : n = [s EXCEPT !.at = "over"]
    OBVIOUS
  <2>2. /\ s.at = "release" /\ Set(c, n)
        /\ recording' = IF s.reserved THEN recording \ {s.path} ELSE recording
    BY <1>1, <1>7, <2>1 DEF Release
  <2>3. /\ n \in States /\ n.at = "over" /\ n.mode = s.mode /\ n.path = s.path
        /\ n.recordable = s.recordable /\ n.reserved = s.reserved /\ n.digest = s.digest
        /\ n.kept = s.kept /\ n.replay = s.replay
    BY <1>4, <2>1
  <2>4. StateFits(n) /\ ~Holds(n) /\ (s.reserved => Holds(s))
    BY <2>2, <2>3 DEF StateFits, Holds, Replaying, Busy
  <2>5. QED
    BY <1>1, <1>2, <1>3, <2>2, <2>3, <2>4, QuietStep DEF Ended
<1>8. CASE Die(c)
  <2>1. PICK n : n = [s EXCEPT !.at = "dead"]
    OBVIOUS
  <2>2. s.at # "over" /\ Set(c, n) /\ recording' = recording
    BY <1>1, <1>8, <2>1 DEF Die
  <2>3. /\ n \in States /\ n.at = "dead" /\ n.mode = s.mode /\ n.path = s.path
        /\ n.recordable = s.recordable /\ n.reserved = s.reserved /\ n.digest = s.digest
        /\ n.kept = s.kept /\ n.replay = s.replay
    BY <1>4, <2>1
  <2>4. StateFits(n) /\ (Holds(n) => Holds(s))
    BY <2>2, <2>3 DEF StateFits, Holds, Replaying, Busy
  <2>5. QED
    BY <1>1, <1>2, <1>3, <2>2, <2>3, <2>4, QuietStep DEF Ended
<1>9. QED
  BY <1>6, <1>7, <1>8

(* A publication: whoever holds the reservation finds no file, and none of  *)
(* the others that record or replay look at the same path.                  *)
LEMMA PublishStep ==
    ASSUME CInv, NEW c \in Calls, Publish(c)
    PROVE  CInv'
<1> USE DEF CInv
<1>1. PICK s \in States : s = call[c]
  BY DEF Types
<1>2. PICK n : n = [s EXCEPT !.at = "release"]
  OBVIOUS
<1>3. PICK file : file = [by |-> c, digest |-> s.digest, outcomes |-> s.kept]
  OBVIOUS
<1>4. s.at = "publish" /\ Set(c, n) /\ recording' = recording
  BY <1>1, <1>2 DEF Publish
<1>5. /\ s.mode = "record" /\ s.recordable /\ s.reserved /\ files[s.path] = NoFile
      /\ s.path \in Paths
  BY <1>1, <1>4 DEF CallsFit, StateFits, States
<1>6. files' = [files EXCEPT ![s.path] = file]
  BY <1>1, <1>3, <1>5 DEF Publish
<1>7. /\ file # NoFile /\ file.by = c /\ file.outcomes \in Seq(Kinds)
      /\ file = [by |-> c, digest |-> s.digest, outcomes |-> s.kept]
  BY <1>3 DEF States
<1>8. /\ n \in States /\ n.at = "release" /\ n.mode = s.mode /\ n.path = s.path
      /\ n.recordable = s.recordable /\ n.reserved = s.reserved /\ n.digest = s.digest
      /\ n.kept = s.kept
  BY <1>2 DEF States, Labels
<1>9. /\ call' \in [Calls -> States]
      /\ call'[c] = n
      /\ \A d \in Calls : d # c => call'[d] = call[d]
  BY <1>4, <1>8 DEF Set, Types
<1>10. \A p \in Paths : files'[p] = IF p = s.path THEN file ELSE files[p]
  BY <1>6 DEF Types
<1>11. Types'
  BY <1>4, <1>6, <1>9 DEF Types
<1>12. ASSUME NEW d \in Calls
       PROVE  StateFits(call[d])'
  <2>1. CASE d = c
    BY <1>8, <1>9, <2>1 DEF StateFits, Replaying, Busy
  <2>2. CASE d # c
    <3>1. PICK t \in States : t = call[d] /\ t = call'[d]
      BY <1>9, <2>2 DEF Types
    <3>2. StateFits(t)
      BY <3>1 DEF CallsFit
    <3>3. t.reserved /\ t.at \in {"calling", "publish"} => t.path # s.path
      BY <1>1, <1>4, <1>5, <2>2, <3>1 DEF Reservations, Holds
    <3>4. Replaying(t) => t.path # s.path
      BY <1>5, <3>2 DEF StateFits
    <3>5. t.path \in Paths
      BY DEF States
    <3>6. QED
      BY <1>10, <3>1, <3>2, <3>3, <3>4, <3>5 DEF StateFits, Replaying
  <2>3. QED
    BY <2>1, <2>2
<1>13. CallsFit'
  BY <1>12 DEF CallsFit
<1>14. Reservations'
  <2>1. Holds(n) => Holds(call[c])
    BY <1>1, <1>4, <1>5 DEF Holds
  <2>2. \A d \in Calls : Holds(call'[d]) => Holds(call[d]) /\ call'[d].path = call[d].path
    BY <1>1, <1>8, <1>9, <2>1
  <2>3. QED
    BY <1>4, <2>2 DEF Reservations, Holds
<1>15. FilesFit'
  <2>1. ASSUME NEW p \in Paths, files'[p] # Fixtures[p]
        PROVE  /\ Fixtures[p] = NoFile
               /\ files'[p].by \in Calls
               /\ call'[files'[p].by].at \in Ended
               /\ call'[files'[p].by].path = p
               /\ call'[files'[p].by].mode = "record" /\ call'[files'[p].by].recordable
               /\ files'[p] = [by |-> files'[p].by, digest |-> call'[files'[p].by].digest,
                              outcomes |-> call'[files'[p].by].kept]
    <3>1. CASE p = s.path
      <4>1. files'[p] = file /\ Fixtures[p] = NoFile
        BY <1>5, <1>10, <3>1 DEF FilesFit
      <4>2. QED
        BY <1>5, <1>7, <1>8, <1>9, <3>1, <4>1 DEF Ended
    <3>2. CASE p # s.path
      <4>1. files'[p] = files[p]
        BY <1>10, <3>2
      <4>2. PICK d \in Calls : d = files[p].by
        BY <2>1, <4>1 DEF FilesFit
      <4>3. /\ Fixtures[p] = NoFile
            /\ call[d].at \in Ended
            /\ call[d].path = p
            /\ call[d].mode = "record" /\ call[d].recordable
            /\ files[p] = [by |-> d, digest |-> call[d].digest, outcomes |-> call[d].kept]
        BY <2>1, <4>1, <4>2 DEF FilesFit
      <4>4. call'[d] = call[d]
        BY <1>1, <1>9, <3>2, <4>3
      <4>5. QED
        BY <4>1, <4>2, <4>3, <4>4
    <3>3. QED
      BY <3>1, <3>2
  <2>2. \A p \in Paths : files'[p] # NoFile => files'[p].outcomes \in Seq(Kinds)
    <3>1. TAKE p \in Paths
    <3>2. CASE p = s.path
      <4>1. files'[p] = file
        BY <1>10, <3>2
      <4>2. QED
        BY ONLY <1>7, <4>1
    <3>3. CASE p # s.path
      <4>1. files'[p] = files[p]
        BY <1>10, <3>3
      <4>2. files[p] # NoFile => files[p].outcomes \in Seq(Kinds)
        BY DEF FilesFit
      <4>3. QED
        BY ONLY <4>1, <4>2
    <3>4. QED
      BY <3>2, <3>3
  <2>3. QED
    BY <2>1, <2>2 DEF FilesFit
<1>16. QED
  BY <1>11, <1>13, <1>14, <1>15

-----------------------------------------------------------------------------
(* The inductive invariant. *)
THEOREM CassettesInvariant == CassettesSpec => []CInv
<1>1. CassettesInit => CInv
  <2> SUFFICES ASSUME CassettesInit
               PROVE  CInv
    OBVIOUS
  <2>1. /\ Waiting \in States /\ Waiting.at = "waiting" /\ ~Waiting.reserved
    BY DEF Waiting, States, Labels
  <2>2. \A c \in Calls : call[c] = Waiting
    BY DEF CassettesInit
  <2>3. Types
    BY <2>1 DEF CassettesInit, Types
  <2>4. StateFits(Waiting) /\ ~Holds(Waiting)
    BY <2>1 DEF StateFits, Holds, Replaying, Busy
  <2>5. CallsFit
    BY <2>2, <2>4 DEF CallsFit
  <2>6. Reservations
    BY <2>2, <2>4 DEF Reservations
  <2>7. FilesFit
    BY DEF CassettesInit, FilesFit
  <2>8. QED
    BY <2>3, <2>5, <2>6, <2>7 DEF CInv
<1>2. CInv /\ [CassettesNext]_cassettes => CInv'
  <2> SUFFICES ASSUME CInv, [CassettesNext]_cassettes
               PROVE  CInv'
    OBVIOUS
  <2>1. CASE CassettesNext
    BY <2>1, FirstStep, DiskStep, AttemptStep, EndStep, PublishStep DEF CassettesNext
  <2>2. CASE UNCHANGED cassettes
    BY <2>2 DEF cassettes, CInv, Types, CallsFit, StateFits, Replaying, Reservations, Holds,
                FilesFit
  <2>3. QED
    BY <2>1, <2>2
<1>3. QED
  BY <1>1, <1>2, PTL DEF CassettesSpec

(* Every call, file and reservation keeps its type. *)
THEOREM CassetteTypes == CassettesSpec => []Types
BY CassettesInvariant, PTL DEF CInv

(* A cassette is what one call received in all its attempts, a reservation  *)
(* is never in vain, and a replay that is not refused saw all of it.        *)
THEOREM CassettesAreWhole == CassettesSpec => []CassetteIsOneCall
<1>1. CInv => CassetteIsOneCall
  <2> SUFFICES ASSUME CInv
               PROVE  CassetteIsOneCall
    OBVIOUS
  <2>1. \A p \in Paths : files[p] # Fixtures[p] =>
           LET s == call[files[p].by]
           IN /\ Fixtures[p] = NoFile
              /\ s.path = p /\ s.mode = "record" /\ s.recordable
              /\ files[p] = [by |-> files[p].by, digest |-> s.digest, outcomes |-> s.kept]
    BY DEF CInv, FilesFit
  <2>2. ASSUME NEW c \in Calls
        PROVE  /\ call[c].reserved /\ call[c].at \in {"calling", "publish"} =>
                      files[call[c].path] = NoFile
               /\ call[c].at = "done" =>
                      /\ files[call[c].path].digest = call[c].digest
                      /\ files[call[c].path].outcomes = call[c].kept
    BY DEF CInv, CallsFit, StateFits, Replaying
  <2>3. QED
    BY <2>1, <2>2 DEF CassetteIsOneCall
<1>2. QED
  BY <1>1, CassettesInvariant, PTL

=============================================================================
