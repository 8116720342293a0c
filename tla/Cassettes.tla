------------------------------ MODULE Cassettes ------------------------------
(***************************************************************************)
(* Recorded gateway calls (gateway_client/cassettes.py): each logical call *)
(* of a recording transport reserves its cassette, keeps the outcome of    *)
(* every attempt and publishes the sequence when the call ends; a replaying *)
(* transport gives the outcomes back, one for each attempt.  Invocations    *)
(* run side by side, may be cancelled or meet the client's timers, and the  *)
(* process of one may die.                                                  *)
(*                                                                         *)
(* A path stands for alias, scenario and prompt version, a digest for the  *)
(* guarded request; how often a call tries again is its caller's choice.   *)
(***************************************************************************)
EXTENDS Naturals, Sequences, FiniteSets

CONSTANTS
    Calls,        \* logical calls; each is one invocation
    Paths, Digests,
    Fixtures,     \* path -> the cassette committed before, or NoFile
    MaxOutcomes,  \* CassetteSequence.outcomes, max_length (6)
    MaxRequests,  \* bound: attempts of a call
    NoFile

Kinds == {"response", "timeout", "connection_error"}

ASSUME CassettesAssumption ==
    /\ MaxOutcomes \in Nat \ {0} /\ MaxRequests \in Nat \ {0}
    /\ Paths # {} /\ Digests # {}
    /\ Fixtures = [p \in Paths |-> Fixtures[p]]
    /\ \A p \in Paths : Fixtures[p] # NoFile => Fixtures[p].outcomes \in Seq(Kinds)
    /\ NoFile \notin [by: Calls, digest: Digests, outcomes: Seq(Kinds)]

VARIABLES
    files,      \* path -> [by, digest, outcomes] or NoFile
    recording,  \* paths with a .recording reservation
    call        \* per call: its invocation, see Waiting

cassettes == <<files, recording, call>>

(* at: where the call is; reserved and recordable as in _Invocation; late:  *)
(* its attempt was cancelled while the disk was busy; gone: the whole call  *)
(* was; kept: the outcomes recorded, or replayed so far.                    *)
Waiting == [at |-> "waiting", mode |-> "replay", path |-> CHOOSE p \in Paths : TRUE,
            digest |-> CHOOSE d \in Digests : TRUE, reserved |-> FALSE, recordable |-> TRUE,
            late |-> FALSE, gone |-> FALSE, kept |-> <<>>, replay |-> <<>>]

CassettesInit ==
    /\ files = Fixtures
    /\ recording = {}
    /\ call = [c \in Calls |-> Waiting]

-----------------------------------------------------------------------------
Set(c, state) == call' = [call EXCEPT ![c] = state]

(* CassetteMismatch: the call ends with it and is not recorded; when the    *)
(* attempt was cancelled meanwhile, the call only learns of that.           *)
Mismatched(s) ==
    IF s.gone THEN [s EXCEPT !.at = "release", !.recordable = FALSE]
    ELSE IF s.late THEN [s EXCEPT !.at = "calling", !.recordable = FALSE]
    ELSE [s EXCEPT !.at = "release", !.recordable = FALSE]

(* The disk operation is done: the call goes on, unless it was cancelled. *)
Resumed(s) ==
    IF s.gone THEN [s EXCEPT !.at = "release", !.recordable = FALSE]
    ELSE [s EXCEPT !.at = "calling", !.recordable = @ /\ ~s.late]

(* The first request of an invocation: _begin. *)
First(c, mode, p, d) ==
    /\ call[c].at = "waiting"
    /\ Set(c, [Waiting EXCEPT !.at = IF mode = "record" THEN "exists" ELSE "read",
                              !.mode = mode, !.path = p, !.digest = d])
    /\ UNCHANGED <<files, recording>>

(* _reserve: look for the file, open the reservation exclusively, look      *)
(* again.                                                                   *)
Exists(c) ==
    /\ call[c].at = "exists"
    /\ Set(c, IF files[call[c].path] # NoFile THEN Mismatched(call[c])
              ELSE [call[c] EXCEPT !.at = "open"])
    /\ UNCHANGED <<files, recording>>

Open(c) ==
    /\ call[c].at = "open"
    /\ IF call[c].path \in recording
       THEN Set(c, Mismatched(call[c])) /\ UNCHANGED recording
       ELSE /\ recording' = recording \cup {call[c].path}
            /\ Set(c, [call[c] EXCEPT !.at = "recheck"])
    /\ UNCHANGED files

RecheckSkipped(c) ==
    /\ call[c].at = "recheck"
    /\ Set(c, [Resumed(call[c]) EXCEPT !.reserved = TRUE])
    /\ UNCHANGED <<files, recording>>
RecheckFile(c) ==
    /\ call[c].at = "recheck"
    /\ IF files[call[c].path] # NoFile
       THEN /\ recording' = recording \ {call[c].path}
            /\ Set(c, Mismatched(call[c]))
       ELSE /\ Set(c, [Resumed(call[c]) EXCEPT !.reserved = TRUE])
            /\ UNCHANGED recording
    /\ UNCHANGED files

(* _read, and the identity it must have. *)
Read(c) ==
    LET file == files[call[c].path]
    IN /\ call[c].at = "read"
       /\ Set(c, IF file = NoFile \/ (file # NoFile /\ file.digest # call[c].digest)
                 THEN Mismatched(call[c])
                 ELSE [Resumed(call[c]) EXCEPT
                          !.replay = IF call[c].late THEN <<>> ELSE file.outcomes])
       /\ UNCHANGED <<files, recording>>

-----------------------------------------------------------------------------
(* Attempts *)

Attempting(c) == call[c].at = "calling" /\ Len(call[c].kept) < MaxRequests

(* _record: what the upstream did. *)
Record(c) ==
    /\ Attempting(c) /\ call[c].mode = "record"
    /\ \E kind \in Kinds : Set(c, [call[c] EXCEPT !.kept = Append(@, kind)])
    /\ UNCHANGED <<files, recording>>

(* _replay: the next outcome. *)
Replay(c) ==
    LET next == Len(call[c].kept) + 1
    IN /\ Attempting(c) /\ call[c].mode = "replay"
       /\ Set(c, IF next > Len(call[c].replay) THEN Mismatched([call[c] EXCEPT !.late = FALSE])
                 ELSE [call[c] EXCEPT !.kept = Append(@, call[c].replay[next])])
       /\ UNCHANGED <<files, recording>>

(* A response that is not JSON, or a request that changed between attempts. *)
Refused(c) ==
    /\ call[c].at = "calling"
    /\ Set(c, Mismatched([call[c] EXCEPT !.late = FALSE]))
    /\ UNCHANGED <<files, recording>>

(* The client's timer ends one attempt: on the disk it is only noted, an    *)
(* upstream request leaves no outcome.                                      *)
Busy == {"exists", "open", "recheck", "read"}
Timer(c) ==
    /\ \/ call[c].at \in Busy /\ ~call[c].late /\ Set(c, [call[c] EXCEPT !.late = TRUE])
       \/ /\ Attempting(c) /\ call[c].mode = "record"
          /\ Set(c, [call[c] EXCEPT !.recordable = FALSE])
    /\ UNCHANGED <<files, recording>>

(* The task is cancelled or the call's deadline passes. *)
Interrupt(c) ==
    /\ \/ call[c].at \in Busy \cup {"publish"} /\ ~call[c].gone
          /\ Set(c, [call[c] EXCEPT !.gone = TRUE])
       \/ call[c].at = "calling" /\ Set(c, [call[c] EXCEPT !.at = "release", !.gone = TRUE])
    /\ UNCHANGED <<files, recording>>

-----------------------------------------------------------------------------
(* The end of the call, with a result or with an error other than its       *)
(* interruption: _finish.                                                   *)
Consumed(s) == Len(s.kept) = Len(s.replay)

Finish(c) ==
    /\ call[c].at = "calling"
    /\ LET s == call[c]
       IN Set(c, IF s.mode = "replay" /\ s.recordable
                 THEN IF Consumed(s) THEN [s EXCEPT !.at = "done"] ELSE Mismatched(s)
                 ELSE IF s.mode = "record" /\ s.recordable /\ s.kept # <<>>
                 THEN [s EXCEPT !.at = IF Len(s.kept) <= MaxOutcomes THEN "publish" ELSE "release"]
                 ELSE [s EXCEPT !.at = "release"])
    /\ UNCHANGED <<files, recording>>

(* write_new_artifact: a create-only link of the complete sequence. *)
Publish(c) ==
    LET s == call[c]
    IN /\ s.at = "publish"
       /\ files' = IF files[s.path] # NoFile THEN files
                   ELSE [files EXCEPT ![s.path] =
                            [by |-> c, digest |-> s.digest, outcomes |-> s.kept]]
       /\ Set(c, [s EXCEPT !.at = "release"])
       /\ UNCHANGED recording

(* invocation()'s finally. *)
Release(c) ==
    /\ call[c].at = "release"
    /\ recording' = IF call[c].reserved THEN recording \ {call[c].path} ELSE recording
    /\ Set(c, [call[c] EXCEPT !.at = "over"])
    /\ UNCHANGED files

(* The process dies: its reservation stays. *)
Die(c) ==
    /\ call[c].at \notin {"waiting", "done", "over", "dead"}
    /\ Set(c, [call[c] EXCEPT !.at = "dead"])
    /\ UNCHANGED <<files, recording>>

CassettesNext ==
    \E c \in Calls :
        \/ \E mode \in {"record", "replay"}, p \in Paths, d \in Digests : First(c, mode, p, d)
        \/ Exists(c) \/ Open(c) \/ RecheckFile(c) \/ Read(c)
        \/ Record(c) \/ Replay(c) \/ Refused(c) \/ Timer(c) \/ Interrupt(c)
        \/ Finish(c) \/ Publish(c) \/ Release(c) \/ Die(c)

-----------------------------------------------------------------------------
(* "At logical-call completion, it atomically publishes one complete        *)
(* sequence": a cassette is what one call received in all its attempts,     *)
(* none of them cut by a timer, whatever was interrupted or died; a call    *)
(* that holds a reservation finds nobody else's file when it publishes, so  *)
(* no recording is paid for in vain; and a replay that is not refused saw   *)
(* the whole cassette, in order, for the request it was recorded for.       *)
CassetteIsOneCall ==
    /\ \A p \in Paths : files[p] # Fixtures[p] =>
          LET s == call[files[p].by]
          IN /\ Fixtures[p] = NoFile
             /\ s.path = p /\ s.mode = "record" /\ s.recordable
             /\ files[p] = [by |-> files[p].by, digest |-> s.digest, outcomes |-> s.kept]
    /\ \A c \in Calls :
          /\ call[c].reserved /\ call[c].at \in {"calling", "publish"} =>
                files[call[c].path] = NoFile
          /\ call[c].at = "done" =>
                /\ files[call[c].path].digest = call[c].digest
                /\ files[call[c].path].outcomes = call[c].kept
=============================================================================
