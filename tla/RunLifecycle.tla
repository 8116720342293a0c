---------------------------- MODULE RunLifecycle ----------------------------
(***************************************************************************)
(* What an accepted run promises to whoever reads it: one life at a time,  *)
(* each with a bounded number of recorded failures, each ended by a dead   *)
(* letter of its own or by settling the run for good.  Nothing is said of  *)
(* workers, leases or locks; AttemptStore is shown to implement it.        *)
(***************************************************************************)
EXTENDS Naturals

CONSTANT Budget     \* failures recorded before a life ends

VARIABLES
    phase,          \* "queued", "running", "paused", "completed" or "failed"
    failures,       \* failures recorded in this life, 0 once settled
    lives,          \* how often the run was redriven
    letters         \* the lives that ended with a dead letter

vars == <<phase, failures, lives, letters>>

Init ==
    /\ phase = "queued"
    /\ failures = 0
    /\ lives = 0
    /\ letters = {}

Start ==
    /\ phase = "queued"
    /\ phase' = "running"
    /\ UNCHANGED <<failures, lives, letters>>

(* A failure that is tried again. *)
Retry ==
    /\ phase = "running"
    /\ failures + 1 < Budget
    /\ failures' = failures + 1
    /\ UNCHANGED <<phase, lives, letters>>

(* A failure that is not: never more than one letter a life. *)
Die ==
    /\ phase = "running"
    /\ failures < Budget
    /\ lives \notin letters
    /\ phase' = "failed"
    /\ failures' = failures + 1
    /\ letters' = letters \cup {lives}
    /\ UNCHANGED lives

Settle ==
    /\ phase = "running"
    /\ phase' \in {"paused", "completed"}
    /\ failures' = 0
    /\ UNCHANGED <<lives, letters>>

Review ==
    /\ phase = "paused"
    /\ phase' = "completed"
    /\ UNCHANGED <<failures, lives, letters>>

Redrive ==
    /\ phase = "failed"
    /\ lives \in letters
    /\ phase' = "queued"
    /\ failures' = 0
    /\ lives' = lives + 1
    /\ UNCHANGED letters

Next == Start \/ Retry \/ Die \/ Settle \/ Review \/ Redrive

Spec == Init /\ [][Next]_vars
=============================================================================
