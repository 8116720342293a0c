----------------------------- MODULE MCGateway -----------------------------
(* Small instances of the gateway client for TLC: its live calls (Gateway) and its recorded
   ones (Cassettes), which share no state.  A behaviour is of one of them; the other keeps its
   initial state. *)
EXTENDS Gateway, Cassettes, TLC

CONSTANTS r1, r2, n1, p1, d1

VARIABLE part

(* Cached calls of one run, direct ones of another, and embeddings of both. *)
SomeRequests ==
    {[kind |-> "chat", run |-> r1, cached |-> TRUE, namespace |-> n1],
     [kind |-> "chat", run |-> r2, cached |-> FALSE, namespace |-> None],
     [kind |-> "embed", run |-> r1, cached |-> FALSE, namespace |-> None]}

(* Of the two paths, the first has a committed cassette. *)
SomeFixtures ==
    [p \in Paths |-> IF p = p1 THEN [by |-> None, digest |-> d1,
                                     outcomes |-> <<"timeout", "response">>] ELSE NoFile]

Symmetry == Permutations(Tasks) \cup Permutations(Calls)

Live == part = "live" /\ Next /\ UNCHANGED <<cassettes, part>>
Recorded == part = "recorded" /\ CassettesNext /\ UNCHANGED <<vars, part>>

MCInit == Init /\ CassettesInit /\ part \in {"live", "recorded"}
MCNext == Live \/ Recorded
MCSpec == MCInit /\ [][MCNext]_<<vars, cassettes, part>>
=============================================================================
