---------------------------- MODULE SemanticCache ----------------------------
(***************************************************************************)
(* public.gateway_semantic_cache as PostgresSemanticCache reads and writes *)
(* it (tools/semantic_cache.py).  Vectors are points of a line: nearness   *)
(* and the nearest point are all that the search distinguishes.  A row is  *)
(* fresh until its expires_at; stamp is its created_at.                    *)
(***************************************************************************)
EXTENDS Naturals, FiniteSets

CONSTANTS
    MaxDistance,  \* 1 - semantic_cache_min_similarity
    MaxEntries    \* rows a namespace keeps

ASSUME CacheAssumption == MaxDistance \in Nat /\ MaxEntries \in Nat \ {0}

Distance(v, w) == IF v > w THEN v - w ELSE w - v

SameKey(r, s) == r.namespace = s.namespace /\ r.vector = s.vector

(* The rows find() may return: nearest of its namespace, then by key. *)
Candidates(rows, namespace) == {r \in rows : r.namespace = namespace /\ r.fresh}

Found(rows, namespace, v) ==
    {r \in Candidates(rows, namespace) :
        /\ Distance(r.vector, v) <= MaxDistance
        /\ \A s \in Candidates(rows, namespace) :
               \/ Distance(r.vector, v) < Distance(s.vector, v)
               \/ Distance(r.vector, v) = Distance(s.vector, v) /\ r.vector <= s.vector}

(* INSERT ... ON CONFLICT (cache_key) DO UPDATE *)
Upserted(rows, row) == {r \in rows : ~SameKey(r, row)} \cup {row}

(* The two DELETEs: what has expired, and what is beyond the newest        *)
(* MaxEntries of the namespace.                                            *)
NewerThan(rows, r) ==
    {s \in rows : s.namespace = r.namespace
                    /\ (s.stamp > r.stamp \/ (s.stamp = r.stamp /\ s.vector > r.vector))}

TrimmedExpired(rows, namespace) == {r \in rows : r.fresh}
Trimmed(rows, namespace) ==
    LET live == {r \in rows : r.fresh}
    IN {r \in live : r.namespace = namespace => Cardinality(NewerThan(live, r)) < MaxEntries}

(* A deleted row whose key another store had open is deleted once that one *)
(* commits, unless it had expired and is fresh again.                      *)
Without(rows, doomed) ==
    {r \in rows : \A d \in doomed : SameKey(d, r) => ~d.fresh /\ r.fresh}
=============================================================================
