------------------------- MODULE DurableGraphProofs -------------------------
(***************************************************************************)
(* Proofs about DurableGraph, for every set of executors, extractions and  *)
(* versions of the order, and any number of executions cut short, sessions *)
(* lost and changes of the ERP data.                                       *)
(*                                                                         *)
(* An executor that lost its lock is stuck in the node it was in: it can   *)
(* commit that node's evidence, never a checkpoint.  So every execution is *)
(* in a node the checkpoint has reached, on what the checkpoint recorded   *)
(* before that node; and as the checkpoint took one branch, no evidence of *)
(* the other is ever committed.                                            *)
(*                                                                         *)
(* While no session is lost, an execution holds the lock, and evidence is  *)
(* serial: the last part proves what that gives replays and progress.      *)
(***************************************************************************)
EXTENDS DurableGraph, FiniteSetTheorems, SequenceTheorems, TLAPS

USE GraphAssumption

Routes == {"AUTO_APPROVE", "REVIEW"}
Results == {"NO_MATCH", "NEAR_DUPLICATE"}
Fields == {"route", "extraction", "erp", "similarity", "review"}

GraphStates ==
    [next: Nodes \cup {"END"}, status: {"queued", "running"} \cup Settled,
     route: Routes \cup {None}, extraction: Extractions \cup {None, "escalated"},
     erp: ErpVersions \cup {None}, similarity: Results \cup {None}, review: Actions \cup {None}]

Listed(q) == {q[i] : i \in DOMAIN q}

Types ==
    /\ cp \in GraphStates
    /\ lock \in Executors \cup {None}
    /\ DOMAIN ledger = EventTypes
    /\ \A t \in EventTypes : ledger[t] \in Seq(Listed(ledger[t]))
    /\ invoice \in {"QUEUED", "APPROVED", "RETURNED", "NEEDS_REVIEW"}
    /\ run \in {"open", "PAUSED", "COMPLETED"}
    /\ erp \in ErpVersions
    /\ accepted \in Actions \cup {None}
    /\ pc \in [Executors -> {"idle", "snapshot", "reading", "committing", "checkpointing"}]
    /\ item \in [Executors -> 1 .. 3]
    /\ st \in [Executors -> GraphStates]

-----------------------------------------------------------------------------
(* What a graph state has recorded when its node is entered. *)

Blank(s) == s.extraction = None /\ s.erp = None /\ s.similarity = None /\ s.route = None

Matched(s) ==
    s.extraction \in Extractions /\ s.erp \in ErpVersions /\ s.similarity \in Results

(* The review branch, from a failed extraction or from the gate. *)
Exceptional(s) ==
    \/ s.extraction = "escalated" /\ s.erp = None /\ s.similarity = None
    \/ Matched(s)

StatusAt(node) ==
    CASE node = "Ingest" -> "queued" [] node = "HumanReview" -> "awaiting_review"
      [] node = "END" -> "completed" [] OTHER -> "running"

Shape(s) ==
    /\ s.status = StatusAt(s.next)
    /\ s.next \notin {"Archive", "END"} => s.review = None
    /\ s.next \in {"Ingest", "Extract"} => Blank(s)
    /\ s.next \in {"Validate", "Match3Way"} =>
          s.extraction \in Extractions /\ s.erp = None /\ s.similarity = None /\ s.route = None
    /\ s.next = "Policy" =>
          /\ s.extraction \in Extractions /\ s.erp \in ErpVersions
          /\ s.similarity = None /\ s.route = None
    /\ s.next = "Gate" => Matched(s) /\ s.route = None
    /\ s.next = "AutoApprove" => Matched(s) /\ s.route = "AUTO_APPROVE"
    /\ s.next = "ExceptionTriage" =>
          \/ s.extraction = "escalated" /\ s.erp = None /\ s.similarity = None /\ s.route = None
          \/ Matched(s) /\ s.route = "REVIEW"
    /\ s.next = "HumanReview" => Exceptional(s) /\ s.route = "REVIEW"
    /\ s.next \in {"Archive", "END"} =>
          \/ Matched(s) /\ s.route = "AUTO_APPROVE" /\ s.review = None
          \/ Exceptional(s) /\ s.route = "REVIEW" /\ s.review \in Actions

(* The state a node was entered with: without what the node itself adopts.  *)
Entry(s) ==
    CASE s.next = "Extract" -> [s EXCEPT !.extraction = None]
      [] s.next = "Match3Way" -> [s EXCEPT !.erp = None]
      [] s.next = "Policy" -> [s EXCEPT !.similarity = None]
      [] s.next = "Gate" -> [s EXCEPT !.route = None]
      [] s.next = "HumanReview" -> [s EXCEPT !.review = None]
      [] OTHER -> s

Keeps(c, s) == \A f \in Fields : s[f] # None => c[f] = s[f]

(* What an execution in phase p, at event i of its node, has adopted; l is  *)
(* the ledger and a the signed decision.                                    *)
Adopted(s, p, i, l, a) ==
    /\ s.next # "END"
    /\ p = "snapshot" => s.next = "Match3Way" /\ i = 1
    /\ p \in {"reading", "committing"} => s.next # "Ingest" /\ i \in DOMAIN Evidence(s.next)
    /\ s.next = "Extract" =>
          IF p = "checkpointing"
          THEN s.extraction \in Extractions \cup {"escalated"} /\ s.extraction \in Listed(l["extraction"])
          ELSE s.extraction = None
    /\ s.next = "Match3Way" =>
          /\ p = "snapshot" <=> s.erp = None
          /\ p = "checkpointing" =>
                [extraction |-> s.extraction, erp |-> s.erp] \in Listed(l["matching"])
    /\ s.next = "Policy" =>
          IF p # "checkpointing" /\ i = 1
          THEN s.similarity = None
          ELSE /\ s.similarity \in Results
               /\ [extraction |-> s.extraction, result |-> s.similarity] \in Listed(l["similarity"])
               /\ p = "checkpointing" \/ i > 2 => Input(s) \in Listed(l["classification"])
               /\ p = "checkpointing" => Input(s) \in Listed(l["policy"])
    /\ s.next = "Gate" =>
          IF p = "checkpointing"
          THEN s.route \in Routes /\ [policy |-> Input(s), route |-> s.route] \in Listed(l["gate"])
          ELSE s.route = None
    /\ s.next = "AutoApprove" /\ p = "checkpointing" => Listed(l["approval"]) # {}
    /\ s.next = "ExceptionTriage" /\ p = "checkpointing" => Listed(l["triage"]) # {}
    /\ s.next = "HumanReview" =>
          /\ s.review = a /\ a # None
          /\ p = "checkpointing" => a \in Listed(l["review"])
    /\ s.next = "Archive" /\ p = "checkpointing" => s.route \in Listed(l["archive"])

(* What the ledger l has of a checkpoint c. *)
Backed(c, l, a) ==
    /\ c.extraction # None => c.extraction \in Listed(l["extraction"])
    /\ c.erp # None => [extraction |-> c.extraction, erp |-> c.erp] \in Listed(l["matching"])
    /\ c.similarity # None =>
          /\ [extraction |-> c.extraction, result |-> c.similarity] \in Listed(l["similarity"])
          /\ Input(c) \in Listed(l["classification"]) /\ Input(c) \in Listed(l["policy"])
    /\ c.route # None =>
          c.extraction = "escalated" \/ [policy |-> Input(c), route |-> c.route] \in Listed(l["gate"])
    /\ c.next \in {"HumanReview", "Archive", "END"} /\ c.route = "REVIEW" => Listed(l["triage"]) # {}
    /\ c.next \in {"Archive", "END"} /\ c.route = "AUTO_APPROVE" => Listed(l["approval"]) # {}
    /\ c.review # None => c.review = a /\ a \in Listed(l["review"])
    /\ c.next = "END" => c.route \in Listed(l["archive"])

-----------------------------------------------------------------------------
(* The inductive invariant *)

CheckpointFits == Shape(cp) /\ Backed(cp, ledger, accepted)

ExecutorsFit ==
    \A e \in Executors : pc[e] # "idle" =>
        /\ Shape(Entry(st[e]))
        /\ Keeps(cp, Entry(st[e]))
        /\ Adopted(st[e], pc[e], item[e], ledger, accepted)

(* The holder of the lock is in the checkpointed node. *)
LockFits ==
    lock # None => pc[lock] # "idle" /\ Entry(st[lock]) = cp

PayloadsFit ==
    /\ Listed(ledger["extraction"]) \subseteq Extractions \cup {"escalated"}
    /\ Listed(ledger["similarity"]) \subseteq [extraction: Extractions, result: Results]
    /\ \A g \in Listed(ledger["gate"]) :
          \E i \in [extraction: Extractions, erp: ErpVersions, similarity: Results] :
             \E r \in GateRoutes(i) : g = [policy |-> i, route |-> r]
    /\ Listed(ledger["triage"]) \subseteq {"REVIEW"}
    /\ Listed(ledger["review"]) \subseteq {accepted} \ {None}

(* The ledger has the evidence of one branch, the one of the checkpoint. *)
BranchesFit ==
    /\ Listed(ledger["approval"]) # {} => cp.route = "AUTO_APPROVE"
    /\ Listed(ledger["triage"]) # {} => cp.extraction = "escalated" \/ cp.route = "REVIEW"
    /\ exceptions = Len(ledger["triage"]) /\ exceptions \in {0, 1}

InvoiceFits ==
    invoice = IF Listed(ledger["approval"]) # {} THEN "APPROVED"
              ELSE IF Listed(ledger["review"]) # {} THEN Disposition(accepted)
              ELSE IF Listed(ledger["triage"]) # {} THEN "NEEDS_REVIEW"
              ELSE "QUEUED"

RunFits ==
    /\ run = "open" => accepted = None
    /\ run = "PAUSED" => cp.next \in {"HumanReview", "Archive", "END"} /\ cp.route = "REVIEW"
    /\ run = "COMPLETED" => cp.next = "END" /\ cp.review = accepted

IInv ==
    /\ Types
    /\ CheckpointFits
    /\ ExecutorsFit
    /\ LockFits
    /\ PayloadsFit
    /\ BranchesFit
    /\ InvoiceFits
    /\ RunFits

-----------------------------------------------------------------------------
(* The ledger grows at its end. *)

LEMMA Appended ==
    ASSUME NEW q, q \in Seq(Listed(q)), NEW v
    PROVE  /\ Append(q, v) \in Seq(Listed(Append(q, v)))
           /\ Listed(Append(q, v)) = Listed(q) \cup {v}
           /\ Len(Append(q, v)) = Len(q) + 1
<1>1. PICK n \in Nat : n = Len(q)
  OBVIOUS
<1>2. PICK r : r = Append(q, v)
  OBVIOUS
<1>3. /\ r \in Seq(Listed(q) \cup {v}) /\ Len(r) = n + 1 /\ r[n + 1] = v
      /\ \A i \in 1 .. n : r[i] = q[i]
  <2>1. q \in Seq(Listed(q) \cup {v})
    OBVIOUS
  <2>2. QED
    BY <1>1, <1>2, <2>1
<1>4. DOMAIN r = 1 .. n + 1 /\ DOMAIN q = 1 .. n
  BY <1>1, <1>3
<1>5. Listed(r) \subseteq Listed(q) \cup {v}
  BY <1>3, <1>4 DEF Listed
<1>6. v \in Listed(r)
  BY <1>3, <1>4 DEF Listed
<1>7. Listed(q) \subseteq Listed(r)
  BY <1>3, <1>4 DEF Listed
<1>8. Listed(r) = Listed(q) \cup {v}
  BY <1>5, <1>6, <1>7
<1>9. QED
  BY <1>1, <1>2, <1>3, <1>8

LEMMA LatestIsListed ==
    ASSUME NEW q, q \in Seq(Listed(q))
    PROVE  /\ q = <<>> <=> Listed(q) = {}
           /\ q = <<>> <=> Len(q) = 0
           /\ q # <<>> => q[Len(q)] \in Listed(q)
<1>1. q = <<>> => Listed(q) = {}
  BY DEF Listed
<1>2. q # <<>> => Len(q) \in DOMAIN q
  OBVIOUS
<1>3. q # <<>> => q[Len(q)] \in Listed(q)
  BY <1>2 DEF Listed
<1>4. QED
  BY <1>1, <1>3

-----------------------------------------------------------------------------
(* The events of the nodes. *)

LEMMA EvidenceOf ==
    /\ Evidence("Ingest") = <<>>
    /\ Evidence("Extract") = <<"extraction">>
    /\ Evidence("Validate") = <<"validation">>
    /\ Evidence("Match3Way") = <<"matching">>
    /\ Evidence("Policy") = <<"similarity", "classification", "policy">>
    /\ Evidence("Gate") = <<"gate">>
    /\ Evidence("AutoApprove") = <<"approval">>
    /\ Evidence("ExceptionTriage") = <<"triage">>
    /\ Evidence("HumanReview") = <<"review">>
    /\ Evidence("Archive") = <<"archive">>
BY DEF Evidence

(* Event t of node n is its i-th. *)
Position(n, i, t) ==
    \/ n = "Extract" /\ i = 1 /\ t = "extraction"
    \/ n = "Validate" /\ i = 1 /\ t = "validation"
    \/ n = "Match3Way" /\ i = 1 /\ t = "matching"
    \/ n = "Policy" /\ i = 1 /\ t = "similarity"
    \/ n = "Policy" /\ i = 2 /\ t = "classification"
    \/ n = "Policy" /\ i = 3 /\ t = "policy"
    \/ n = "Gate" /\ i = 1 /\ t = "gate"
    \/ n = "AutoApprove" /\ i = 1 /\ t = "approval"
    \/ n = "ExceptionTriage" /\ i = 1 /\ t = "triage"
    \/ n = "HumanReview" /\ i = 1 /\ t = "review"
    \/ n = "Archive" /\ i = 1 /\ t = "archive"

LEMMA Positions ==
    ASSUME NEW n \in Nodes, NEW i \in DOMAIN Evidence(n)
    PROVE  /\ Position(n, i, Evidence(n)[i])
           /\ i = Len(Evidence(n)) <=> n # "Policy" \/ i = 3
           /\ i \in 1 .. 3 /\ Evidence(n)[i] \in EventTypes
<1>1. CASE n \in {"Extract", "Validate", "Match3Way", "Gate", "AutoApprove", "ExceptionTriage",
                  "HumanReview", "Archive"}
  <2>1. PICK t \in EventTypes : Evidence(n) = <<t>> /\ Position(n, 1, t)
    BY <1>1, EvidenceOf DEF Position, EventTypes
  <2>2. i = 1
    BY <2>1
  <2>3. QED
    BY <1>1, <2>1, <2>2
<1>2. CASE n = "Policy"
  <2>1. i \in 1 .. 3
    BY <1>2, EvidenceOf
  <2>2. CASE i = 1
    BY <1>2, <2>2, EvidenceOf DEF Position, EventTypes
  <2>3. CASE i = 2
    BY <1>2, <2>3, EvidenceOf DEF Position, EventTypes
  <2>4. CASE i = 3
    BY <1>2, <2>4, EvidenceOf DEF Position, EventTypes
  <2>5. QED
    BY <2>1, <2>2, <2>3, <2>4
<1>3. CASE n = "Ingest"
  BY <1>3, EvidenceOf
<1>4. QED
  BY <1>1, <1>2, <1>3 DEF Nodes

LEMMA ComputedOf ==
    ASSUME NEW s
    PROVE  /\ Computed("extraction", s) = Extractions \cup {"escalated"}
           /\ Computed("validation", s) = {s.extraction}
           /\ Computed("matching", s) = {[extraction |-> s.extraction, erp |-> s.erp]}
           /\ Computed("similarity", s) =
                 {[extraction |-> s.extraction, result |-> r] : r \in Results}
           /\ Computed("classification", s) = {Input(s)}
           /\ Computed("policy", s) = {Input(s)}
           /\ Computed("approval", s) = {Input(s)}
           /\ Computed("gate", s) =
                 {[policy |-> Input(s), route |-> r] : r \in GateRoutes(Input(s))}
           /\ Computed("triage", s) = {"REVIEW"}
           /\ Computed("review", s) = {s.review}
           /\ Computed("archive", s) = {s.route}
BY DEF Computed, Results

LEMMA AdoptOf ==
    ASSUME NEW s, NEW v
    PROVE  /\ Adopt("extraction", v, s) = [s EXCEPT !.extraction = v]
           /\ Adopt("similarity", v, s) = [s EXCEPT !.similarity = v.result]
           /\ Adopt("gate", v, s) = [s EXCEPT !.route = v.route]
           /\ \A t \in EventTypes \ {"extraction", "similarity", "gate"} : Adopt(t, v, s) = s
BY DEF Adopt, EventTypes

(* The entry state keeps every field but the node's own. *)
LEMMA EntryOf ==
    ASSUME NEW s \in GraphStates
    PROVE  /\ Entry(s) \in GraphStates
           /\ Entry(s).next = s.next /\ Entry(s).status = s.status
           /\ Entry(s).extraction = IF s.next = "Extract" THEN None ELSE s.extraction
           /\ Entry(s).erp = IF s.next = "Match3Way" THEN None ELSE s.erp
           /\ Entry(s).similarity = IF s.next = "Policy" THEN None ELSE s.similarity
           /\ Entry(s).route = IF s.next = "Gate" THEN None ELSE s.route
           /\ Entry(s).review = IF s.next = "HumanReview" THEN None ELSE s.review
<1>1. CASE s.next = "Extract"
  <2>1. Entry(s) = [s EXCEPT !.extraction = None]
    BY <1>1 DEF Entry
  <2>2. QED
    BY <1>1, <2>1 DEF GraphStates
<1>2. CASE s.next = "Match3Way"
  <2>1. Entry(s) = [s EXCEPT !.erp = None]
    BY <1>2 DEF Entry
  <2>2. QED
    BY <1>2, <2>1 DEF GraphStates
<1>3. CASE s.next = "Policy"
  <2>1. Entry(s) = [s EXCEPT !.similarity = None]
    BY <1>3 DEF Entry
  <2>2. QED
    BY <1>3, <2>1 DEF GraphStates
<1>4. CASE s.next = "Gate"
  <2>1. Entry(s) = [s EXCEPT !.route = None]
    BY <1>4 DEF Entry
  <2>2. QED
    BY <1>4, <2>1 DEF GraphStates
<1>5. CASE s.next = "HumanReview"
  <2>1. Entry(s) = [s EXCEPT !.review = None]
    BY <1>5 DEF Entry
  <2>2. QED
    BY <1>5, <2>1 DEF GraphStates
<1>6. CASE s.next \notin {"Extract", "Match3Way", "Policy", "Gate", "HumanReview"}
  <2>1. Entry(s) = s
    BY <1>6 DEF Entry
  <2>2. QED
    BY <1>6, <2>1
<1>7. QED
  BY <1>1, <1>2, <1>3, <1>4, <1>5, <1>6

LEMMA StatesAreEqual ==
    ASSUME NEW s \in GraphStates, NEW r \in GraphStates,
           s.next = r.next, s.status = r.status, \A f \in Fields : s[f] = r[f]
    PROVE  s = r
<1>1. /\ s.route = r.route /\ s.extraction = r.extraction /\ s.erp = r.erp
      /\ s.similarity = r.similarity /\ s.review = r.review
  BY DEF Fields
<1>2. QED
  BY <1>1 DEF GraphStates

(* States of a node that differ in its own field alone have one entry state. *)
LEMMA SameEntry ==
    ASSUME NEW s \in GraphStates, NEW r \in GraphStates,
           s.next = r.next, s.status = r.status,
           s.next # "Extract" => s.extraction = r.extraction,
           s.next # "Match3Way" => s.erp = r.erp,
           s.next # "Policy" => s.similarity = r.similarity,
           s.next # "Gate" => s.route = r.route,
           s.next # "HumanReview" => s.review = r.review
    PROVE  Entry(s) = Entry(r)
<1>1. \A f \in Fields : Entry(s)[f] = Entry(r)[f]
  <2>1. /\ Entry(s).route = Entry(r).route /\ Entry(s).extraction = Entry(r).extraction
        /\ Entry(s).erp = Entry(r).erp /\ Entry(s).similarity = Entry(r).similarity
        /\ Entry(s).review = Entry(r).review
    BY EntryOf
  <2>2. QED
    BY <2>1 DEF Fields
<1>2. QED
  BY <1>1, EntryOf, StatesAreEqual

LEMMA AdoptedKept ==
    ASSUME NEW s, NEW p, NEW i, NEW l, NEW m, NEW a, Adopted(s, p, i, l, a),
           \A t \in EventTypes : Listed(l[t]) \subseteq Listed(m[t])
    PROVE  Adopted(s, p, i, m, a)
BY DEF Adopted, EventTypes

LEMMA BackedKept ==
    ASSUME NEW c, NEW l, NEW m, NEW a, Backed(c, l, a),
           \A t \in EventTypes : Listed(l[t]) \subseteq Listed(m[t])
    PROVE  Backed(c, m, a)
BY DEF Backed, EventTypes

(* An execution in state s has the payload v of its i-th event t, which the *)
(* ledger l has: it goes on in phase q, at event j, in state r.             *)
Proceeds(s, p, i, l, a, t, v, q, j, r) ==
    /\ s \in GraphStates /\ Shape(Entry(s))
    /\ Adopted(s, p, i, l, a) /\ p \in {"reading", "committing"}
    /\ Position(s.next, i, t)
    /\ v \in Computed(t, s) /\ v \in Listed(l[t])
    /\ q = IF s.next # "Policy" \/ i = 3 THEN "checkpointing" ELSE "reading"
    /\ j = IF s.next # "Policy" \/ i = 3 THEN i ELSE i + 1
    /\ r = Adopt(t, v, s)

LEMMA ProceedFits ==
    ASSUME NEW s, NEW p, NEW i, NEW l, NEW a, NEW t, NEW v, NEW q, NEW j, NEW r,
           Proceeds(s, p, i, l, a, t, v, q, j, r)
    PROVE  r \in GraphStates /\ Entry(r) = Entry(s) /\ j \in 1 .. 3 /\ Adopted(r, q, j, l, a)
<1>1. /\ s \in GraphStates /\ Shape(Entry(s))
      /\ Adopted(s, p, i, l, a) /\ p \in {"reading", "committing"}
      /\ v \in Computed(t, s) /\ v \in Listed(l[t]) /\ r = Adopt(t, v, s)
  BY DEF Proceeds
<1>2. s.next \in Nodes /\ s.next # "Ingest" /\ i \in DOMAIN Evidence(s.next)
  BY <1>1 DEF Adopted, GraphStates
<1>3. Position(s.next, i, t) /\ i \in 1 .. 3 /\ t \in EventTypes
  BY <1>2 DEF Proceeds, Position, EventTypes
<1>4. q = IF s.next # "Policy" \/ i = 3 THEN "checkpointing" ELSE "reading"
  BY DEF Proceeds
<1>5. j = IF s.next # "Policy" \/ i = 3 THEN i ELSE i + 1
  BY DEF Proceeds
<1>6. j \in 1 .. 3
  BY <1>3, <1>5
<1>7. SUFFICES r \in GraphStates /\ Entry(r) = Entry(s) /\ Adopted(r, q, j, l, a)
  BY <1>6
<1>8. CASE s.next = "Extract"
  <2>1. t = "extraction" /\ q = "checkpointing"
    BY <1>1, <1>3, <1>4, <1>8 DEF Position
  <2>2. v \in Extractions \cup {"escalated"}
    BY <1>1, <2>1, ComputedOf
  <2>3. r = [s EXCEPT !.extraction = v]
    BY <1>1, <2>1, AdoptOf
  <2>5. /\ r \in GraphStates /\ r.next = s.next /\ r.status = s.status /\ r.extraction = v
        /\ r.erp = s.erp /\ r.similarity = s.similarity /\ r.route = s.route /\ r.review = s.review
    BY <1>1, <2>2, <2>3 DEF GraphStates
  <2>6. Entry(r) = Entry(s)
    BY <1>1, <1>8, <2>5, SameEntry
  <2>7. Adopted(r, q, j, l, a)
    BY <1>1, <1>8, <2>1, <2>2, <2>5 DEF Adopted
  <2>8. QED
    BY <2>5, <2>6, <2>7
<1>9. CASE s.next = "Gate"
  <2>1. t = "gate" /\ q = "checkpointing"
    BY <1>1, <1>3, <1>4, <1>9 DEF Position
  <2>2. PICK w \in GateRoutes(Input(s)) : v = [policy |-> Input(s), route |-> w]
    BY <1>1, <2>1, ComputedOf
  <2>3. v.route = w /\ w \in Routes
    BY <2>2 DEF GateRoutes, Routes
  <2>4. r = [s EXCEPT !.route = w]
    BY <1>1, <2>1, <2>3, AdoptOf
  <2>6. /\ r \in GraphStates /\ r.next = s.next /\ r.status = s.status /\ r.route = w
        /\ r.erp = s.erp /\ r.similarity = s.similarity /\ r.extraction = s.extraction
        /\ r.review = s.review
    BY <1>1, <2>3, <2>4 DEF GraphStates
  <2>7. Entry(r) = Entry(s)
    BY <1>1, <1>9, <2>6, SameEntry
  <2>8. Input(r) = Input(s)
    BY <2>6 DEF Input
  <2>9. Adopted(r, q, j, l, a)
    BY <1>1, <1>9, <2>1, <2>2, <2>3, <2>6, <2>8 DEF Adopted
  <2>10. QED
    BY <2>6, <2>7, <2>9
<1>10. CASE s.next = "Policy" /\ i = 1
  <2>1. t = "similarity" /\ q = "reading" /\ j = 2
    BY <1>1, <1>3, <1>4, <1>5, <1>10 DEF Position
  <2>2. PICK w \in Results : v = [extraction |-> s.extraction, result |-> w]
    BY <1>1, <2>1, ComputedOf
  <2>3. v.result = w
    BY <2>2
  <2>4. r = [s EXCEPT !.similarity = w]
    BY <1>1, <2>1, <2>3, AdoptOf
  <2>6. /\ r \in GraphStates /\ r.next = s.next /\ r.status = s.status /\ r.similarity = w
        /\ r.erp = s.erp /\ r.route = s.route /\ r.extraction = s.extraction
        /\ r.review = s.review
    BY <1>1, <2>2, <2>4 DEF GraphStates
  <2>7. Entry(r) = Entry(s)
    BY <1>1, <1>10, <2>6, SameEntry
  <2>8. j \in DOMAIN Evidence(r.next)
    BY <1>10, <2>1, <2>6, EvidenceOf
  <2>9. Adopted(r, q, j, l, a)
    BY <1>1, <1>10, <2>1, <2>2, <2>6, <2>8 DEF Adopted
  <2>10. QED
    BY <2>6, <2>7, <2>9
<1>11. CASE s.next \notin {"Extract", "Gate"} /\ ~(s.next = "Policy" /\ i = 1)
  <2>1. t \in EventTypes \ {"extraction", "similarity", "gate"}
    BY <1>1, <1>3, <1>11 DEF Position
  <2>2. r = s
    BY <1>1, <2>1 DEF Adopt, EventTypes
  <2>3. CASE s.next = "Policy" /\ i = 2
    <3>1. t = "classification" /\ q = "reading" /\ j = 3
      BY <1>1, <1>3, <1>4, <1>5, <2>3 DEF Position
    <3>2. v = Input(s)
      BY <1>1, <3>1, ComputedOf
    <3>3. j \in DOMAIN Evidence(s.next)
      BY <2>3, <3>1, EvidenceOf
    <3>4. Adopted(s, q, j, l, a)
      BY <1>1, <2>3, <3>1, <3>2, <3>3 DEF Adopted
    <3>5. QED
      BY <1>1, <2>2, <3>4
  <2>4. CASE s.next = "Policy" /\ i = 3
    <3>1. t = "policy" /\ q = "checkpointing"
      BY <1>1, <1>3, <1>4, <2>4 DEF Position
    <3>2. v = Input(s)
      BY <1>1, <3>1, ComputedOf
    <3>3. Adopted(s, q, j, l, a)
      BY <1>1, <2>4, <3>1, <3>2 DEF Adopted
    <3>4. QED
      BY <1>1, <2>2, <3>3
  <2>5. CASE s.next = "Match3Way"
    <3>1. t = "matching" /\ q = "checkpointing"
      BY <1>1, <1>3, <1>4, <2>5 DEF Position
    <3>2. v = [extraction |-> s.extraction, erp |-> s.erp]
      BY <1>1, <3>1, ComputedOf
    <3>3. Adopted(s, q, j, l, a)
      BY <1>1, <2>5, <3>1, <3>2 DEF Adopted
    <3>4. QED
      BY <1>1, <2>2, <3>3
  <2>6. CASE s.next \in {"Validate", "AutoApprove", "ExceptionTriage", "HumanReview", "Archive"}
    <3>1. q = "checkpointing"
      BY <1>3, <1>4, <2>6
    <3>2. s.next = "AutoApprove" => Listed(l["approval"]) # {}
      BY <1>1, <1>3 DEF Position
    <3>3. s.next = "ExceptionTriage" => Listed(l["triage"]) # {}
      BY <1>1, <1>3 DEF Position
    <3>4. s.next = "HumanReview" => s.review \in Listed(l["review"])
      BY <1>1, <1>3, ComputedOf DEF Position
    <3>5. s.next = "Archive" => s.route \in Listed(l["archive"])
      BY <1>1, <1>3, ComputedOf DEF Position
    <3>6. Adopted(s, q, j, l, a)
      BY <1>1, <2>6, <3>1, <3>2, <3>3, <3>4, <3>5 DEF Adopted
    <3>7. QED
      BY <1>1, <2>2, <3>6
  <2>7. QED
    BY <1>2, <1>3, <1>11, <2>3, <2>4, <2>5, <2>6 DEF Nodes
<1>12. QED
  BY <1>8, <1>9, <1>10, <1>11

(* A payload that replay accepts is one the node could have computed. *)
LEMMA FitsIsComputed ==
    ASSUME NEW s \in GraphStates, PayloadsFit, NEW t \in EventTypes,
           NEW v \in Listed(ledger[t]), Fits(t, v, s)
    PROVE  v \in Computed(t, s)
<1>1. CASE t = "extraction"
  BY <1>1, ComputedOf DEF PayloadsFit
<1>2. CASE t = "triage"
  BY <1>2, ComputedOf DEF PayloadsFit
<1>3. CASE t = "similarity"
  <2>1. v \in [extraction: Extractions, result: Results] /\ v.extraction = s.extraction
    BY <1>3 DEF PayloadsFit, Fits
  <2>2. v = [extraction |-> s.extraction, result |-> v.result] /\ v.result \in Results
    BY <2>1
  <2>3. QED
    BY <1>3, <2>2, ComputedOf
<1>4. CASE t = "gate"
  <2>1. v.policy = Input(s)
    BY <1>4 DEF Fits
  <2>2. PICK i \in [extraction: Extractions, erp: ErpVersions, similarity: Results] :
           \E r \in GateRoutes(i) : v = [policy |-> i, route |-> r]
    BY <1>4 DEF PayloadsFit
  <2>3. PICK r \in GateRoutes(i) : v = [policy |-> i, route |-> r]
    BY <2>2
  <2>4. i = Input(s)
    BY <2>1, <2>3
  <2>5. QED
    BY <1>4, <2>3, <2>4, ComputedOf
<1>5. CASE t \notin {"extraction", "triage", "similarity", "gate"}
  BY <1>5 DEF Fits
<1>6. QED
  BY <1>1, <1>2, <1>3, <1>4, <1>5

LEMMA SuccOf ==
    ASSUME NEW s \in GraphStates
    PROVE  /\ s.next = "Ingest" => Succ(s) = "Extract"
           /\ s.next = "Extract" =>
                 Succ(s) = IF s.extraction = "escalated" THEN "ExceptionTriage" ELSE "Validate"
           /\ s.next = "Validate" => Succ(s) = "Match3Way"
           /\ s.next = "Match3Way" => Succ(s) = "Policy"
           /\ s.next = "Policy" => Succ(s) = "Gate"
           /\ s.next = "Gate" =>
                 Succ(s) = IF s.route = "AUTO_APPROVE" THEN "AutoApprove" ELSE "ExceptionTriage"
           /\ s.next = "AutoApprove" => Succ(s) = "Archive"
           /\ s.next = "ExceptionTriage" => Succ(s) = "HumanReview"
           /\ s.next = "HumanReview" => Succ(s) = "Archive"
           /\ s.next = "Archive" => Succ(s) = "END"
BY DEF Succ

LEMMA CompletedOf ==
    ASSUME NEW s \in GraphStates, s.next \in Nodes
    PROVE  /\ Completed(s) \in GraphStates
           /\ Completed(s).next = Succ(s)
           /\ Completed(s).status =
                 IF s.next \in {"Ingest", "HumanReview"} THEN "running"
                 ELSE IF s.next = "ExceptionTriage" THEN "awaiting_review"
                 ELSE IF s.next = "Archive" THEN "completed" ELSE s.status
           /\ Completed(s).route = IF s.next = "ExceptionTriage" THEN "REVIEW" ELSE s.route
           /\ Completed(s).extraction = s.extraction /\ Completed(s).erp = s.erp
           /\ Completed(s).similarity = s.similarity /\ Completed(s).review = s.review
<1>1. Succ(s) \in Nodes \cup {"END"}
  BY SuccOf DEF Nodes
<1>2. PICK n \in Nodes \cup {"END"} : n = Succ(s)
  BY <1>1
<1>3. CASE s.next \in {"Ingest", "HumanReview"}
  <2>1. Completed(s) = [[s EXCEPT !.next = n] EXCEPT !.status = "running"]
    BY <1>2, <1>3 DEF Completed
  <2>2. QED
    BY <1>2, <1>3, <2>1 DEF GraphStates
<1>4. CASE s.next = "ExceptionTriage"
  <2>1. Completed(s) = [[s EXCEPT !.next = n] EXCEPT !.status = "awaiting_review", !.route = "REVIEW"]
    BY <1>2, <1>4 DEF Completed
  <2>2. QED
    BY <1>2, <1>4, <2>1 DEF GraphStates, Settled, Routes
<1>5. CASE s.next = "Archive"
  <2>1. Completed(s) = [[s EXCEPT !.next = n] EXCEPT !.status = "completed"]
    BY <1>2, <1>5 DEF Completed
  <2>2. QED
    BY <1>2, <1>5, <2>1 DEF GraphStates, Settled
<1>6. CASE s.next \notin {"Ingest", "HumanReview", "ExceptionTriage", "Archive"}
  <2>1. Completed(s) = [s EXCEPT !.next = n]
    BY <1>2, <1>6 DEF Completed
  <2>2. QED
    BY <1>2, <1>6, <2>1 DEF GraphStates
<1>7. QED
  BY <1>3, <1>4, <1>5, <1>6

LEMMA ShapeIsEntry ==
    ASSUME NEW s \in GraphStates, Shape(s)
    PROVE  Entry(s) = s
<1>1. /\ s.next = "Extract" => s.extraction = None
      /\ s.next = "Match3Way" => s.erp = None
      /\ s.next = "Policy" => s.similarity = None
      /\ s.next = "Gate" => s.route = None
      /\ s.next = "HumanReview" => s.review = None
  BY DEF Shape, Blank
<1>2. \A f \in Fields : Entry(s)[f] = s[f]
  <2>1. /\ Entry(s).route = s.route /\ Entry(s).extraction = s.extraction
        /\ Entry(s).erp = s.erp /\ Entry(s).similarity = s.similarity
        /\ Entry(s).review = s.review
    BY <1>1, EntryOf
  <2>2. QED
    BY <2>1 DEF Fields
<1>3. QED
  BY <1>2, EntryOf, StatesAreEqual

(* A checkpoint keeps what the one before it recorded. *)
LEMMA CompletedKeeps ==
    ASSUME NEW s \in GraphStates, s.next \in Nodes, NEW c \in GraphStates, c = Entry(s), Shape(c)
    PROVE  Keeps(Completed(s), c)
<1>1. /\ c.extraction # None => s.extraction = c.extraction
      /\ c.erp # None => s.erp = c.erp
      /\ c.similarity # None => s.similarity = c.similarity
      /\ c.route # None => s.route = c.route
      /\ c.review # None => s.review = c.review
      /\ c.next = s.next
  BY EntryOf
<1>2. s.next = "ExceptionTriage" /\ c.route # None => c.route = "REVIEW"
  BY <1>1 DEF Shape
<1>3. /\ c.extraction # None => Completed(s).extraction = c.extraction
      /\ c.erp # None => Completed(s).erp = c.erp
      /\ c.similarity # None => Completed(s).similarity = c.similarity
      /\ c.route # None => Completed(s).route = c.route
      /\ c.review # None => Completed(s).review = c.review
  BY <1>1, <1>2, CompletedOf
<1>4. QED
  BY <1>3 DEF Keeps, Fields

(* The state a completed node leaves is the entry state of the node after. *)
LEMMA CompletedShape ==
    ASSUME NEW s \in GraphStates, NEW c \in GraphStates, c = Entry(s), Shape(c),
           NEW i, NEW l, NEW a \in Actions \cup {None}, Adopted(s, "checkpointing", i, l, a)
    PROVE  Shape(Completed(s))
<1>1. PICK n : n = Completed(s)
  OBVIOUS
<1>2. s.next \in Nodes
  BY DEF Adopted, GraphStates
<1>3. /\ n \in GraphStates /\ n.next = Succ(s)
      /\ n.status = IF s.next \in {"Ingest", "HumanReview"} THEN "running"
                    ELSE IF s.next = "ExceptionTriage" THEN "awaiting_review"
                    ELSE IF s.next = "Archive" THEN "completed" ELSE s.status
      /\ n.route = IF s.next = "ExceptionTriage" THEN "REVIEW" ELSE s.route
      /\ n.extraction = s.extraction /\ n.erp = s.erp /\ n.similarity = s.similarity
      /\ n.review = s.review
  BY <1>1, <1>2, CompletedOf
<1>4. /\ c.next = s.next /\ c.status = s.status
      /\ s.next # "Extract" => c.extraction = s.extraction
      /\ s.next # "Match3Way" => c.erp = s.erp
      /\ s.next # "Policy" => c.similarity = s.similarity
      /\ s.next # "Gate" => c.route = s.route
      /\ s.next # "HumanReview" => c.review = s.review
  BY EntryOf
<1>5. CASE s.next = "Ingest"
  BY <1>1, <1>3, <1>4, <1>5, SuccOf DEF Shape, StatusAt, Blank
<1>6. CASE s.next = "Extract"
  <2>1. s.extraction \in Extractions \cup {"escalated"}
    BY <1>6 DEF Adopted
  <2>2. n.next = IF s.extraction = "escalated" THEN "ExceptionTriage" ELSE "Validate"
    BY <1>3, <1>6, SuccOf
  <2>3. s.erp = None /\ s.similarity = None /\ s.route = None /\ s.review = None /\ s.status = "running"
    BY <1>4, <1>6 DEF Shape, StatusAt, Blank
  <2>4. QED
    BY <1>1, <1>3, <1>6, <2>1, <2>2, <2>3 DEF Shape, StatusAt
<1>7. CASE s.next = "Validate"
  BY <1>1, <1>3, <1>4, <1>7, SuccOf DEF Shape, StatusAt
<1>8. CASE s.next = "Match3Way"
  <2>1. s.erp \in ErpVersions
    BY <1>8 DEF Adopted, GraphStates
  <2>2. n.next = "Policy"
    BY <1>3, <1>8, SuccOf
  <2>3. s.extraction \in Extractions /\ s.similarity = None /\ s.route = None /\ s.review = None
        /\ s.status = "running"
    BY <1>4, <1>8 DEF Shape, StatusAt
  <2>4. QED
    BY <1>1, <1>3, <1>8, <2>1, <2>2, <2>3 DEF Shape, StatusAt
<1>9. CASE s.next = "Policy"
  <2>1. s.similarity \in Results
    BY <1>9 DEF Adopted
  <2>2. n.next = "Gate"
    BY <1>3, <1>9, SuccOf
  <2>3. s.extraction \in Extractions /\ s.erp \in ErpVersions /\ s.route = None /\ s.review = None
        /\ s.status = "running"
    BY <1>4, <1>9 DEF Shape, StatusAt
  <2>4. QED
    BY <1>1, <1>3, <1>9, <2>1, <2>2, <2>3 DEF Shape, StatusAt, Matched
<1>10. CASE s.next = "Gate"
  <2>1. s.route \in Routes
    BY <1>10 DEF Adopted
  <2>2. n.next = IF s.route = "AUTO_APPROVE" THEN "AutoApprove" ELSE "ExceptionTriage"
    BY <1>3, <1>10, SuccOf
  <2>3. s.extraction \in Extractions /\ s.erp \in ErpVersions /\ s.similarity \in Results
        /\ s.review = None /\ s.status = "running"
    BY <1>4, <1>10 DEF Shape, StatusAt, Matched
  <2>4. QED
    BY <1>1, <1>3, <1>10, <2>1, <2>2, <2>3 DEF Shape, StatusAt, Matched, Routes
<1>11. CASE s.next = "AutoApprove"
  <2>1. n.next = "Archive"
    BY <1>3, <1>11, SuccOf
  <2>2. Matched(s) /\ s.route = "AUTO_APPROVE" /\ s.review = None /\ s.status = "running"
    BY <1>4, <1>11 DEF Shape, StatusAt, Matched
  <2>3. QED
    BY <1>1, <1>3, <1>11, <2>1, <2>2 DEF Shape, StatusAt, Matched
<1>12. CASE s.next = "ExceptionTriage"
  <2>1. n.next = "HumanReview"
    BY <1>3, <1>12, SuccOf
  <2>2. Exceptional(s) /\ s.review = None
    BY <1>4, <1>12 DEF Shape, Exceptional, Matched
  <2>3. QED
    BY <1>1, <1>3, <1>12, <2>1, <2>2 DEF Shape, StatusAt, Matched, Exceptional
<1>13. CASE s.next = "HumanReview"
  <2>1. n.next = "Archive"
    BY <1>3, <1>13, SuccOf
  <2>2. s.review \in Actions
    BY <1>13 DEF Adopted
  <2>3. Exceptional(s) /\ s.route = "REVIEW"
    BY <1>4, <1>13 DEF Shape, Exceptional, Matched
  <2>4. QED
    BY <1>1, <1>3, <1>13, <2>1, <2>2, <2>3 DEF Shape, StatusAt, Matched, Exceptional
<1>14. CASE s.next = "Archive"
  <2>1. n.next = "END"
    BY <1>3, <1>14, SuccOf
  <2>2. \/ Matched(s) /\ s.route = "AUTO_APPROVE" /\ s.review = None
        \/ Exceptional(s) /\ s.route = "REVIEW" /\ s.review \in Actions
    BY <1>4, <1>14 DEF Shape, Exceptional, Matched
  <2>3. QED
    BY <1>1, <1>3, <1>14, <2>1, <2>2 DEF Shape, StatusAt, Matched, Exceptional
<1>15. QED
  BY <1>2, <1>5, <1>6, <1>7, <1>8, <1>9, <1>10, <1>11, <1>12, <1>13, <1>14 DEF Nodes

(* The ledger has the evidence of what a completed node checkpoints. *)
LEMMA CompletedBacked ==
    ASSUME NEW s \in GraphStates, NEW c \in GraphStates, c = Entry(s), Shape(c),
           NEW i, NEW l, NEW a \in Actions \cup {None}, Adopted(s, "checkpointing", i, l, a),
           Backed(c, l, a)
    PROVE  Backed(Completed(s), l, a)
<1>1. PICK n : n = Completed(s)
  OBVIOUS
<1>2. s.next \in Nodes
  BY DEF Adopted, GraphStates
<1>3. /\ n.next = Succ(s)
      /\ n.route = IF s.next = "ExceptionTriage" THEN "REVIEW" ELSE s.route
      /\ n.extraction = s.extraction /\ n.erp = s.erp /\ n.similarity = s.similarity
      /\ n.review = s.review
  BY <1>1, <1>2, CompletedOf
<1>4. /\ c.next = s.next
      /\ s.next # "Extract" => c.extraction = s.extraction
      /\ s.next # "Match3Way" => c.erp = s.erp
      /\ s.next # "Policy" => c.similarity = s.similarity
      /\ s.next # "Gate" => c.route = s.route
      /\ s.next # "HumanReview" => c.review = s.review
  BY EntryOf
<1>5. Input(n) = Input(s)
  BY <1>3 DEF Input
<1>6. n.extraction # None => n.extraction \in Listed(l["extraction"])
  BY <1>3, <1>4 DEF Backed, Adopted
<1>7. n.erp # None => [extraction |-> n.extraction, erp |-> n.erp] \in Listed(l["matching"])
  <2>1. s.next = "Match3Way" => [extraction |-> s.extraction, erp |-> s.erp] \in Listed(l["matching"])
    BY DEF Adopted
  <2>2. s.next = "Extract" => s.erp = None
    BY <1>4 DEF Shape, Blank
  <2>3. s.next \notin {"Match3Way", "Extract"} /\ s.erp # None =>
           [extraction |-> s.extraction, erp |-> s.erp] \in Listed(l["matching"])
    BY <1>4 DEF Backed
  <2>4. QED
    BY <1>3, <2>1, <2>2, <2>3
<1>8. n.similarity # None =>
         /\ [extraction |-> n.extraction, result |-> n.similarity] \in Listed(l["similarity"])
         /\ Input(n) \in Listed(l["classification"]) /\ Input(n) \in Listed(l["policy"])
  <2>1. CASE s.next = "Policy"
    BY <1>3, <1>5, <2>1 DEF Adopted
  <2>2. CASE s.next \in {"Extract", "Match3Way"}
    BY <1>3, <1>4, <2>2 DEF Shape, Blank
  <2>3. CASE s.next \notin {"Policy", "Extract", "Match3Way"}
    <3>1. Input(c) = Input(s) /\ c.similarity = s.similarity /\ c.extraction = s.extraction
      BY <1>4, <2>3 DEF Input
    <3>2. QED
      BY <1>3, <1>5, <3>1 DEF Backed
  <2>4. QED
    BY <2>1, <2>2, <2>3
<1>9. n.route # None =>
         n.extraction = "escalated" \/ [policy |-> Input(n), route |-> n.route] \in Listed(l["gate"])
  <2>1. CASE s.next = "Gate"
    BY <1>3, <1>5, <2>1 DEF Adopted
  <2>2. CASE s.next \in {"Extract", "Match3Way", "Policy"}
    BY <1>3, <1>4, <2>2 DEF Shape, Blank
  <2>3. CASE s.next \notin {"Gate", "Policy", "Extract", "Match3Way"}
    <3>1. Input(c) = Input(s) /\ c.extraction = s.extraction /\ c.route = s.route
      BY <1>4, <2>3 DEF Input
    <3>2. s.next = "ExceptionTriage" => s.extraction = "escalated" \/ s.route = "REVIEW"
      BY <1>4, <3>1 DEF Shape
    <3>3. s.route # None =>
             s.extraction = "escalated" \/ [policy |-> Input(s), route |-> s.route] \in Listed(l["gate"])
      BY <3>1 DEF Backed
    <3>4. QED
      BY <1>3, <1>5, <3>2, <3>3
  <2>4. QED
    BY <2>1, <2>2, <2>3
<1>10. n.next \in {"HumanReview", "Archive", "END"} /\ n.route = "REVIEW" => Listed(l["triage"]) # {}
  <2>1. CASE s.next = "ExceptionTriage"
    BY <2>1 DEF Adopted
  <2>2. CASE s.next \in {"HumanReview", "Archive"}
    BY <1>3, <1>4, <2>2 DEF Backed
  <2>3. CASE s.next = "AutoApprove"
    BY <1>3, <1>4, <2>3 DEF Shape
  <2>4. CASE s.next \notin {"ExceptionTriage", "HumanReview", "Archive", "AutoApprove"}
    BY <1>2, <1>3, <2>4, SuccOf DEF Nodes
  <2>5. QED
    BY <2>1, <2>2, <2>3, <2>4
<1>11. n.next \in {"Archive", "END"} /\ n.route = "AUTO_APPROVE" => Listed(l["approval"]) # {}
  <2>1. CASE s.next = "AutoApprove"
    BY <2>1 DEF Adopted
  <2>2. CASE s.next = "Archive"
    BY <1>3, <1>4, <2>2 DEF Backed
  <2>3. CASE s.next = "HumanReview"
    BY <1>3, <1>4, <2>3 DEF Shape
  <2>4. CASE s.next \notin {"HumanReview", "Archive", "AutoApprove"}
    BY <1>2, <1>3, <2>4, SuccOf DEF Nodes
  <2>5. QED
    BY <2>1, <2>2, <2>3, <2>4
<1>12. n.review # None => n.review = a /\ a \in Listed(l["review"])
  <2>1. s.next = "HumanReview" => s.review = a /\ a \in Listed(l["review"])
    BY DEF Adopted
  <2>2. s.next # "HumanReview" /\ s.review # None => s.review = a /\ a \in Listed(l["review"])
    BY <1>4 DEF Backed
  <2>3. QED
    BY <1>3, <2>1, <2>2
<1>13. n.next = "END" => n.route \in Listed(l["archive"])
  <2>1. n.next = "END" => s.next = "Archive"
    BY <1>2, <1>3, SuccOf DEF Nodes
  <2>2. s.next = "Archive" => s.route \in Listed(l["archive"])
    BY DEF Adopted
  <2>3. QED
    BY <1>3, <2>1, <2>2
<1>14. QED
  BY <1>1, <1>6, <1>7, <1>8, <1>9, <1>10, <1>11, <1>12, <1>13 DEF Backed

-----------------------------------------------------------------------------
(* Executions that enter a node, leave the graph or change its state. *)

LEMMA FirstSteps ==
    ASSUME NEW n \in Nodes
    PROVE  /\ FirstStep(n) \in {"snapshot", "reading", "checkpointing"}
           /\ FirstStep(n) = "snapshot" <=> n = "Match3Way"
           /\ FirstStep(n) = "checkpointing" <=> n = "Ingest"
BY DEF FirstStep

LEMMA EnteredAdopted ==
    ASSUME NEW s \in GraphStates, s.next \in Nodes, Shape(Entry(s)), NEW l, NEW a,
           IF s.next = "HumanReview" THEN s.review = a /\ a # None ELSE Entry(s) = s
    PROVE  Adopted(s, FirstStep(s.next), 1, l, a)
<1>1. PICK p : p = FirstStep(s.next)
  OBVIOUS
<1>2. p = "snapshot" <=> s.next = "Match3Way"
  BY <1>1, FirstSteps
<1>3. p = "checkpointing" <=> s.next = "Ingest"
  BY <1>1, FirstSteps
<1>4. s.next # "Ingest" => 1 \in DOMAIN Evidence(s.next)
  BY EvidenceOf DEF Nodes
<1>5. /\ s.next = "Extract" => s.extraction = None
      /\ s.next = "Match3Way" => s.erp = None
      /\ s.next = "Policy" => s.similarity = None
      /\ s.next = "Gate" => s.route = None
  BY EntryOf
<1>6. s.next # "END"
  BY DEF Nodes
<1>7. Adopted(s, p, 1, l, a)
  BY <1>2, <1>3, <1>4, <1>5, <1>6 DEF Adopted
<1>8. QED
  BY <1>1, <1>7

LEMMA ExecutorMoves ==
    ASSUME ExecutorsFit, NEW e \in Executors,
           \A x \in Executors \ {e} : pc'[x] = pc[x] /\ item'[x] = item[x] /\ st'[x] = st[x],
           Keeps(cp', cp), accepted' = accepted,
           \A t \in EventTypes : Listed(ledger[t]) \subseteq Listed(ledger'[t]),
           pc'[e] # "idle" =>
               /\ Shape(Entry(st'[e]))
               /\ Keeps(cp', Entry(st'[e]))
               /\ Adopted(st'[e], pc'[e], item'[e], ledger', accepted')
    PROVE  ExecutorsFit'
<1>1. SUFFICES ASSUME NEW x \in Executors, pc'[x] # "idle"
               PROVE  /\ Shape(Entry(st'[x]))
                      /\ Keeps(cp', Entry(st'[x]))
                      /\ Adopted(st'[x], pc'[x], item'[x], ledger', accepted')
  BY DEF ExecutorsFit
<1>2. CASE x = e
  BY <1>1, <1>2
<1>3. CASE x # e
  <2>1. pc'[x] = pc[x] /\ item'[x] = item[x] /\ st'[x] = st[x]
    BY <1>3
  <2>2. /\ Shape(Entry(st[x])) /\ Keeps(cp, Entry(st[x]))
        /\ Adopted(st[x], pc[x], item[x], ledger, accepted)
    BY <1>1, <2>1 DEF ExecutorsFit
  <2>3. Keeps(cp', Entry(st[x]))
    BY <2>2 DEF Keeps
  <2>4. Adopted(st[x], pc[x], item[x], ledger', accepted)
    BY <2>2, AdoptedKept
  <2>5. QED
    BY <2>1, <2>2, <2>3, <2>4
<1>4. QED
  BY <1>2, <1>3

(* Nothing that only the checkpoint, the ledger and the run say changes. *)
StoreFits == CheckpointFits /\ PayloadsFit /\ BranchesFit /\ InvoiceFits /\ RunFits

LEMMA StoreKept ==
    ASSUME StoreFits, UNCHANGED <<cp, store, run, accepted>>
    PROVE  StoreFits'
<1>1. CheckpointFits'
  BY DEF StoreFits, CheckpointFits, store
<1>2. PayloadsFit'
  BY DEF StoreFits, PayloadsFit, store
<1>3. BranchesFit'
  BY DEF StoreFits, BranchesFit, store
<1>4. InvoiceFits'
  BY DEF StoreFits, InvoiceFits, store
<1>5. RunFits'
  BY DEF StoreFits, RunFits, store
<1>6. QED
  BY <1>1, <1>2, <1>3, <1>4, <1>5 DEF StoreFits

LEMMA KeepsItself ==
    ASSUME NEW c
    PROVE  Keeps(c, c)
BY DEF Keeps

LEMMA LeaveFits ==
    ASSUME IInv, NEW e \in Executors, Leave(e), UNCHANGED <<cp, store, world>>
    PROVE  IInv'
<1>1. /\ pc' = [pc EXCEPT ![e] = "idle"] /\ lock' = IF lock = e THEN None ELSE lock
      /\ item' = item /\ st' = st /\ cp' = cp /\ ledger' = ledger /\ invoice' = invoice
      /\ exceptions' = exceptions /\ run' = run /\ erp' = erp /\ accepted' = accepted
  BY DEF Leave, store, world
<1>2. Types'
  BY <1>1 DEF IInv, Types
<1>3. ExecutorsFit'
  <2>1. pc'[e] = "idle" /\ \A x \in Executors \ {e} : pc'[x] = pc[x]
    BY <1>1 DEF IInv, Types
  <2>2. Keeps(cp', cp)
    BY <1>1, KeepsItself
  <2>3. QED
    BY <1>1, <2>1, <2>2, ExecutorMoves DEF IInv
<1>4. LockFits'
  <2>1. lock' # None => lock' = lock /\ lock # e /\ lock \in Executors
    BY <1>1 DEF IInv, Types
  <2>2. lock' # None => pc'[lock'] = pc[lock] /\ st'[lock'] = st[lock]
    BY <1>1, <2>1 DEF IInv, Types
  <2>3. QED
    BY <1>1, <2>1, <2>2 DEF IInv, LockFits
<1>5. StoreFits'
  BY <1>1, StoreKept DEF IInv, StoreFits, store
<1>6. QED
  BY <1>2, <1>3, <1>4, <1>5 DEF IInv, StoreFits

(* An execution begins, in the state s of the checkpointed node. *)
LEMMA EnterFits ==
    ASSUME IInv, NEW e \in Executors, NEW s \in GraphStates, s.next \in Nodes, Entry(s) = cp,
           IF s.next = "HumanReview" THEN s.review = accepted /\ accepted # None ELSE Entry(s) = s,
           Enter(e, s), lock' = e, UNCHANGED <<cp, store, world>>
    PROVE  IInv'
<1>1. PICK p : p = FirstStep(s.next)
  OBVIOUS
<1>2. /\ pc' = [pc EXCEPT ![e] = p] /\ lock' = e
      /\ item' = [item EXCEPT ![e] = 1] /\ st' = [st EXCEPT ![e] = s]
      /\ cp' = cp /\ ledger' = ledger /\ invoice' = invoice
      /\ exceptions' = exceptions /\ run' = run /\ erp' = erp /\ accepted' = accepted
  BY <1>1 DEF Enter, store, world
<1>3. p \in {"snapshot", "reading", "checkpointing"}
  BY <1>1, FirstSteps
<1>4. Types'
  BY <1>2, <1>3 DEF IInv, Types
<1>5. pc'[e] = p /\ item'[e] = 1 /\ st'[e] = s
  BY <1>2 DEF IInv, Types
<1>6. Shape(Entry(s))
  BY DEF IInv, CheckpointFits
<1>7. ExecutorsFit'
  <2>1. \A x \in Executors \ {e} : pc'[x] = pc[x] /\ item'[x] = item[x] /\ st'[x] = st[x]
    BY <1>2 DEF IInv, Types
  <2>2. Adopted(s, p, 1, ledger, accepted)
    BY <1>1, <1>6, EnteredAdopted
  <2>3. Keeps(cp', cp)
    BY <1>2, KeepsItself
  <2>4. Keeps(cp', Entry(s))
    BY <1>2, KeepsItself
  <2>5. QED
    BY <1>2, <1>5, <1>6, <2>1, <2>2, <2>3, <2>4, ExecutorMoves DEF IInv
<1>8. LockFits'
  BY <1>2, <1>3, <1>5 DEF LockFits
<1>9. StoreFits'
  BY <1>2, StoreKept DEF IInv, StoreFits, store
<1>10. QED
  BY <1>4, <1>7, <1>8, <1>9 DEF IInv, StoreFits

LEMMA RunStep ==
    ASSUME IInv, NEW e \in Executors, Run(e)
    PROVE  IInv'
<1>1. cp \in GraphStates /\ Shape(cp) /\ Entry(cp) = cp
  BY ShapeIsEntry DEF IInv, Types, CheckpointFits
<1>2. cp.next \in Nodes /\ cp.next # "HumanReview"
  BY <1>1 DEF Run, Shape, StatusAt, Settled, GraphStates
<1>3. QED
  BY <1>1, <1>2, EnterFits DEF Run

LEMMA ResumeStep ==
    ASSUME IInv, NEW e \in Executors, Resume(e)
    PROVE  IInv'
<1>1. cp \in GraphStates /\ Shape(cp) /\ Entry(cp) = cp
  BY ShapeIsEntry DEF IInv, Types, CheckpointFits
<1>2. accepted \in Actions
  BY DEF Resume, IInv, Types
<1>3. CASE Reviewing /\ Enter(e, [cp EXCEPT !.review = accepted])
  <2>1. PICK s : s = [cp EXCEPT !.review = accepted]
    OBVIOUS
  <2>2. /\ s \in GraphStates /\ s.next = "HumanReview" /\ s.review = accepted
        /\ s.status = cp.status /\ s.extraction = cp.extraction /\ s.erp = cp.erp
        /\ s.similarity = cp.similarity /\ s.route = cp.route /\ cp.next = "HumanReview"
    BY <1>1, <1>2, <1>3, <2>1 DEF GraphStates, Reviewing
  <2>3. Entry(s) = cp
    BY <1>1, <2>2, SameEntry
  <2>4. s.next \in Nodes
    BY <2>2 DEF Nodes
  <2>5. QED
    BY <1>3, <2>1, <2>2, <2>3, <2>4, EnterFits DEF Resume
<1>4. CASE Reviewed /\ Enter(e, cp)
  <2>1. cp.review # None /\ cp.status = "running"
    BY <1>4 DEF Reviewed, Resume
  <2>2. cp.next = "Archive"
    BY <1>1, <2>1 DEF Shape, StatusAt
  <2>3. cp.next \in Nodes
    BY <2>2 DEF Nodes
  <2>4. QED
    BY <1>1, <1>4, <2>2, <2>3, EnterFits DEF Resume
<1>5. QED
  BY <1>3, <1>4 DEF Resume

(* An execution goes on in its node, and the ledger may grow. *)
LEMMA NodeStep ==
    ASSUME IInv, NEW e \in Executors, pc[e] # "idle",
           NEW r \in GraphStates, NEW p \in {"snapshot", "reading", "committing", "checkpointing"},
           NEW j \in 1 .. 3,
           pc' = [pc EXCEPT ![e] = p], item' = [item EXCEPT ![e] = j], st' = [st EXCEPT ![e] = r],
           Entry(r) = Entry(st[e]), Adopted(r, p, j, ledger', accepted), UNCHANGED <<cp, lock, world>>,
           \A t \in EventTypes : Listed(ledger[t]) \subseteq Listed(ledger'[t])
    PROVE  /\ ExecutorsFit' /\ LockFits'
           /\ pc' \in [Executors -> {"idle", "snapshot", "reading", "committing", "checkpointing"}]
           /\ item' \in [Executors -> 1 .. 3] /\ st' \in [Executors -> GraphStates]
<1>1. /\ pc' \in [Executors -> {"idle", "snapshot", "reading", "committing", "checkpointing"}]
      /\ item' \in [Executors -> 1 .. 3] /\ st' \in [Executors -> GraphStates]
  BY DEF IInv, Types
<1>2. /\ pc'[e] = p /\ item'[e] = j /\ st'[e] = r
      /\ \A x \in Executors \ {e} : pc'[x] = pc[x] /\ item'[x] = item[x] /\ st'[x] = st[x]
  BY DEF IInv, Types
<1>3. cp' = cp /\ lock' = lock /\ accepted' = accepted
  BY DEF world
<1>4. ExecutorsFit'
  <2>1. Shape(Entry(st[e])) /\ Keeps(cp, Entry(st[e]))
    BY DEF IInv, ExecutorsFit
  <2>2. Keeps(cp', cp)
    BY <1>3, KeepsItself
  <2>3. Shape(Entry(st'[e])) /\ Keeps(cp', Entry(st'[e]))
    BY <1>2, <1>3, <2>1
  <2>4. Adopted(st'[e], pc'[e], item'[e], ledger', accepted')
    BY <1>2, <1>3
  <2>5. QED
    BY <1>2, <1>3, <2>2, <2>3, <2>4, ExecutorMoves DEF IInv
<1>5. LockFits'
  <2>1. lock = e \/ lock = None \/ lock \in Executors \ {e}
    BY DEF IInv, Types
  <2>2. QED
    BY <1>2, <1>3, <2>1 DEF IInv, LockFits
<1>6. QED
  BY <1>1, <1>4, <1>5

LEMMA SnapshotStep ==
    ASSUME IInv, NEW e \in Executors, Snapshot(e)
    PROVE  IInv'
<1>1. st[e] \in GraphStates /\ item[e] \in 1 .. 3 /\ erp \in ErpVersions
  BY DEF IInv, Types
<1>2. /\ st[e].next = "Match3Way" /\ item[e] \in 1 .. 3
      /\ Adopted(st[e], "snapshot", item[e], ledger, accepted) /\ pc[e] = "snapshot"
  BY <1>1 DEF Snapshot, IInv, ExecutorsFit, Adopted
<1>3. PICK r : r = [st[e] EXCEPT !.erp = erp]
  OBVIOUS
<1>4. /\ r \in GraphStates /\ r.next = st[e].next /\ r.status = st[e].status /\ r.erp = erp
      /\ r.extraction = st[e].extraction /\ r.similarity = st[e].similarity
      /\ r.route = st[e].route /\ r.review = st[e].review
  BY <1>1, <1>3 DEF GraphStates
<1>5. Entry(r) = Entry(st[e])
  BY <1>1, <1>2, <1>4, SameEntry
<1>6. /\ pc' = [pc EXCEPT ![e] = "reading"] /\ item' = item /\ st' = [st EXCEPT ![e] = r]
      /\ cp' = cp /\ lock' = lock /\ ledger' = ledger /\ invoice' = invoice
      /\ exceptions' = exceptions /\ run' = run /\ erp' = erp /\ accepted' = accepted
  BY <1>3 DEF Snapshot, store, world, IInv, Types
<1>7. 1 \in DOMAIN Evidence("Match3Way")
  BY EvidenceOf
<1>8. item[e] = 1 /\ item' = [item EXCEPT ![e] = 1]
  BY <1>2, <1>6 DEF Adopted, IInv, Types
<1>9. Adopted(r, "reading", 1, ledger, accepted)
  BY <1>1, <1>2, <1>4, <1>7 DEF Adopted
<1>10. /\ ExecutorsFit' /\ LockFits'
       /\ pc' \in [Executors -> {"idle", "snapshot", "reading", "committing", "checkpointing"}]
       /\ item' \in [Executors -> 1 .. 3] /\ st' \in [Executors -> GraphStates]
  BY <1>2, <1>4, <1>5, <1>6, <1>8, <1>9, NodeStep DEF world
<1>11. Types'
  BY <1>6, <1>10 DEF IInv, Types
<1>12. StoreFits'
  BY <1>6, StoreKept DEF IInv, StoreFits, store
<1>13. QED
  BY <1>10, <1>11, <1>12 DEF IInv, StoreFits

LEMMA ReadNothingStep ==
    ASSUME IInv, NEW e \in Executors, ReadNothing(e)
    PROVE  IInv'
<1>1. st[e] \in GraphStates /\ item[e] \in 1 .. 3
  BY DEF IInv, Types
<1>2. Adopted(st[e], "reading", item[e], ledger, accepted) /\ pc[e] = "reading"
  BY DEF ReadNothing, IInv, ExecutorsFit
<1>3. /\ pc' = [pc EXCEPT ![e] = "committing"]
      /\ item' = [item EXCEPT ![e] = item[e]] /\ st' = [st EXCEPT ![e] = st[e]]
      /\ cp' = cp /\ lock' = lock /\ ledger' = ledger /\ invoice' = invoice
      /\ exceptions' = exceptions /\ run' = run /\ erp' = erp /\ accepted' = accepted
  BY DEF ReadNothing, store, world, IInv, Types
<1>4. Adopted(st[e], "committing", item[e], ledger, accepted)
  BY <1>2 DEF Adopted
<1>5. /\ ExecutorsFit' /\ LockFits'
      /\ pc' \in [Executors -> {"idle", "snapshot", "reading", "committing", "checkpointing"}]
      /\ item' \in [Executors -> 1 .. 3] /\ st' \in [Executors -> GraphStates]
  BY <1>1, <1>2, <1>3, <1>4, NodeStep DEF world
<1>6. Types'
  BY <1>3, <1>5 DEF IInv, Types
<1>7. StoreFits'
  BY <1>3, StoreKept DEF IInv, StoreFits, store
<1>8. QED
  BY <1>5, <1>6, <1>7 DEF IInv, StoreFits

(* The execution e goes on with the payload v of its event, which the ledger *)
(* has.                                                                      *)
LEMMA ProceedStep ==
    ASSUME IInv, NEW e \in Executors, pc[e] \in {"reading", "committing"},
           NEW v \in Computed(EventAt(e), st[e]), v \in Listed(ledger'[EventAt(e)]),
           Proceed(e, EventAt(e), v), UNCHANGED <<cp, lock, world>>,
           \A t \in EventTypes : Listed(ledger[t]) \subseteq Listed(ledger'[t])
    PROVE  /\ ExecutorsFit' /\ LockFits'
           /\ pc' \in [Executors -> {"idle", "snapshot", "reading", "committing", "checkpointing"}]
           /\ item' \in [Executors -> 1 .. 3] /\ st' \in [Executors -> GraphStates]
<1>1. PICK s \in GraphStates : s = st[e]
  BY DEF IInv, Types
<1>2. PICK i \in 1 .. 3 : i = item[e]
  BY DEF IInv, Types
<1>3. PICK p \in {"reading", "committing"} : p = pc[e]
  OBVIOUS
<1>4. PICK t : t = Evidence(s.next)[i]
  OBVIOUS
<1>5. t = EventAt(e)
  BY <1>1, <1>2, <1>4 DEF EventAt
<1>6. Shape(Entry(s)) /\ Adopted(s, p, i, ledger, accepted)
  BY <1>1, <1>2, <1>3 DEF IInv, ExecutorsFit
<1>7. Adopted(s, p, i, ledger', accepted)
  BY <1>6, AdoptedKept
<1>8. /\ Position(s.next, i, t) /\ t \in EventTypes
      /\ (i = Len(Evidence(s.next)) <=> s.next # "Policy" \/ i = 3)
  BY <1>4, <1>6, Positions DEF Adopted, GraphStates
<1>9. PICK q : q = IF s.next # "Policy" \/ i = 3 THEN "checkpointing" ELSE "reading"
  OBVIOUS
<1>10. PICK j : j = IF s.next # "Policy" \/ i = 3 THEN i ELSE i + 1
  OBVIOUS
<1>11. PICK r : r = Adopt(t, v, s)
  OBVIOUS
<1>12. PICK m : m = ledger'
  OBVIOUS
<1>13. r \in GraphStates /\ Entry(r) = Entry(s) /\ j \in 1 .. 3 /\ Adopted(r, q, j, ledger', accepted)
  <2>1. PICK a : a = accepted
    OBVIOUS
  <2>2. v \in Computed(t, s)
    BY <1>1, <1>5
  <2>3. v \in Listed(m[t])
    BY <1>5, <1>12
  <2>4. Adopted(s, p, i, m, a)
    BY <1>7, <1>12, <2>1
  <2>5. Shape(Entry(s)) /\ t \in EventTypes
    BY <1>6, <1>8
  <2>6. Position(s.next, i, t)
    BY <1>8
  <2>7. Proceeds(s, p, i, m, a, t, v, q, j, r)
    BY <1>9, <1>10, <1>11, <2>2, <2>3, <2>4, <2>5, <2>6 DEF Proceeds
  <2>8. r \in GraphStates /\ Entry(r) = Entry(s) /\ j \in 1 .. 3 /\ Adopted(r, q, j, m, a)
    BY <2>7, ProceedFits
  <2>9. QED
    BY <1>12, <2>1, <2>8
<1>14. q \in {"snapshot", "reading", "committing", "checkpointing"}
  BY <1>9
<1>15. /\ st' = [st EXCEPT ![e] = r] /\ item' = [item EXCEPT ![e] = j]
       /\ pc' = [pc EXCEPT ![e] = q]
  BY <1>1, <1>2, <1>5, <1>8, <1>9, <1>10, <1>11 DEF Proceed
<1>16. QED
  BY <1>1, <1>3, <1>13, <1>14, <1>15, NodeStep

LEMMA ReplayStep ==
    ASSUME IInv, NEW e \in Executors, Replay(e)
    PROVE  IInv'
<1>1. PICK t : t = EventAt(e)
  OBVIOUS
<1>2. st[e] \in GraphStates /\ Adopted(st[e], "reading", item[e], ledger, accepted)
  BY DEF Replay, IInv, Types, ExecutorsFit
<1>3. t \in EventTypes
  BY <1>1, <1>2, Positions DEF Adopted, GraphStates, EventAt
<1>4. ledger[t] # <<>> /\ Fits(t, Latest(t), st[e]) /\ Proceed(e, t, Latest(t))
  BY <1>1 DEF Replay
<1>5. Latest(t) \in Listed(ledger[t])
  BY <1>3, <1>4, LatestIsListed DEF Latest, IInv, Types
<1>6. Latest(t) \in Computed(t, st[e])
  BY <1>2, <1>3, <1>4, <1>5, FitsIsComputed DEF IInv
<1>7. /\ cp' = cp /\ lock' = lock /\ ledger' = ledger /\ invoice' = invoice
      /\ exceptions' = exceptions /\ run' = run /\ erp' = erp /\ accepted' = accepted
  BY DEF Replay, store, world
<1>8. /\ ExecutorsFit' /\ LockFits'
      /\ pc' \in [Executors -> {"idle", "snapshot", "reading", "committing", "checkpointing"}]
      /\ item' \in [Executors -> 1 .. 3] /\ st' \in [Executors -> GraphStates]
  <2>1. pc[e] \in {"reading", "committing"}
    BY DEF Replay
  <2>2. QED
    BY <1>1, <1>4, <1>5, <1>6, <1>7, <2>1, ProceedStep DEF world
<1>9. Types'
  BY <1>7, <1>8 DEF IInv, Types
<1>10. StoreFits'
  BY <1>7, StoreKept DEF IInv, StoreFits, store
<1>11. QED
  BY <1>8, <1>9, <1>10 DEF IInv, StoreFits

-----------------------------------------------------------------------------
(* Commits *)

(* What the checkpoint says of the event an execution is at. *)
LEMMA AtEvent ==
    ASSUME IInv, NEW e \in Executors, pc[e] \in {"reading", "committing"}
    PROVE  /\ EventAt(e) \in EventTypes
           /\ EventAt(e) = "similarity" => st[e].extraction \in Extractions
           /\ EventAt(e) = "gate" =>
                 Input(st[e]) \in [extraction: Extractions, erp: ErpVersions, similarity: Results]
           /\ EventAt(e) = "approval" => cp.route = "AUTO_APPROVE"
           /\ EventAt(e) = "triage" => cp.extraction = "escalated" \/ cp.route = "REVIEW"
           /\ EventAt(e) = "review" =>
                 st[e].review = accepted /\ accepted \in Actions /\ cp.route = "REVIEW"
<1>1. PICK s \in GraphStates : s = st[e]
  BY DEF IInv, Types
<1>2. PICK i \in 1 .. 3 : i = item[e]
  BY DEF IInv, Types
<1>3. PICK t : t = EventAt(e)
  OBVIOUS
<1>4. /\ Shape(Entry(s)) /\ Keeps(cp, Entry(s)) /\ Adopted(s, pc[e], i, ledger, accepted)
      /\ accepted \in Actions \cup {None}
  BY <1>1, <1>2 DEF IInv, ExecutorsFit, Types
<1>5. Position(s.next, i, t) /\ t \in EventTypes
  BY <1>1, <1>2, <1>3, <1>4, Positions DEF Adopted, GraphStates, EventAt
<1>6. /\ Entry(s).next = s.next
      /\ s.next # "Extract" => Entry(s).extraction = s.extraction
      /\ s.next # "Match3Way" => Entry(s).erp = s.erp
      /\ s.next # "Policy" => Entry(s).similarity = s.similarity
      /\ s.next # "Gate" => Entry(s).route = s.route
  BY EntryOf
<1>7. /\ Entry(s).route # None => cp.route = Entry(s).route
      /\ Entry(s).extraction # None => cp.extraction = Entry(s).extraction
  BY <1>4 DEF Keeps, Fields
<1>8. t = "similarity" => s.extraction \in Extractions
  BY <1>4, <1>5, <1>6 DEF Position, Shape
<1>9. t = "gate" => Input(s) \in [extraction: Extractions, erp: ErpVersions, similarity: Results]
  <2>1. t = "gate" => Matched(s)
    BY <1>4, <1>5, <1>6 DEF Position, Shape, Matched
  <2>2. QED
    BY <2>1 DEF Matched, Input
<1>10. t = "approval" => cp.route = "AUTO_APPROVE"
  <2>1. t = "approval" => Entry(s).route = "AUTO_APPROVE"
    BY <1>4, <1>5, <1>6 DEF Position, Shape
  <2>2. QED
    BY <1>7, <2>1
<1>11. t = "triage" => cp.extraction = "escalated" \/ cp.route = "REVIEW"
  <2>1. t = "triage" => Entry(s).extraction = "escalated" \/ Entry(s).route = "REVIEW"
    BY <1>4, <1>5, <1>6 DEF Position, Shape
  <2>2. QED
    BY <1>7, <2>1
<1>12. t = "review" => s.review = accepted /\ accepted \in Actions /\ cp.route = "REVIEW"
  <2>1. t = "review" => Entry(s).route = "REVIEW"
    BY <1>4, <1>5, <1>6 DEF Position, Shape
  <2>2. t = "review" => s.review = accepted /\ accepted \in Actions
    BY <1>4, <1>5 DEF Position, Adopted
  <2>3. QED
    BY <1>7, <2>1, <2>2
<1>13. QED
  BY <1>1, <1>3, <1>5, <1>8, <1>9, <1>10, <1>11, <1>12

(* A run is on one branch. *)
LEMMA OneBranch ==
    ASSUME IInv, cp.route = "AUTO_APPROVE"
    PROVE  cp.extraction # "escalated"
<1>1. Shape(cp) /\ cp \in GraphStates
  BY DEF IInv, CheckpointFits, Types
<1>2. cp.next \in Nodes \cup {"END"}
  BY <1>1 DEF GraphStates
<1>3. cp.next \in {"AutoApprove", "Archive", "END"}
  BY <1>1, <1>2 DEF Shape, Blank, Nodes
<1>4. Matched(cp)
  BY <1>1, <1>3 DEF Shape
<1>5. QED
  BY <1>4 DEF Matched

(* A decision is signed after triage. *)
LEMMA SignedAfterTriage ==
    ASSUME IInv, accepted # None
    PROVE  Listed(ledger["triage"]) # {} /\ cp.route = "REVIEW"
<1>1. Shape(cp) /\ Backed(cp, ledger, accepted)
  BY DEF IInv, CheckpointFits
<1>2. CASE run = "open"
  BY <1>2 DEF IInv, RunFits
<1>3. CASE run = "PAUSED"
  BY <1>1, <1>3 DEF IInv, RunFits, Backed
<1>4. CASE run = "COMPLETED"
  <2>1. cp.next = "END" /\ cp.review # None
    BY <1>4 DEF IInv, RunFits
  <2>2. cp.route = "REVIEW"
    BY <1>1, <2>1 DEF Shape
  <2>3. QED
    BY <1>1, <2>1, <2>2 DEF Backed
<1>5. QED
  BY <1>2, <1>3, <1>4 DEF IInv, Types

(* A payload is appended, with the status it gives the invoice. *)
LEMMA CommitStep ==
    ASSUME IInv, NEW e \in Executors, Commit(e)
    PROVE  IInv'
<1>1. PICK t : t = EventAt(e)
  OBVIOUS
<1>2. pc[e] = "committing" /\ t # "triage" /\ invoice' = InvoiceStatus(t, st[e])
  BY <1>1 DEF Commit
<1>3. PICK v \in Computed(t, st[e]) :
         ledger' = [ledger EXCEPT ![t] = Append(@, v)] /\ Proceed(e, t, v)
  BY <1>1 DEF Commit
<1>4. cp' = cp /\ lock' = lock /\ exceptions' = exceptions /\ run' = run /\ erp' = erp
      /\ accepted' = accepted
  BY DEF Commit, world
<1>5. /\ t \in EventTypes
      /\ t = "similarity" => st[e].extraction \in Extractions
      /\ t = "gate" =>
            Input(st[e]) \in [extraction: Extractions, erp: ErpVersions, similarity: Results]
      /\ t = "approval" => cp.route = "AUTO_APPROVE"
      /\ t = "review" => st[e].review = accepted /\ accepted \in Actions /\ cp.route = "REVIEW"
  BY <1>1, <1>2, AtEvent
<1>6. /\ DOMAIN ledger' = EventTypes
      /\ ledger'[t] = Append(ledger[t], v)
      /\ \A u \in EventTypes \ {t} : ledger'[u] = ledger[u]
  BY <1>3, <1>5 DEF IInv, Types
<1>7. /\ ledger'[t] \in Seq(Listed(ledger'[t]))
      /\ Listed(ledger'[t]) = Listed(ledger[t]) \cup {v}
  BY <1>5, <1>6, Appended DEF IInv, Types
<1>8. \A u \in EventTypes \ {t} : Listed(ledger'[u]) = Listed(ledger[u])
  BY <1>6
<1>9. \A u \in EventTypes : Listed(ledger[u]) \subseteq Listed(ledger'[u])
  BY <1>7, <1>8
<1>10. /\ ExecutorsFit' /\ LockFits'
       /\ pc' \in [Executors -> {"idle", "snapshot", "reading", "committing", "checkpointing"}]
       /\ item' \in [Executors -> 1 .. 3] /\ st' \in [Executors -> GraphStates]
  <2>1. pc[e] \in {"reading", "committing"} /\ v \in Listed(ledger'[t])
    BY <1>2, <1>7
  <2>2. QED
    BY <1>1, <1>3, <1>4, <1>9, <2>1, ProceedStep DEF world
<1>11. InvoiceFits'
  <2>1. /\ "approval" \in EventTypes /\ "review" \in EventTypes /\ "triage" \in EventTypes
        /\ Listed(ledger'["triage"]) = Listed(ledger["triage"])
    BY <1>2, <1>8 DEF EventTypes
  <2>2. CASE t = "approval"
    <3>1. invoice' = "APPROVED" /\ Listed(ledger'["approval"]) # {}
      BY <1>2, <1>7, <2>2 DEF InvoiceStatus
    <3>2. QED
      BY <3>1 DEF InvoiceFits
  <2>3. CASE t = "review"
    <3>1. st[e].review = accepted /\ accepted \in Actions /\ Listed(ledger'["review"]) # {}
      BY <1>5, <1>7, <2>3
    <3>2. invoice' = Disposition(accepted)
      BY <1>2, <2>3, <3>1 DEF InvoiceStatus, Disposition, Actions
    <3>3. Listed(ledger'["approval"]) = {}
      <4>1. Listed(ledger'["approval"]) = Listed(ledger["approval"])
        BY <1>8, <2>1, <2>3
      <4>2. QED
        BY <1>5, <2>3, <4>1 DEF IInv, BranchesFit
    <3>4. QED
      BY <1>4, <3>1, <3>2, <3>3 DEF InvoiceFits
  <2>4. CASE t \notin {"approval", "review"}
    <3>1. invoice' = invoice
      BY <1>2, <2>4 DEF InvoiceStatus
    <3>2. /\ Listed(ledger'["approval"]) = Listed(ledger["approval"])
          /\ Listed(ledger'["review"]) = Listed(ledger["review"])
      BY <1>8, <2>1, <2>4
    <3>3. QED
      BY <1>4, <2>1, <3>1, <3>2 DEF IInv, InvoiceFits
  <2>5. QED
    BY <2>2, <2>3, <2>4
<1>12. invoice' \in {"QUEUED", "APPROVED", "RETURNED", "NEEDS_REVIEW"}
  <2>1. t = "review" => invoice' \in {"APPROVED", "RETURNED", "NEEDS_REVIEW"}
    BY <1>2, <1>5 DEF InvoiceStatus, Actions
  <2>2. t = "approval" => invoice' = "APPROVED"
    BY <1>2 DEF InvoiceStatus
  <2>3. t \notin {"approval", "review"} => invoice' = invoice
    BY <1>2 DEF InvoiceStatus
  <2>4. QED
    BY <2>1, <2>2, <2>3 DEF IInv, Types
<1>13. Types'
  <2>1. \A u \in EventTypes : ledger'[u] \in Seq(Listed(ledger'[u]))
    BY <1>6, <1>7 DEF IInv, Types
  <2>2. QED
    BY <1>4, <1>6, <1>10, <1>12, <2>1 DEF IInv, Types
<1>14. CheckpointFits'
  BY <1>4, <1>9, BackedKept DEF IInv, CheckpointFits
<1>15. PayloadsFit'
  <2>1. t = "extraction" => v \in Extractions \cup {"escalated"}
    BY <1>3, ComputedOf
  <2>2. t = "similarity" => v \in [extraction: Extractions, result: Results]
    BY <1>3, <1>5, ComputedOf
  <2>3. t = "gate" =>
           \E i \in [extraction: Extractions, erp: ErpVersions, similarity: Results] :
              \E r \in GateRoutes(i) : v = [policy |-> i, route |-> r]
    BY <1>3, <1>5, ComputedOf
  <2>4. t = "review" => v = accepted /\ accepted # None
    BY <1>3, <1>5, ComputedOf
  <2>5. Listed(ledger'["extraction"]) \subseteq Extractions \cup {"escalated"}
    BY <1>7, <1>8, <2>1 DEF IInv, PayloadsFit, EventTypes
  <2>6. Listed(ledger'["similarity"]) \subseteq [extraction: Extractions, result: Results]
    BY <1>7, <1>8, <2>2 DEF IInv, PayloadsFit, EventTypes
  <2>7. \A g \in Listed(ledger'["gate"]) :
           \E i \in [extraction: Extractions, erp: ErpVersions, similarity: Results] :
              \E r \in GateRoutes(i) : g = [policy |-> i, route |-> r]
    BY <1>7, <1>8, <2>3 DEF IInv, PayloadsFit, EventTypes
  <2>8. Listed(ledger'["triage"]) \subseteq {"REVIEW"}
    BY <1>2, <1>8 DEF IInv, PayloadsFit, EventTypes
  <2>9. Listed(ledger'["review"]) \subseteq {accepted} \ {None}
    BY <1>7, <1>8, <2>4 DEF IInv, PayloadsFit, EventTypes
  <2>10. QED
    BY <1>4, <2>5, <2>6, <2>7, <2>8, <2>9 DEF PayloadsFit
<1>16. BranchesFit'
  <2>1. ledger'["triage"] = ledger["triage"]
    BY <1>2, <1>6 DEF EventTypes
  <2>2. Listed(ledger'["approval"]) # {} => cp.route = "AUTO_APPROVE"
    BY <1>5, <1>8 DEF IInv, BranchesFit, EventTypes
  <2>3. QED
    BY <1>4, <2>1, <2>2 DEF IInv, BranchesFit
<1>17. RunFits'
  BY <1>4 DEF IInv, RunFits
<1>18. QED
  BY <1>10, <1>11, <1>13, <1>14, <1>15, <1>16, <1>17 DEF IInv

LEMMA PrepareStep ==
    ASSUME IInv, NEW e \in Executors, Prepare(e)
    PROVE  IInv'
<1>1. pc[e] = "committing" /\ EventAt(e) = "triage" /\ Proceed(e, "triage", "REVIEW")
  BY DEF Prepare
<1>2. cp' = cp /\ lock' = lock /\ run' = run /\ erp' = erp /\ accepted' = accepted
  BY DEF Prepare, world
<1>3. cp.extraction = "escalated" \/ cp.route = "REVIEW"
  BY <1>1, AtEvent
<1>4. "REVIEW" \in Computed("triage", st[e])
  BY ComputedOf
<1>5. /\ ledger["triage"] \in Seq(Listed(ledger["triage"])) /\ "triage" \in EventTypes
      /\ ledger["triage"] = <<>> <=> Listed(ledger["triage"]) = {}
      /\ ledger["triage"] = <<>> <=> Len(ledger["triage"]) = 0
  BY LatestIsListed DEF IInv, Types, EventTypes
<1>6. CASE ledger["triage"] = <<>>
  <2>1. /\ ledger' = [ledger EXCEPT !["triage"] = <<"REVIEW">>]
        /\ invoice' = "NEEDS_REVIEW" /\ exceptions' = 1
    BY <1>5, <1>6 DEF Prepare, InvoiceStatus, IInv, BranchesFit
  <2>2. /\ DOMAIN ledger' = EventTypes /\ ledger'["triage"] = <<"REVIEW">>
        /\ \A u \in EventTypes \ {"triage"} : ledger'[u] = ledger[u]
    BY <1>5, <2>1 DEF IInv, Types
  <2>3. Listed(ledger'["triage"]) = {"REVIEW"}
    <3>1. Listed(<<"REVIEW">>) = {"REVIEW"}
      BY DEF Listed
    <3>2. QED
      BY <2>2, <3>1
  <2>4. \A u \in EventTypes \ {"triage"} : Listed(ledger'[u]) = Listed(ledger[u])
    BY <2>2
  <2>5. \A u \in EventTypes : Listed(ledger[u]) \subseteq Listed(ledger'[u])
    BY <1>5, <1>6, <2>4
  <2>6. /\ ExecutorsFit' /\ LockFits'
        /\ pc' \in [Executors -> {"idle", "snapshot", "reading", "committing", "checkpointing"}]
        /\ item' \in [Executors -> 1 .. 3] /\ st' \in [Executors -> GraphStates]
    BY <1>1, <1>2, <1>4, <2>3, <2>5, ProceedStep DEF world
  <2>7. Types'
    <3>1. \A u \in EventTypes : ledger'[u] \in Seq(Listed(ledger'[u]))
      <4>1. ledger'["triage"] \in Seq(Listed(ledger'["triage"]))
        BY <2>2, <2>3
      <4>2. QED
        BY <2>2, <4>1 DEF IInv, Types
    <3>2. QED
      BY <1>2, <2>1, <2>2, <2>6, <3>1 DEF IInv, Types
  <2>8. CheckpointFits'
    BY <1>2, <2>5, BackedKept DEF IInv, CheckpointFits
  <2>9. PayloadsFit'
    BY <1>2, <2>3, <2>4 DEF IInv, PayloadsFit, EventTypes
  <2>10. BranchesFit'
    <3>1. Listed(ledger'["approval"]) = Listed(ledger["approval"])
      BY <2>4 DEF EventTypes
    <3>2. Len(ledger'["triage"]) = 1
      BY <2>2
    <3>3. QED
      BY <1>2, <1>3, <2>1, <3>1, <3>2 DEF IInv, BranchesFit
  <2>11. InvoiceFits'
    <3>1. Listed(ledger'["approval"]) = {}
      <4>1. Listed(ledger'["approval"]) = Listed(ledger["approval"])
        BY <2>4 DEF EventTypes
      <4>2. QED
        BY <1>3, <4>1, OneBranch DEF IInv, BranchesFit
    <3>2. Listed(ledger'["review"]) = {}
      <4>1. Listed(ledger'["review"]) = Listed(ledger["review"])
        BY <2>4 DEF EventTypes
      <4>2. accepted = None
        BY <1>5, <1>6, SignedAfterTriage
      <4>3. QED
        BY <4>1, <4>2 DEF IInv, PayloadsFit
    <3>3. QED
      BY <2>1, <2>3, <3>1, <3>2 DEF InvoiceFits
  <2>12. RunFits'
    BY <1>2 DEF IInv, RunFits
  <2>13. QED
    BY <2>6, <2>7, <2>8, <2>9, <2>10, <2>11, <2>12 DEF IInv
<1>7. CASE ledger["triage"] # <<>>
  <2>1. ledger' = ledger /\ invoice' = invoice /\ exceptions' = exceptions
    BY <1>5, <1>7 DEF Prepare, IInv, BranchesFit
  <2>2. "REVIEW" \in Listed(ledger'["triage"])
    BY <1>5, <1>7, <2>1 DEF IInv, PayloadsFit
  <2>3. /\ ExecutorsFit' /\ LockFits'
        /\ pc' \in [Executors -> {"idle", "snapshot", "reading", "committing", "checkpointing"}]
        /\ item' \in [Executors -> 1 .. 3] /\ st' \in [Executors -> GraphStates]
    BY <1>1, <1>2, <1>4, <2>1, <2>2, ProceedStep DEF world
  <2>4. Types'
    BY <1>2, <2>1, <2>3 DEF IInv, Types
  <2>5. StoreFits'
    BY <1>2, <2>1, StoreKept DEF IInv, StoreFits, store
  <2>6. QED
    BY <2>3, <2>4, <2>5 DEF IInv, StoreFits
<1>8. QED
  BY <1>6, <1>7

-----------------------------------------------------------------------------
(* Checkpoints, and what happens around the graph. *)

(* The checkpoint of a completed node, on its own. *)
LEMMA CheckpointMoves ==
    ASSUME IInv, NEW e \in Executors, Checkpoint(e), lock = e
    PROVE  /\ cp' = Completed(st[e]) /\ cp' \in GraphStates /\ Shape(cp')
           /\ Backed(cp', ledger, accepted) /\ Keeps(cp', cp)
           /\ cp.next \in Nodes /\ cp'.next = Succ(st[e]) /\ st[e].next = cp.next
<1>1. PICK s \in GraphStates : s = st[e]
  BY DEF IInv, Types
<1>2. cp' = Completed(s)
  BY <1>1 DEF Checkpoint
<1>3. e # None
  OBVIOUS
<1>4. cp \in GraphStates /\ Entry(s) = cp /\ Shape(cp) /\ Backed(cp, ledger, accepted)
      /\ accepted \in Actions \cup {None}
  BY <1>1, <1>3 DEF IInv, LockFits, CheckpointFits, Types
<1>5. Adopted(s, "checkpointing", item[e], ledger, accepted)
  BY <1>1 DEF Checkpoint, IInv, ExecutorsFit
<1>6. s.next \in Nodes /\ cp.next = s.next
  BY <1>4, <1>5, EntryOf DEF Adopted, GraphStates
<1>7. Completed(s) \in GraphStates /\ Completed(s).next = Succ(s)
  BY <1>6, CompletedOf
<1>8. Shape(Completed(s))
  BY <1>4, <1>5, CompletedShape
<1>9. Backed(Completed(s), ledger, accepted)
  BY <1>4, <1>5, CompletedBacked
<1>10. Keeps(Completed(s), cp)
  BY <1>4, <1>6, CompletedKeeps
<1>11. QED
  BY <1>1, <1>2, <1>6, <1>7, <1>8, <1>9, <1>10

LEMMA CheckpointStep ==
    ASSUME IInv, NEW e \in Executors, Checkpoint(e)
    PROVE  IInv'
<1>1. CASE lock # e
  BY <1>1, LeaveFits DEF Checkpoint
<1>2. CASE lock = e
  <2>1. PICK n : n = Completed(st[e])
    OBVIOUS
  <2>2. /\ cp' = n /\ n \in GraphStates /\ Shape(n) /\ Backed(n, ledger, accepted) /\ Keeps(n, cp)
        /\ cp.next \in Nodes /\ n.next = Succ(st[e]) /\ st[e].next = cp.next
    BY <1>2, <2>1, CheckpointMoves
  <2>3. /\ ledger' = ledger /\ invoice' = invoice /\ exceptions' = exceptions
        /\ run' = run /\ erp' = erp /\ accepted' = accepted
    BY DEF Checkpoint, store, world
  <2>4. Entry(n) = n
    BY <2>2, ShapeIsEntry
  <2>5. e # None
    OBVIOUS
  <2>6. /\ lock' \in Executors \cup {None} /\ ExecutorsFit' /\ LockFits'
        /\ pc' \in [Executors -> {"idle", "snapshot", "reading", "committing", "checkpointing"}]
        /\ item' \in [Executors -> 1 .. 3] /\ st' \in [Executors -> GraphStates]
    <3>1. CASE n.status \in Settled
      <4>1. /\ pc' = [pc EXCEPT ![e] = "idle"] /\ lock' = None /\ item' = item /\ st' = st
        BY <1>2, <2>1, <3>1 DEF Checkpoint, Leave
      <4>2. /\ pc' \in [Executors -> {"idle", "snapshot", "reading", "committing", "checkpointing"}]
            /\ pc'[e] = "idle" /\ \A x \in Executors \ {e} : pc'[x] = pc[x]
        BY <4>1 DEF IInv, Types
      <4>3. ExecutorsFit'
        BY <2>2, <2>3, <4>1, <4>2, ExecutorMoves DEF IInv
      <4>4. QED
        BY <4>1, <4>2, <4>3 DEF LockFits, IInv, Types
    <3>2. CASE n.status \notin Settled
      <4>1. Enter(e, n) /\ lock' = e
        BY <1>2, <2>1, <3>2 DEF Checkpoint
      <4>2. n.next \in Nodes \ {"HumanReview"}
        BY <2>2, <3>2 DEF GraphStates, Shape, StatusAt, Settled
      <4>3. PICK p : p = FirstStep(n.next)
        OBVIOUS
      <4>4. p \in {"snapshot", "reading", "checkpointing"}
        BY <4>2, <4>3, FirstSteps
      <4>5. /\ pc' = [pc EXCEPT ![e] = p] /\ item' = [item EXCEPT ![e] = 1]
            /\ st' = [st EXCEPT ![e] = n]
        BY <4>1, <4>3 DEF Enter
      <4>6. /\ pc' \in [Executors -> {"idle", "snapshot", "reading", "committing", "checkpointing"}]
            /\ item' \in [Executors -> 1 .. 3] /\ st' \in [Executors -> GraphStates]
            /\ pc'[e] = p /\ item'[e] = 1 /\ st'[e] = n
            /\ \A x \in Executors \ {e} : pc'[x] = pc[x] /\ item'[x] = item[x] /\ st'[x] = st[x]
        BY <2>2, <4>4, <4>5 DEF IInv, Types
      <4>7. Adopted(n, p, 1, ledger, accepted)
        BY <2>2, <2>4, <4>2, <4>3, EnteredAdopted
      <4>8. ExecutorsFit'
        <5>1. Shape(Entry(n)) /\ Keeps(n, Entry(n))
          BY <2>2, <2>4, KeepsItself
        <5>2. QED
          BY <2>2, <2>3, <4>6, <4>7, <5>1, ExecutorMoves DEF IInv
      <4>9. LockFits'
        BY <2>2, <2>4, <4>1, <4>4, <4>6 DEF LockFits
      <4>10. QED
        BY <4>1, <4>6, <4>8, <4>9
    <3>3. QED
      BY <3>1, <3>2
  <2>7. Types'
    BY <2>2, <2>3, <2>6 DEF IInv, Types
  <2>8. CheckpointFits'
    BY <2>2, <2>3 DEF CheckpointFits
  <2>9. PayloadsFit'
    BY <2>3 DEF IInv, PayloadsFit
  <2>10. /\ cp.route # None => n.route = cp.route
         /\ cp.extraction # None => n.extraction = cp.extraction
    BY <2>2 DEF Keeps, Fields
  <2>11. BranchesFit'
    BY <2>2, <2>3, <2>10 DEF IInv, BranchesFit
  <2>12. InvoiceFits'
    BY <2>3 DEF IInv, InvoiceFits
  <2>13. RunFits'
    <3>1. run # "COMPLETED"
      BY <2>2 DEF IInv, RunFits, Nodes
    <3>2. run = "PAUSED" => n.next \in {"Archive", "END"} /\ n.route = "REVIEW"
      <4>1. st[e] \in GraphStates
        BY DEF IInv, Types
      <4>2. run = "PAUSED" => cp.next \in {"HumanReview", "Archive"} /\ cp.route = "REVIEW"
        BY <2>2 DEF IInv, RunFits, Nodes
      <4>3. QED
        BY <2>2, <2>10, <4>1, <4>2, SuccOf
    <3>3. QED
      BY <2>2, <2>3, <3>1, <3>2 DEF IInv, RunFits
  <2>14. QED
    BY <2>6, <2>7, <2>8, <2>9, <2>11, <2>12, <2>13 DEF IInv
<1>3. QED
  BY <1>1, <1>2

LEMMA LoseSessionStep ==
    ASSUME IInv, LoseSession
    PROVE  IInv'
<1>1. /\ lock' = None /\ pc' = pc /\ item' = item /\ st' = st /\ cp' = cp /\ ledger' = ledger
      /\ invoice' = invoice /\ exceptions' = exceptions /\ run' = run /\ erp' = erp
      /\ accepted' = accepted
  BY DEF LoseSession, store, world, executor
<1>2. Types'
  BY <1>1 DEF IInv, Types
<1>3. ExecutorsFit'
  BY <1>1 DEF IInv, ExecutorsFit
<1>4. LockFits'
  BY <1>1 DEF LockFits
<1>5. StoreFits'
  BY <1>1, StoreKept DEF IInv, StoreFits, store
<1>6. QED
  BY <1>2, <1>3, <1>4, <1>5 DEF IInv, StoreFits

LEMMA SettleSteps ==
    ASSUME IInv, Settle \/ ReviewSettle
    PROVE  IInv'
<1>1. /\ lock' = lock /\ pc' = pc /\ item' = item /\ st' = st /\ cp' = cp /\ ledger' = ledger
      /\ invoice' = invoice /\ exceptions' = exceptions /\ erp' = erp /\ accepted' = accepted
  BY DEF Settle, ReviewSettle, store, executor
<1>2. run' \in {"PAUSED", "COMPLETED"}
  BY DEF Settle, ReviewSettle
<1>3. Shape(cp) /\ Backed(cp, ledger, accepted) /\ cp \in GraphStates
  BY DEF IInv, CheckpointFits, Types
<1>4. RunFits'
  <2>1. CASE Settle
    <3>1. accepted = None /\ cp.status \in Settled
      BY <2>1 DEF Settle, IInv, RunFits
    <3>2. cp.review = None
      BY <1>3, <3>1 DEF Backed
    <3>3. cp.status = "completed" => cp.next = "END"
      BY <1>3 DEF Shape, StatusAt
    <3>4. cp.status # "completed" => cp.next = "HumanReview" /\ cp.route = "REVIEW"
      BY <1>3, <3>1 DEF Shape, StatusAt, Settled
    <3>5. QED
      BY <1>1, <2>1, <3>1, <3>2, <3>3, <3>4 DEF Settle, RunFits
  <2>2. CASE ReviewSettle
    <3>1. run' = "COMPLETED" /\ cp.status = "completed" /\ cp.review = accepted
      BY <2>2 DEF ReviewSettle
    <3>2. cp.next = "END"
      BY <1>3, <3>1 DEF Shape, StatusAt
    <3>3. QED
      BY <1>1, <3>1, <3>2 DEF RunFits
  <2>3. QED
    BY <2>1, <2>2
<1>5. Types'
  BY <1>1, <1>2 DEF IInv, Types
<1>6. ExecutorsFit' /\ LockFits'
  BY <1>1 DEF IInv, ExecutorsFit, LockFits
<1>7. CheckpointFits' /\ PayloadsFit' /\ BranchesFit' /\ InvoiceFits'
  BY <1>1 DEF IInv, CheckpointFits, PayloadsFit, BranchesFit, InvoiceFits
<1>8. QED
  BY <1>4, <1>5, <1>6, <1>7 DEF IInv

(* No execution is in HumanReview, and no review is recorded, before the *)
(* signature.                                                            *)
LEMMA AcceptStep ==
    ASSUME IInv, NEW a \in Actions, Accept(a)
    PROVE  IInv'
<1>1. /\ lock' = lock /\ pc' = pc /\ item' = item /\ st' = st /\ cp' = cp /\ ledger' = ledger
      /\ invoice' = invoice /\ exceptions' = exceptions /\ erp' = erp /\ run' = run
      /\ accepted' = a /\ accepted = None /\ run = "PAUSED"
  BY DEF Accept, store, executor
<1>2. Types'
  BY <1>1 DEF IInv, Types
<1>3. CheckpointFits'
  <2>1. Shape(cp) /\ Backed(cp, ledger, None)
    BY <1>1 DEF IInv, CheckpointFits
  <2>2. Backed(cp, ledger, a)
    BY <2>1 DEF Backed
  <2>3. QED
    BY <1>1, <2>1, <2>2 DEF CheckpointFits
<1>4. ExecutorsFit'
  <2>1. SUFFICES ASSUME NEW x \in Executors, pc[x] # "idle"
                 PROVE  /\ Shape(Entry(st[x]))
                        /\ Keeps(cp, Entry(st[x]))
                        /\ Adopted(st[x], pc[x], item[x], ledger, a)
    BY <1>1 DEF ExecutorsFit
  <2>2. /\ Shape(Entry(st[x])) /\ Keeps(cp, Entry(st[x]))
        /\ Adopted(st[x], pc[x], item[x], ledger, None)
    BY <1>1, <2>1 DEF IInv, ExecutorsFit
  <2>3. Adopted(st[x], pc[x], item[x], ledger, a)
    BY <2>2 DEF Adopted
  <2>4. QED
    BY <2>2, <2>3
<1>5. LockFits' /\ BranchesFit'
  BY <1>1 DEF IInv, LockFits, BranchesFit
<1>6. PayloadsFit'
  BY <1>1 DEF IInv, PayloadsFit
<1>7. InvoiceFits'
  <2>1. Listed(ledger["review"]) = {}
    BY <1>1 DEF IInv, PayloadsFit
  <2>2. QED
    BY <1>1, <2>1 DEF IInv, InvoiceFits
<1>8. RunFits'
  BY <1>1 DEF IInv, RunFits
<1>9. QED
  BY <1>2, <1>3, <1>4, <1>5, <1>6, <1>7, <1>8 DEF IInv

LEMMA ErpStep ==
    ASSUME IInv, NEW v \in ErpVersions, ErpChange(v)
    PROVE  IInv'
<1>1. /\ lock' = lock /\ pc' = pc /\ item' = item /\ st' = st /\ cp' = cp /\ ledger' = ledger
      /\ invoice' = invoice /\ exceptions' = exceptions /\ erp' = v /\ run' = run
      /\ accepted' = accepted
  BY DEF ErpChange, store, executor
<1>2. Types'
  BY <1>1 DEF IInv, Types
<1>3. ExecutorsFit' /\ LockFits'
  BY <1>1 DEF IInv, ExecutorsFit, LockFits
<1>4. StoreFits'
  BY <1>1, StoreKept DEF IInv, StoreFits, store
<1>5. QED
  BY <1>2, <1>3, <1>4 DEF IInv, StoreFits

-----------------------------------------------------------------------------
LEMMA InitFits == Init => IInv
<1>1. SUFFICES ASSUME Init PROVE IInv
  OBVIOUS
<1>2. /\ cp = Initial /\ cp.next = "Ingest" /\ cp.status = "queued" /\ cp.route = None
      /\ cp.extraction = None /\ cp.erp = None /\ cp.similarity = None /\ cp.review = None
  BY <1>1 DEF Init, Initial
<1>3. Initial \in GraphStates
  BY DEF Initial, GraphStates, Nodes
<1>4. \A t \in EventTypes : ledger[t] = <<>> /\ Listed(ledger[t]) = {}
  BY <1>1 DEF Init, Listed
<1>5. Types
  <2>1. \A t \in EventTypes : ledger[t] \in Seq(Listed(ledger[t]))
    <3>1. <<>> \in Seq({})
      OBVIOUS
    <3>2. QED
      BY <1>4, <3>1
  <2>2. DOMAIN ledger = EventTypes
    BY <1>1 DEF Init
  <2>3. QED
    BY <1>1, <1>3, <2>1, <2>2 DEF Init, Types
<1>6. CheckpointFits
  BY <1>2 DEF CheckpointFits, Shape, StatusAt, Blank, Backed
<1>7. ExecutorsFit /\ LockFits
  BY <1>1 DEF Init, ExecutorsFit, LockFits
<1>8. PayloadsFit
  BY <1>4 DEF PayloadsFit, EventTypes
<1>9. BranchesFit /\ InvoiceFits
  BY <1>1, <1>4 DEF Init, BranchesFit, InvoiceFits, EventTypes
<1>10. RunFits
  BY <1>1 DEF Init, RunFits
<1>11. QED
  BY <1>5, <1>6, <1>7, <1>8, <1>9, <1>10 DEF IInv

LEMMA NextFits ==
    ASSUME IInv, [Next]_vars
    PROVE  IInv'
<1>1. CASE UNCHANGED vars
  <2>1. /\ lock' = lock /\ pc' = pc /\ item' = item /\ st' = st /\ cp' = cp /\ ledger' = ledger
        /\ invoice' = invoice /\ exceptions' = exceptions /\ erp' = erp /\ run' = run
        /\ accepted' = accepted
    BY <1>1 DEF vars, store, world, executor
  <2>2. Types' /\ ExecutorsFit' /\ LockFits'
    BY <2>1 DEF IInv, Types, ExecutorsFit, LockFits
  <2>3. StoreFits'
    BY <2>1, StoreKept DEF IInv, StoreFits, store
  <2>4. QED
    BY <2>2, <2>3 DEF IInv, StoreFits
<1>2. ASSUME NEW e \in Executors, Run(e) \/ Resume(e) \/ Step(e) \/ Stop(e)
      PROVE  IInv'
  <2>1. CASE Run(e)
    BY <2>1, RunStep
  <2>2. CASE Resume(e)
    BY <2>2, ResumeStep
  <2>3. CASE Snapshot(e)
    BY <2>3, SnapshotStep
  <2>4. CASE ReadNothing(e)
    BY <2>4, ReadNothingStep
  <2>5. CASE Replay(e)
    BY <2>5, ReplayStep
  <2>6. CASE Mismatch(e)
    BY <2>6, LeaveFits DEF Mismatch
  <2>7. CASE Commit(e)
    BY <2>7, CommitStep
  <2>8. CASE Prepare(e)
    BY <2>8, PrepareStep
  <2>9. CASE Checkpoint(e)
    BY <2>9, CheckpointStep
  <2>10. CASE Stop(e)
    BY <2>10, LeaveFits DEF Stop
  <2>11. QED
    BY <1>2, <2>1, <2>2, <2>3, <2>4, <2>5, <2>6, <2>7, <2>8, <2>9, <2>10 DEF Step
<1>3. CASE LoseSession
  BY <1>3, LoseSessionStep
<1>4. CASE Settle \/ ReviewSettle
  BY <1>4, SettleSteps
<1>5. ASSUME NEW a \in Actions, Accept(a)
      PROVE  IInv'
  BY <1>5, AcceptStep
<1>6. ASSUME NEW v \in ErpVersions, ErpChange(v)
      PROVE  IInv'
  BY <1>6, ErpStep
<1>7. QED
  BY <1>1, <1>2, <1>3, <1>4, <1>5, <1>6 DEF Next

(* The strengthening every theorem below rests on: the checkpoint, the     *)
(* evidence, the executions that may add to it, the invoice and the run    *)
(* stay in step.                                                           *)
THEOREM Invariant == Spec => []IInv
<1>1. Init => IInv
  BY InitFits
<1>2. IInv /\ [Next]_vars => IInv'
  BY NextFits
<1>3. QED
  BY <1>1, <1>2, PTL DEF Spec

(* The state of a run keeps its types: an execution in a node is at one of  *)
(* the events that node commits.                                           *)
THEOREM TypeCorrect == Spec => []TypeOK
<1>1. ASSUME IInv PROVE TypeOK
  <2>1. exceptions \in Nat
    BY <1>1 DEF IInv, BranchesFit
  <2>2. ASSUME NEW e \in Executors, pc[e] \in {"reading", "committing"}
        PROVE  item[e] \in DOMAIN Evidence(st[e].next)
    BY <1>1, <2>2 DEF IInv, ExecutorsFit, Adopted
  <2>3. item \in [Executors -> 1 .. 4]
    BY <1>1 DEF IInv, Types
  <2>4. cp \in [next: Nodes \cup {"END"}, status: {"queued", "running"} \cup Settled,
                route: {None, "AUTO_APPROVE", "REVIEW"},
                extraction: Extractions \cup {None, "escalated"},
                erp: ErpVersions \cup {None},
                similarity: {None, "NO_MATCH", "NEAR_DUPLICATE"},
                review: Actions \cup {None}]
    BY <1>1 DEF IInv, Types, GraphStates, Routes, Results
  <2>5. QED
    BY <1>1, <2>1, <2>2, <2>3, <2>4 DEF IInv, Types, TypeOK
<1>2. QED
  BY <1>1, Invariant, PTL

(* Whatever the checkpoint claims, the ledger shows: no node is            *)
(* checkpointed before its evidence is committed, and none on other        *)
(* evidence, however executions are cut, replayed or overtaken.            *)
THEOREM CheckpointsAreBacked == Spec => []EvidenceBehindCheckpoint
<1>1. ASSUME IInv PROVE EvidenceBehindCheckpoint
  <2>1. Shape(cp) /\ Backed(cp, ledger, accepted) /\ \A t : Committed(t) = Listed(ledger[t])
    BY <1>1 DEF IInv, CheckpointFits, Committed, Listed
  <2>2. cp.next \in Nodes \cup {"END"}
    BY <1>1 DEF IInv, Types, GraphStates
  <2>3. cp.status = "awaiting_review" => Committed("triage") # {} /\ exceptions = 1
    <3>1. cp.status = "awaiting_review" => cp.next = "HumanReview"
      BY <2>1 DEF Shape, StatusAt
    <3>2. cp.status = "awaiting_review" => Listed(ledger["triage"]) # {}
      BY <2>1, <3>1 DEF Shape, Backed
    <3>3. Listed(ledger["triage"]) # {} => Len(ledger["triage"]) # 0
      BY <1>1, LatestIsListed DEF IInv, Types, EventTypes
    <3>4. QED
      BY <1>1, <2>1, <3>2, <3>3 DEF IInv, BranchesFit
  <2>4. cp.status = "completed" => cp.route \in Committed("archive")
    <3>1. cp.status = "completed" => cp.next = "END"
      BY <2>1 DEF Shape, StatusAt
    <3>2. QED
      BY <2>1, <3>1 DEF Backed
  <2>5. QED
    BY <2>1, <2>3, <2>4 DEF Backed, EvidenceBehindCheckpoint
<1>2. QED
  BY <1>1, Invariant, PTL

(* An invoice is approved by a signed decision, or automatically on the     *)
(* committed evidence of a clean extraction, no near duplicate and a gate   *)
(* that says so; never both, and never automatically once it went to       *)
(* review, whatever an executor without its lock goes on to commit.        *)
THEOREM ApprovalsAreJustified == Spec => []ApprovalIsJustified
<1>1. ASSUME IInv, invoice = "APPROVED"
      PROVE  \/ /\ Committed("review") = {"APPROVE"}
                /\ accepted = "APPROVE"
                /\ Committed("approval") = {}
             \/ /\ \E g \in Committed("gate") :
                       /\ g.route = "AUTO_APPROVE"
                       /\ g.policy.similarity = "NO_MATCH"
                       /\ g.policy.extraction # "escalated"
                /\ exceptions = 0
  <2>1. Shape(cp) /\ Backed(cp, ledger, accepted) /\ \A t : Committed(t) = Listed(ledger[t])
    BY <1>1 DEF IInv, CheckpointFits, Committed, Listed
  <2>2. CASE Listed(ledger["approval"]) # {}
    <3>1. cp.route = "AUTO_APPROVE"
      BY <1>1, <2>2 DEF IInv, BranchesFit
    <3>2. cp.extraction # "escalated"
      BY <1>1, <3>1, OneBranch
    <3>3. PICK g : g = [policy |-> Input(cp), route |-> cp.route]
      OBVIOUS
    <3>4. g \in Listed(ledger["gate"]) /\ g.route = "AUTO_APPROVE" /\ g.policy = Input(cp)
      BY <2>1, <3>1, <3>2, <3>3 DEF Backed
    <3>5. PICK i \in [extraction: Extractions, erp: ErpVersions, similarity: Results] :
             \E r \in GateRoutes(i) : g = [policy |-> i, route |-> r]
      BY <1>1, <3>4 DEF IInv, PayloadsFit
    <3>6. PICK r \in GateRoutes(i) : g = [policy |-> i, route |-> r]
      BY <3>5
    <3>7. r = "AUTO_APPROVE" /\ g.policy = i
      BY <3>4, <3>6
    <3>8. Eligible(i)
      BY <3>6, <3>7 DEF GateRoutes
    <3>9. i.similarity = "NO_MATCH" /\ i.extraction # "escalated"
      BY <3>5, <3>8 DEF Eligible
    <3>10. Listed(ledger["triage"]) = {}
      BY <1>1, <3>1, <3>2 DEF IInv, BranchesFit
    <3>11. exceptions = 0
      <4>1. Len(ledger["triage"]) = 0
        BY <1>1, <3>10, LatestIsListed DEF IInv, Types, EventTypes
      <4>2. QED
        BY <1>1, <4>1 DEF IInv, BranchesFit
    <3>12. QED
      BY <2>1, <3>4, <3>7, <3>9, <3>11
  <2>3. CASE Listed(ledger["approval"]) = {} /\ Listed(ledger["review"]) # {}
    <3>1. accepted \in Actions /\ Listed(ledger["review"]) = {accepted}
      BY <1>1, <2>3 DEF IInv, PayloadsFit, Types
    <3>2. Disposition(accepted) = "APPROVED"
      BY <1>1, <2>3 DEF IInv, InvoiceFits
    <3>3. accepted = "APPROVE"
      BY <3>1, <3>2 DEF Disposition, Actions
    <3>4. QED
      BY <2>1, <2>3, <3>1, <3>3
  <2>4. CASE Listed(ledger["approval"]) = {} /\ Listed(ledger["review"]) = {}
    BY <1>1, <2>4 DEF IInv, InvoiceFits
  <2>5. QED
    BY <2>2, <2>3, <2>4
<1>2. IInv => ApprovalIsJustified
  BY <1>1 DEF ApprovalIsJustified
<1>3. QED
  BY <1>2, Invariant, PTL

(* A completed run has one disposition, its invoice carries it, and exactly *)
(* the runs a human decided have an exception.  There is at most one, and   *)
(* it was inserted with the triage evidence, however many executions reach *)
(* triage.                                                                 *)
THEOREM DispositionsAreOne == Spec => []OneDisposition
<1>1. ASSUME IInv, run = "COMPLETED"
      PROVE  IF accepted = None
             THEN invoice = "APPROVED" /\ exceptions = 0 /\ Committed("review") = {}
             ELSE /\ invoice = Disposition(accepted)
                  /\ exceptions = 1
                  /\ Committed("approval") = {}
  <2>1. Shape(cp) /\ Backed(cp, ledger, accepted) /\ \A t : Committed(t) = Listed(ledger[t])
    BY <1>1 DEF IInv, CheckpointFits, Committed, Listed
  <2>2. cp.next = "END" /\ cp.review = accepted
    BY <1>1 DEF IInv, RunFits
  <2>3. /\ Listed(ledger["triage"]) = {} <=> Len(ledger["triage"]) = 0
        /\ exceptions = Len(ledger["triage"]) /\ exceptions \in {0, 1}
    BY <1>1, LatestIsListed DEF IInv, Types, EventTypes, BranchesFit
  <2>4. CASE accepted = None
    <3>1. cp.route = "AUTO_APPROVE"
      BY <2>1, <2>2, <2>4 DEF Shape, Actions
    <3>2. Listed(ledger["approval"]) # {}
      BY <2>1, <2>2, <3>1 DEF Backed
    <3>3. Listed(ledger["triage"]) = {}
      BY <1>1, <3>1, OneBranch DEF IInv, BranchesFit
    <3>4. Listed(ledger["review"]) = {}
      BY <1>1, <2>4 DEF IInv, PayloadsFit
    <3>5. invoice = "APPROVED"
      BY <1>1, <3>2 DEF IInv, InvoiceFits
    <3>6. QED
      BY <2>1, <2>3, <2>4, <3>3, <3>4, <3>5
  <2>5. CASE accepted # None
    <3>1. Listed(ledger["triage"]) # {} /\ cp.route = "REVIEW"
      BY <1>1, <2>5, SignedAfterTriage
    <3>2. Listed(ledger["approval"]) = {}
      BY <1>1, <3>1 DEF IInv, BranchesFit
    <3>3. Listed(ledger["review"]) # {}
      BY <2>1, <2>2, <2>5 DEF Backed
    <3>4. invoice = Disposition(accepted)
      BY <1>1, <3>2, <3>3 DEF IInv, InvoiceFits
    <3>5. QED
      BY <2>1, <2>3, <2>5, <3>1, <3>2, <3>4
  <2>6. QED
    BY <2>4, <2>5
<1>2. ASSUME IInv PROVE OneDisposition
  <2>1. exceptions \in {0, 1}
    BY <1>2 DEF IInv, BranchesFit
  <2>2. exceptions \in Nat /\ exceptions <= 1
    BY <2>1
  <2>3. exceptions = Len(ledger["triage"])
    BY <1>2 DEF IInv, BranchesFit
  <2>4. QED
    BY <1>1, <1>2, <2>2, <2>3 DEF OneDisposition
<1>3. QED
  BY <1>2, Invariant, PTL

(* With nobody in the graph, a signed decision on a paused run can be       *)
(* resumed or settled: the run is at the human's node, past it with that    *)
(* decision, or at the end with all the evidence the worker asks for.       *)
THEOREM SignedDecisionsResume == Spec => []SignedDecisionResumable
<1>1. ASSUME IInv, run = "PAUSED", accepted # None
      PROVE  \/ Reviewing
             \/ Reviewed
             \/ cp.status = "completed" /\ cp.review = accepted /\ ReviewEvidence
  <2>1. Shape(cp) /\ Backed(cp, ledger, accepted)
    BY <1>1 DEF IInv, CheckpointFits
  <2>2. cp.next \in {"HumanReview", "Archive", "END"} /\ cp.route = "REVIEW"
    BY <1>1 DEF IInv, RunFits
  <2>3. CASE cp.next = "HumanReview"
    BY <2>1, <2>3 DEF Shape, StatusAt, Reviewing
  <2>4. cp.next \in {"Archive", "END"} => cp.review \in Actions
    BY <2>1, <2>2 DEF Shape
  <2>5. cp.next \in {"Archive", "END"} => cp.review = accepted /\ accepted \in Listed(ledger["review"])
    BY <2>1, <2>4 DEF Backed
  <2>6. CASE cp.next = "Archive"
    BY <2>1, <2>5, <2>6 DEF Shape, StatusAt, Reviewed
  <2>7. CASE cp.next = "END"
    <3>1. cp.status = "completed" /\ Listed(ledger["archive"]) # {} /\ Listed(ledger["review"]) # {}
      BY <2>1, <2>5, <2>7 DEF Shape, StatusAt, Backed
    <3>2. ledger["archive"] # <<>>
      BY <1>1, <3>1, LatestIsListed DEF IInv, Types, EventTypes
    <3>3. ledger["review"] # <<>> /\ Latest("review") \in Listed(ledger["review"])
      BY <1>1, <3>1, LatestIsListed DEF IInv, Types, EventTypes, Latest
    <3>4. Latest("review") = accepted
      BY <1>1, <3>3 DEF IInv, PayloadsFit
    <3>5. QED
      BY <2>5, <2>7, <3>1, <3>2, <3>3, <3>4 DEF ReviewEvidence
  <2>8. QED
    BY <2>2, <2>3, <2>6, <2>7
<1>2. IInv => SignedDecisionResumable
  BY <1>1 DEF SignedDecisionResumable
<1>3. QED
  BY <1>2, Invariant, PTL

-----------------------------------------------------------------------------
LEMMA RankOf ==
    /\ Rank("Ingest") = 1 /\ Rank("Extract") = 2 /\ Rank("Validate") = 3
    /\ Rank("Match3Way") = 4 /\ Rank("Policy") = 5 /\ Rank("Gate") = 6
    /\ Rank("AutoApprove") = 7 /\ Rank("ExceptionTriage") = 8 /\ Rank("HumanReview") = 9
    /\ Rank("Archive") = 10 /\ Rank("END") = 11
<1>1. /\ DOMAIN Order = 1 .. 11
      /\ Order[1] = "Ingest" /\ Order[2] = "Extract" /\ Order[3] = "Validate"
      /\ Order[4] = "Match3Way" /\ Order[5] = "Policy" /\ Order[6] = "Gate"
      /\ Order[7] = "AutoApprove" /\ Order[8] = "ExceptionTriage" /\ Order[9] = "HumanReview"
      /\ Order[10] = "Archive" /\ Order[11] = "END"
  BY DEF Order
<1>2. \A i \in 1 .. 11 : i \in {1, 2, 3, 4, 5, 6, 7, 8, 9, 10, 11}
  OBVIOUS
<1>3. \A k \in 1 .. 11 : \A i \in 1 .. 11 : Order[i] = Order[k] => i = k
  BY <1>1, <1>2
<1>4. \A k \in 1 .. 11 : Rank(Order[k]) = k
  BY <1>1, <1>3 DEF Rank
<1>5. QED
  BY <1>1, <1>4

(* A completed node leads to a later one. *)
LEMMA SuccRank ==
    ASSUME NEW s \in GraphStates, s.next \in Nodes
    PROVE  Rank(Succ(s)) > Rank(s.next)
BY SuccOf, RankOf DEF Nodes

(* Checkpoints only advance, and never revise what they have recorded: an   *)
(* executor that lost its lock cannot move the run back.                   *)
THEOREM CheckpointsAdvance == Spec => CheckpointAdvances
<1>1. ASSUME IInv, Next, cp' # cp
      PROVE  /\ Rank(cp'.next) > Rank(cp.next)
             /\ \A f \in {"route", "extraction", "erp", "similarity", "review"} :
                   cp[f] # None => cp'[f] = cp[f]
  <2>1. PICK e \in Executors : Checkpoint(e) /\ lock = e
    BY <1>1 DEF Next, Step, Run, Resume, Snapshot, ReadNothing, Replay, Mismatch, Commit, Prepare,
                Checkpoint, Stop, LoseSession, Settle, ReviewSettle, Accept, ErpChange
  <2>2. /\ Keeps(cp', cp) /\ cp.next \in Nodes /\ cp'.next = Succ(st[e]) /\ st[e].next = cp.next
    BY <1>1, <2>1, CheckpointMoves
  <2>3. Rank(cp'.next) > Rank(cp.next)
    BY <1>1, <2>2, SuccRank DEF IInv, Types
  <2>4. QED
    BY <2>2, <2>3 DEF Keeps, Fields
<1>2. IInv /\ [Next]_vars =>
         [cp' # cp =>
            /\ Rank(cp'.next) > Rank(cp.next)
            /\ \A f \in {"route", "extraction", "erp", "similarity", "review"} :
                  cp[f] # None => cp'[f] = cp[f]]_vars
  BY <1>1 DEF vars
<1>3. QED
  BY <1>2, Invariant, PTL DEF Spec, CheckpointAdvances

-----------------------------------------------------------------------------
(* While no session is lost.  An execution then holds the lock, so evidence *)
(* is committed by one execution at a time: once, behind the checkpoint or  *)
(* at its node, and there of the state the node was entered with.           *)

ControlEvents == {"extraction", "validation", "matching", "similarity", "classification", "policy",
                  "gate"}

(* The events behind a checkpoint on the review branch, or the other. *)
BranchEvents(c) ==
    IF c.route = "AUTO_APPROVE" THEN ControlEvents \cup {"approval"}
    ELSE IF c.extraction = "escalated" THEN {"extraction", "triage", "review"}
    ELSE ControlEvents \cup {"triage", "review"}

(* The events of the nodes the checkpoint c has behind it. *)
Behind(c) ==
    CASE c.next \in {"Ingest", "Extract"} -> {}
      [] c.next = "Validate" -> {"extraction"}
      [] c.next = "Match3Way" -> {"extraction", "validation"}
      [] c.next = "Policy" -> {"extraction", "validation", "matching"}
      [] c.next = "Gate" -> ControlEvents \ {"gate"}
      [] c.next = "AutoApprove" -> BranchEvents(c) \ {"approval"}
      [] c.next = "ExceptionTriage" -> BranchEvents(c) \ {"triage", "review"}
      [] c.next = "HumanReview" -> BranchEvents(c) \ {"review"}
      [] c.next = "Archive" -> BranchEvents(c)
      [] c.next = "END" -> BranchEvents(c) \cup {"archive"}

(* The events of the checkpointed node. *)
Here(c) == {t \in EventTypes : \E i \in 1 .. 3 : Position(c.next, i, t)}

(* The ledger l has of the checkpointed node what follows from c, whatever *)
(* execution it is of; v is the order's version, n how often it changed.   *)
Follows(c, l, v, n) ==
    /\ c.next = "Validate" => Listed(l["validation"]) \subseteq {c.extraction}
    /\ c.next = "Match3Way" =>
          \A m \in Listed(l["matching"]) :
             \E x \in ErpVersions : /\ m = [extraction |-> c.extraction, erp |-> x]
                                    /\ x = v \/ n > 0
    /\ c.next = "Policy" =>
          /\ \A m \in Listed(l["similarity"]) : m.extraction = c.extraction
          /\ \A t \in {"classification", "policy"} : \A p \in Listed(l[t]) :
                \E m \in Listed(l["similarity"]) :
                   p = [extraction |-> c.extraction, erp |-> c.erp, similarity |-> m.result]
    /\ c.next = "Gate" => \A g \in Listed(l["gate"]) : g.policy = Input(c)
    /\ c.next = "AutoApprove" => Listed(l["approval"]) \subseteq {Input(c)}
    /\ c.next = "Archive" => Listed(l["archive"]) \subseteq {c.route}

EvidenceIsSerial ==
    /\ \A t \in EventTypes : Len(ledger[t]) <= 1
    /\ \A t \in Behind(cp) : ledger[t] # <<>>
    /\ \A t \in EventTypes \ (Behind(cp) \cup Here(cp)) : ledger[t] = <<>>
    /\ Follows(cp, ledger, erp, erpChanges)

ExecutorsAreSerial ==
    \A e \in Executors : pc[e] # "idle" =>
        /\ lock = e
        /\ pc[e] = "committing" => ledger[EventAt(e)] = <<>>
        /\ st[e].next = "Match3Way" /\ st[e].erp # None => st[e].erp = erp \/ erpChanges > 0
        /\ st[e].next = "Validate" /\ pc[e] = "checkpointing" => ledger["validation"] # <<>>

SInv ==
    /\ losses \in Nat /\ erpChanges \in Nat
    /\ losses = 0 => EvidenceIsSerial /\ ExecutorsAreSerial

LEMMA HereOf ==
    ASSUME NEW c \in GraphStates
    PROVE  /\ c.next \in {"Ingest", "END"} => Here(c) = {}
           /\ c.next = "Extract" => Here(c) = {"extraction"}
           /\ c.next = "Validate" => Here(c) = {"validation"}
           /\ c.next = "Match3Way" => Here(c) = {"matching"}
           /\ c.next = "Policy" => Here(c) = {"similarity", "classification", "policy"}
           /\ c.next = "Gate" => Here(c) = {"gate"}
           /\ c.next = "AutoApprove" => Here(c) = {"approval"}
           /\ c.next = "ExceptionTriage" => Here(c) = {"triage"}
           /\ c.next = "HumanReview" => Here(c) = {"review"}
           /\ c.next = "Archive" => Here(c) = {"archive"}
BY DEF Here, Position, EventTypes

LEMMA BehindOf ==
    ASSUME NEW c \in GraphStates
    PROVE  /\ c.next \in {"Ingest", "Extract"} => Behind(c) = {}
           /\ c.next = "Validate" => Behind(c) = {"extraction"}
           /\ c.next = "Match3Way" => Behind(c) = {"extraction", "validation"}
           /\ c.next = "Policy" => Behind(c) = {"extraction", "validation", "matching"}
           /\ c.next = "Gate" => Behind(c) = ControlEvents \ {"gate"}
           /\ c.next = "AutoApprove" => Behind(c) = BranchEvents(c) \ {"approval"}
           /\ c.next = "ExceptionTriage" => Behind(c) = BranchEvents(c) \ {"triage", "review"}
           /\ c.next = "HumanReview" => Behind(c) = BranchEvents(c) \ {"review"}
           /\ c.next = "Archive" => Behind(c) = BranchEvents(c)
           /\ c.next = "END" => Behind(c) = BranchEvents(c) \cup {"archive"}
BY DEF Behind

LEMMA BranchEventsOf ==
    ASSUME NEW c \in GraphStates
    PROVE  /\ c.route = "AUTO_APPROVE" => BranchEvents(c) = ControlEvents \cup {"approval"}
           /\ c.route # "AUTO_APPROVE" /\ c.extraction = "escalated" =>
                 BranchEvents(c) = {"extraction", "triage", "review"}
           /\ c.route # "AUTO_APPROVE" /\ c.extraction # "escalated" =>
                 BranchEvents(c) = ControlEvents \cup {"triage", "review"}
BY DEF BranchEvents

(* What is behind a checkpoint is not of its node. *)
LEMMA BehindIsPast ==
    ASSUME NEW c \in GraphStates
    PROVE  Behind(c) \subseteq EventTypes /\ Behind(c) \cap Here(c) = {}
<1>1. BranchEvents(c) \subseteq EventTypes /\ "archive" \notin BranchEvents(c)
  BY BranchEventsOf DEF ControlEvents, EventTypes
<1>2. CASE c.next \in {"Ingest", "Extract", "Validate", "Match3Way", "Policy", "Gate"}
  BY <1>2, BehindOf, HereOf DEF ControlEvents, EventTypes
<1>3. CASE c.next \in {"AutoApprove", "ExceptionTriage", "HumanReview"}
  BY <1>1, <1>3, BehindOf, HereOf
<1>4. CASE c.next \in {"Archive", "END"}
  BY <1>1, <1>4, BehindOf, HereOf DEF EventTypes
<1>5. QED
  BY <1>2, <1>3, <1>4 DEF GraphStates, Nodes

(* A completed node adds its events to what is behind. *)
LEMMA BehindGrows ==
    ASSUME NEW s \in GraphStates, NEW c \in GraphStates, c = Entry(s), Shape(c),
           NEW i, NEW l, NEW a, Adopted(s, "checkpointing", i, l, a)
    PROVE  Behind(Completed(s)) = Behind(c) \cup Here(c)
<1>1. PICK n : n = Completed(s)
  OBVIOUS
<1>2. s.next \in Nodes
  BY DEF Adopted, GraphStates
<1>3. /\ n \in GraphStates /\ n.next = Succ(s) /\ n.extraction = s.extraction
      /\ n.route = IF s.next = "ExceptionTriage" THEN "REVIEW" ELSE s.route
  BY <1>1, <1>2, CompletedOf
<1>4. /\ c.next = s.next
      /\ s.next # "Extract" => c.extraction = s.extraction
      /\ s.next # "Gate" => c.route = s.route
  BY EntryOf
<1>5. CASE s.next \in {"Ingest", "Validate", "Match3Way", "Policy"}
  <2>1. CASE s.next = "Ingest"
    BY <1>1, <1>3, <1>4, <2>1, SuccOf, BehindOf, HereOf
  <2>2. CASE s.next = "Validate"
    BY <1>1, <1>3, <1>4, <2>2, SuccOf, BehindOf, HereOf
  <2>3. CASE s.next = "Match3Way"
    BY <1>1, <1>3, <1>4, <2>3, SuccOf, BehindOf, HereOf
  <2>4. CASE s.next = "Policy"
    BY <1>1, <1>3, <1>4, <2>4, SuccOf, BehindOf, HereOf DEF ControlEvents
  <2>5. QED
    BY <1>5, <2>1, <2>2, <2>3, <2>4
<1>6. CASE s.next = "Extract"
  <2>1. s.route = None /\ n.route # "AUTO_APPROVE"
    BY <1>3, <1>4, <1>6 DEF Shape, Blank
  <2>2. CASE s.extraction = "escalated"
    <3>1. n.next = "ExceptionTriage" /\ BranchEvents(n) = {"extraction", "triage", "review"}
      BY <1>3, <1>6, <2>1, <2>2, SuccOf, BranchEventsOf
    <3>2. QED
      BY <1>1, <1>3, <1>4, <1>6, <3>1, BehindOf, HereOf
  <2>3. CASE s.extraction # "escalated"
    BY <1>1, <1>3, <1>4, <1>6, <2>3, SuccOf, BehindOf, HereOf
  <2>4. QED
    BY <2>2, <2>3
<1>7. CASE s.next = "Gate"
  <2>1. n.extraction # "escalated"
    BY <1>3, <1>4, <1>7 DEF Shape, Matched
  <2>2. Behind(c) \cup Here(c) = ControlEvents
    BY <1>4, <1>7, BehindOf, HereOf DEF ControlEvents
  <2>3. CASE s.route = "AUTO_APPROVE"
    <3>1. n.next = "AutoApprove" /\ BranchEvents(n) = ControlEvents \cup {"approval"}
      BY <1>3, <1>7, <2>3, SuccOf, BranchEventsOf
    <3>2. Behind(n) = ControlEvents
      BY <1>3, <3>1, BehindOf DEF ControlEvents
    <3>3. QED
      BY <1>1, <2>2, <3>2
  <2>4. CASE s.route # "AUTO_APPROVE"
    <3>1. n.next = "ExceptionTriage" /\ BranchEvents(n) = ControlEvents \cup {"triage", "review"}
      BY <1>3, <1>7, <2>1, <2>4, SuccOf, BranchEventsOf
    <3>2. Behind(n) = ControlEvents
      BY <1>3, <3>1, BehindOf DEF ControlEvents
    <3>3. QED
      BY <1>1, <2>2, <3>2
  <2>5. QED
    BY <2>3, <2>4
<1>8. CASE s.next \in {"AutoApprove", "ExceptionTriage", "HumanReview", "Archive"}
  <2>1. c.route = "AUTO_APPROVE" <=> n.route = "AUTO_APPROVE"
    BY <1>3, <1>4, <1>8 DEF Shape
  <2>2. BranchEvents(n) = BranchEvents(c)
    BY <1>3, <1>4, <1>8, <2>1, BranchEventsOf
  <2>3. /\ s.next = "AutoApprove" => "approval" \in BranchEvents(c)
        /\ s.next = "ExceptionTriage" =>
              "triage" \in BranchEvents(c) /\ "review" \in BranchEvents(c)
        /\ s.next = "HumanReview" => "review" \in BranchEvents(c)
    BY <1>4, BranchEventsOf DEF Shape
  <2>4. CASE s.next = "AutoApprove"
    BY <1>1, <1>3, <1>4, <2>2, <2>3, <2>4, SuccOf, BehindOf, HereOf
  <2>5. CASE s.next = "ExceptionTriage"
    BY <1>1, <1>3, <1>4, <2>2, <2>3, <2>5, SuccOf, BehindOf, HereOf
  <2>6. CASE s.next = "HumanReview"
    BY <1>1, <1>3, <1>4, <2>2, <2>3, <2>6, SuccOf, BehindOf, HereOf
  <2>7. CASE s.next = "Archive"
    BY <1>1, <1>3, <1>4, <2>2, <2>7, SuccOf, BehindOf, HereOf
  <2>8. QED
    BY <1>8, <2>4, <2>5, <2>6, <2>7
<1>9. QED
  BY <1>2, <1>5, <1>6, <1>7, <1>8 DEF Nodes

(* At its checkpoint an execution has committed every event of its node. *)
LEMMA HereIsListed ==
    ASSUME NEW s \in GraphStates, NEW i, NEW l, NEW a, Adopted(s, "checkpointing", i, l, a),
           s.next = "Validate" => Listed(l["validation"]) # {}
    PROVE  \A t \in Here(s) : Listed(l[t]) # {}
<1>1. s.next \in Nodes
  BY DEF Adopted, GraphStates
<1>2. CASE s.next \in {"Ingest", "Validate"}
  BY <1>2, HereOf
<1>3. CASE s.next \in {"Extract", "Match3Way", "Policy", "Gate"}
  BY <1>3, HereOf DEF Adopted
<1>4. CASE s.next \in {"AutoApprove", "ExceptionTriage", "HumanReview", "Archive"}
  BY <1>4, HereOf DEF Adopted
<1>5. QED
  BY <1>1, <1>2, <1>3, <1>4 DEF Nodes

LEMMA AtMostOne ==
    ASSUME NEW q, q \in Seq(Listed(q)), Len(q) <= 1, NEW x \in Listed(q), NEW y \in Listed(q)
    PROVE  x = y
<1>1. PICK i \in DOMAIN q : x = q[i]
  BY DEF Listed
<1>2. PICK j \in DOMAIN q : y = q[j]
  BY DEF Listed
<1>3. i = j
  OBVIOUS
<1>4. QED
  BY <1>1, <1>2, <1>3

LEMMA HolderAt ==
    ASSUME IInv, ExecutorsAreSerial, NEW e \in Executors, pc[e] # "idle"
    PROVE  /\ lock = e /\ \A x \in Executors \ {e} : pc[x] = "idle"
           /\ st[e] \in GraphStates /\ cp \in GraphStates /\ Shape(cp)
           /\ Entry(st[e]) = cp /\ cp.next = st[e].next
           /\ cp.next # "Extract" => cp.extraction = st[e].extraction
           /\ cp.next # "Match3Way" => cp.erp = st[e].erp
           /\ cp.next # "Policy" => cp.similarity = st[e].similarity
           /\ cp.next # "Gate" => cp.route = st[e].route
           /\ Adopted(st[e], pc[e], item[e], ledger, accepted)
           /\ pc[e] \in {"reading", "committing"} =>
                 /\ EventAt(e) \in Here(cp) /\ Here(cp) \subseteq EventTypes
                 /\ Position(cp.next, item[e], EventAt(e))
<1>1. lock = e /\ \A x \in Executors \ {e} : pc[x] = "idle"
  BY DEF ExecutorsAreSerial
<1>2. e # None
  OBVIOUS
<1>3. Entry(st[e]) = cp
  BY <1>1, <1>2 DEF IInv, LockFits
<1>4. st[e] \in GraphStates /\ cp \in GraphStates /\ Shape(cp) /\ item[e] \in 1 .. 3
  BY DEF IInv, Types, CheckpointFits
<1>5. Adopted(st[e], pc[e], item[e], ledger, accepted)
  BY DEF IInv, ExecutorsFit
<1>6. /\ cp.next = st[e].next
      /\ cp.next # "Extract" => cp.extraction = st[e].extraction
      /\ cp.next # "Match3Way" => cp.erp = st[e].erp
      /\ cp.next # "Policy" => cp.similarity = st[e].similarity
      /\ cp.next # "Gate" => cp.route = st[e].route
  BY <1>3, <1>4, EntryOf
<1>7. ASSUME pc[e] \in {"reading", "committing"}
      PROVE  EventAt(e) \in Here(cp) /\ Position(cp.next, item[e], EventAt(e))
  <2>1. st[e].next \in Nodes /\ item[e] \in DOMAIN Evidence(st[e].next)
    BY <1>4, <1>5, <1>7 DEF Adopted, GraphStates
  <2>2. Position(st[e].next, item[e], EventAt(e)) /\ EventAt(e) \in EventTypes
    BY <2>1, Positions DEF EventAt
  <2>3. QED
    BY <1>4, <1>6, <2>2 DEF Here
<1>8. QED
  BY <1>1, <1>3, <1>4, <1>5, <1>6, <1>7 DEF Here

(* The payload v of the event t that an execution in state s commits, the  *)
(* first of its type, follows from the state c it entered its node with.   *)
Appends(c, s, i, t, v, l, m, a, w, n) ==
    /\ c \in GraphStates /\ s \in GraphStates /\ c.next = s.next
    /\ c.next # "Extract" => c.extraction = s.extraction
    /\ c.next # "Match3Way" => c.erp = s.erp
    /\ c.next # "Policy" => c.similarity = s.similarity
    /\ c.next = "Match3Way" => s.erp \in ErpVersions /\ (s.erp = w \/ n > 0)
    /\ c.next # "Gate" => c.route = s.route
    /\ Adopted(s, "committing", i, l, a) /\ Position(c.next, i, t)
    /\ v \in Computed(t, s) /\ Listed(l[t]) = {} /\ Listed(m[t]) = {v}
    /\ \A u \in EventTypes \ {t} : Listed(m[u]) = Listed(l[u])

LEMMA FollowsGrows ==
    ASSUME NEW c, NEW s, NEW i, NEW t, NEW v, NEW l, NEW m, NEW a, NEW w, NEW n,
           Appends(c, s, i, t, v, l, m, a, w, n), Follows(c, l, w, n)
    PROVE  Follows(c, m, w, n)
<1>1. CASE c.next = "Validate"
  <2>1. v = c.extraction /\ Listed(m["validation"]) = {v}
    BY <1>1, ComputedOf DEF Appends, Position
  <2>2. QED
    BY <1>1, <2>1 DEF Follows
<1>2. CASE c.next = "Match3Way"
  <2>1. v = [extraction |-> c.extraction, erp |-> s.erp] /\ Listed(m["matching"]) = {v}
    BY <1>2, ComputedOf DEF Appends, Position
  <2>2. s.erp \in ErpVersions /\ (s.erp = w \/ n > 0)
    BY <1>2 DEF Appends
  <2>3. QED
    BY <1>2, <2>1, <2>2 DEF Follows
<1>3. CASE c.next = "Policy"
  <2>1. CASE t = "similarity"
    <3>1. PICK r \in Results : v = [extraction |-> c.extraction, result |-> r]
      BY <1>3, <2>1, ComputedOf DEF Appends
    <3>2. Listed(m["similarity"]) = {v} /\ Listed(l["similarity"]) = {}
      BY <2>1 DEF Appends
    <3>3. \A u \in {"classification", "policy"} : Listed(m[u]) = {}
      <4>1. \A u \in {"classification", "policy"} : Listed(l[u]) = {}
        BY <1>3, <3>2 DEF Follows
      <4>2. QED
        BY <2>1, <4>1 DEF Appends, EventTypes
    <3>4. QED
      BY <1>3, <3>1, <3>2, <3>3 DEF Follows
  <2>2. CASE t \in {"classification", "policy"}
    <3>1. v = [extraction |-> c.extraction, erp |-> c.erp, similarity |-> s.similarity]
      <4>1. v = Input(s)
        <5>1. CASE t = "classification"
          BY <5>1, ComputedOf DEF Appends
        <5>2. CASE t = "policy"
          BY <5>2, ComputedOf DEF Appends
        <5>3. QED
          BY <2>2, <5>1, <5>2
      <4>2. s.extraction = c.extraction /\ s.erp = c.erp
        BY <1>3 DEF Appends
      <4>3. QED
        BY <4>1, <4>2 DEF Input
    <3>2. [extraction |-> c.extraction, result |-> s.similarity] \in Listed(l["similarity"])
      BY <1>3, <2>2 DEF Appends, Position, Adopted
    <3>3. PICK d : d = [extraction |-> c.extraction, result |-> s.similarity]
      OBVIOUS
    <3>4. d.result = s.similarity /\ d \in Listed(l["similarity"])
      BY <3>2, <3>3
    <3>5. Listed(m["similarity"]) = Listed(l["similarity"])
      BY <2>2 DEF Appends, EventTypes
    <3>6. \A u \in {"classification", "policy"} : u # t => Listed(m[u]) = Listed(l[u])
      BY DEF Appends, EventTypes
    <3>7. Listed(m[t]) = {v}
      BY DEF Appends
    <3>8. \A u \in {"classification", "policy"} : \A p \in Listed(m[u]) :
             \E e \in Listed(m["similarity"]) :
                p = [extraction |-> c.extraction, erp |-> c.erp, similarity |-> e.result]
      BY <1>3, <3>1, <3>4, <3>5, <3>6, <3>7 DEF Follows
    <3>9. QED
      BY <1>3, <3>5, <3>8 DEF Follows
  <2>3. QED
    BY <1>3, <2>1, <2>2 DEF Appends, Position
<1>4. CASE c.next = "Gate"
  <2>1. Listed(m["gate"]) = {v} /\ v \in Computed("gate", s)
    BY <1>4 DEF Appends, Position
  <2>2. PICK r : v = [policy |-> Input(s), route |-> r]
    BY <2>1, ComputedOf
  <2>3. Input(s) = Input(c)
    BY <1>4 DEF Appends, Input
  <2>4. v.policy = Input(c)
    BY <2>2, <2>3
  <2>5. QED
    BY <1>4, <2>1, <2>4 DEF Follows
<1>5. CASE c.next = "AutoApprove"
  <2>1. v = Input(s) /\ Listed(m["approval"]) = {v}
    BY <1>5, ComputedOf DEF Appends, Position
  <2>2. Input(s) = Input(c)
    BY <1>5 DEF Appends, Input
  <2>3. QED
    BY <1>5, <2>1, <2>2 DEF Follows
<1>6. CASE c.next = "Archive"
  <2>1. v = c.route /\ Listed(m["archive"]) = {v}
    BY <1>6, ComputedOf DEF Appends, Position
  <2>2. QED
    BY <1>6, <2>1 DEF Follows
<1>7. CASE c.next \notin {"Validate", "Match3Way", "Policy", "Gate", "AutoApprove", "Archive"}
  BY <1>7 DEF Follows
<1>8. QED
  BY <1>1, <1>2, <1>3, <1>4, <1>5, <1>6, <1>7

(* The first payload of an execution's event is committed. *)
LEMMA AppendSerial ==
    ASSUME IInv, SInv, losses = 0, NEW e \in Executors, pc[e] = "committing",
           NEW v \in Computed(EventAt(e), st[e]),
           ledger' = [ledger EXCEPT ![EventAt(e)] = <<v>>], Proceed(e, EventAt(e), v),
           UNCHANGED <<cp, lock, world, bounds>>
    PROVE  SInv'
<1>1. PICK t : t = EventAt(e)
  OBVIOUS
<1>2. PICK s \in GraphStates : s = st[e]
  BY DEF IInv, Types
<1>3. /\ lock = e /\ \A x \in Executors \ {e} : pc[x] = "idle"
      /\ cp \in GraphStates /\ Shape(cp) /\ cp.next = s.next
      /\ cp.next # "Extract" => cp.extraction = s.extraction
      /\ cp.next # "Match3Way" => cp.erp = s.erp
      /\ cp.next # "Policy" => cp.similarity = s.similarity
      /\ cp.next # "Gate" => cp.route = s.route
      /\ Adopted(s, "committing", item[e], ledger, accepted)
      /\ t \in Here(cp) /\ t \in EventTypes /\ Position(cp.next, item[e], t)
  BY <1>1, <1>2, HolderAt DEF SInv
<1>4. /\ EvidenceIsSerial /\ ledger[t] = <<>>
      /\ s.next = "Match3Way" /\ s.erp # None => s.erp = erp \/ erpChanges > 0
  BY <1>1, <1>2 DEF SInv, ExecutorsAreSerial
<1>5. /\ cp' = cp /\ lock' = lock /\ erp' = erp /\ losses' = losses /\ erpChanges' = erpChanges
  BY DEF world, bounds
<1>6. /\ ledger'[t] = <<v>> /\ \A u \in EventTypes \ {t} : ledger'[u] = ledger[u]
  BY <1>1, <1>3 DEF IInv, Types
<1>7. Listed(ledger[t]) = {} /\ Listed(ledger'[t]) = {v} /\ Len(ledger'[t]) = 1 /\ ledger'[t] # <<>>
  <2>1. Listed(<<>>) = {} /\ Listed(<<v>>) = {v} /\ Len(<<v>>) = 1 /\ <<v>> # <<>>
    BY DEF Listed
  <2>2. QED
    BY <1>4, <1>6, <2>1
<1>8. Follows(cp, ledger', erp, erpChanges)
  <2>1. cp.next = "Match3Way" => s.erp \in ErpVersions /\ (s.erp = erp \/ erpChanges > 0)
    <3>1. cp.next = "Match3Way" => s.erp # None
      BY <1>3 DEF Adopted
    <3>2. QED
      BY <1>3, <1>4, <3>1 DEF GraphStates
  <2>2. PICK m : m = ledger'
    OBVIOUS
  <2>3. \A u \in EventTypes \ {t} : Listed(m[u]) = Listed(ledger[u])
    BY <1>6, <2>2
  <2>4. Appends(cp, s, item[e], t, v, ledger, m, accepted, erp, erpChanges)
    BY <1>1, <1>2, <1>3, <1>7, <2>1, <2>2, <2>3 DEF Appends
  <2>5. Follows(cp, ledger, erp, erpChanges)
    BY <1>4 DEF EvidenceIsSerial
  <2>6. Follows(cp, m, erp, erpChanges)
    BY <2>4, <2>5, FollowsGrows
  <2>7. QED
    BY <2>2, <2>6
<1>9. EvidenceIsSerial'
  <2>1. \A u \in EventTypes : Len(ledger'[u]) <= 1
    BY <1>4, <1>6, <1>7 DEF EvidenceIsSerial
  <2>2. \A u \in Behind(cp) : ledger'[u] # <<>>
    BY <1>3, <1>4, <1>6, BehindIsPast DEF EvidenceIsSerial
  <2>3. \A u \in EventTypes \ (Behind(cp) \cup Here(cp)) : ledger'[u] = <<>>
    BY <1>3, <1>4, <1>6 DEF EvidenceIsSerial
  <2>4. QED
    BY <1>5, <1>8, <2>1, <2>2, <2>3 DEF EvidenceIsSerial
<1>10. ExecutorsAreSerial'
  <2>1. PICK r : r = Adopt(t, v, s)
    OBVIOUS
  <2>2. /\ st' = [st EXCEPT ![e] = r]
        /\ pc' \in {[pc EXCEPT ![e] = "checkpointing"], [pc EXCEPT ![e] = "reading"]}
    BY <1>1, <1>2, <2>1 DEF Proceed
  <2>3. st'[e] = r /\ pc'[e] \in {"checkpointing", "reading"}
    BY <2>2 DEF IInv, Types
  <2>4. \A x \in Executors \ {e} : pc'[x] = "idle"
    BY <1>3, <2>2 DEF IInv, Types
  <2>5. r.next = s.next /\ r.erp = s.erp
    <3>1. CASE t = "extraction"
      BY <2>1, <3>1, AdoptOf DEF GraphStates
    <3>2. CASE t = "similarity"
      BY <2>1, <3>2, AdoptOf DEF GraphStates
    <3>3. CASE t = "gate"
      BY <2>1, <3>3, AdoptOf DEF GraphStates
    <3>4. CASE t \notin {"extraction", "similarity", "gate"}
      <4>1. r = s
        BY <2>1, <3>4 DEF Adopt
      <4>2. QED
        BY <4>1
    <3>5. QED
      BY <3>1, <3>2, <3>3, <3>4
  <2>6. s.next = "Validate" => ledger'["validation"] # <<>>
    BY <1>3, <1>7 DEF Position
  <2>7. QED
    BY <1>3, <1>4, <1>5, <2>3, <2>4, <2>5, <2>6 DEF ExecutorsAreSerial
<1>11. QED
  BY <1>5, <1>9, <1>10 DEF SInv

(* A step of the execution e that adds nothing to checkpoint and ledger. *)
LEMMA QuietSerial ==
    ASSUME SInv, losses = 0, NEW e \in Executors,
           cp' = cp, ledger' = ledger, erp' = erp, UNCHANGED <<losses, erpChanges>>,
           \A x \in Executors \ {e} : pc'[x] = "idle",
           pc'[e] # "idle" =>
               /\ lock' = e
               /\ pc'[e] = "committing" => ledger[EventAt(e)'] = <<>>
               /\ st'[e].next = "Match3Way" /\ st'[e].erp # None => st'[e].erp = erp \/ erpChanges > 0
               /\ st'[e].next = "Validate" /\ pc'[e] = "checkpointing" => ledger["validation"] # <<>>
    PROVE  SInv'
<1>1. EvidenceIsSerial'
  BY DEF SInv, EvidenceIsSerial
<1>2. ExecutorsAreSerial'
  BY DEF ExecutorsAreSerial
<1>3. QED
  BY <1>1, <1>2 DEF SInv

LEMMA LeaveSerial ==
    ASSUME IInv, SInv, losses = 0, NEW e \in Executors, pc[e] # "idle", Leave(e),
           UNCHANGED <<cp, store, world, losses, erpChanges>>
    PROVE  SInv'
<1>1. \A x \in Executors \ {e} : pc[x] = "idle"
  BY HolderAt DEF SInv
<1>2. pc' = [pc EXCEPT ![e] = "idle"] /\ cp' = cp /\ ledger' = ledger /\ erp' = erp
  BY DEF Leave, store, world
<1>3. pc'[e] = "idle" /\ \A x \in Executors \ {e} : pc'[x] = "idle"
  BY <1>1, <1>2 DEF IInv, Types
<1>4. QED
  BY <1>2, <1>3, QuietSerial

LEMMA EnterSerial ==
    ASSUME IInv, SInv, losses = 0, NEW e \in Executors, NEW s \in GraphStates, s.next \in Nodes,
           lock = None, Enter(e, s), lock' = e, s.next = "Match3Way" => s.erp = None,
           UNCHANGED <<cp, store, world, bounds>>
    PROVE  SInv'
<1>1. PICK p : p = FirstStep(s.next)
  OBVIOUS
<1>2. p \notin {"idle", "committing"} /\ (p = "checkpointing" => s.next = "Ingest")
  BY <1>1, FirstSteps
<1>3. \A x \in Executors : pc[x] = "idle"
  <2>1. \A x \in Executors : x # None
    OBVIOUS
  <2>2. QED
    BY <2>1 DEF SInv, ExecutorsAreSerial
<1>4. /\ pc' = [pc EXCEPT ![e] = p] /\ st' = [st EXCEPT ![e] = s]
      /\ cp' = cp /\ ledger' = ledger /\ erp' = erp /\ UNCHANGED <<losses, erpChanges>>
  BY <1>1 DEF Enter, store, world, bounds
<1>5. /\ pc'[e] = p /\ st'[e] = s /\ \A x \in Executors \ {e} : pc'[x] = "idle"
  BY <1>3, <1>4 DEF IInv, Types
<1>6. QED
  BY <1>2, <1>4, <1>5, QuietSerial

LEMMA EntrySerial ==
    ASSUME IInv, SInv, losses = 0, NEW e \in Executors, Run(e) \/ Resume(e)
    PROVE  SInv'
<1>1. cp \in GraphStates /\ Shape(cp)
  BY DEF IInv, Types, CheckpointFits
<1>2. cp.next = "Match3Way" => cp.erp = None
  BY <1>1 DEF Shape
<1>3. CASE Run(e)
  <2>1. cp.next \in Nodes
    BY <1>1, <1>3 DEF Run, Shape, StatusAt, Settled, GraphStates
  <2>2. QED
    BY <1>1, <1>2, <1>3, <2>1, EnterSerial DEF Run
<1>4. CASE Resume(e) /\ Reviewing /\ Enter(e, [cp EXCEPT !.review = accepted])
  <2>1. PICK s : s = [cp EXCEPT !.review = accepted]
    OBVIOUS
  <2>2. s \in GraphStates /\ s.next = "HumanReview"
    BY <1>1, <1>4, <2>1 DEF GraphStates, Reviewing, Resume, IInv, Types
  <2>3. s.next \in Nodes
    BY <2>2 DEF Nodes
  <2>4. QED
    BY <1>4, <2>1, <2>2, <2>3, EnterSerial DEF Resume
<1>5. CASE Resume(e) /\ Reviewed /\ Enter(e, cp)
  <2>1. cp.status = "running"
    BY <1>5 DEF Reviewed
  <2>2. cp.next \in Nodes
    BY <1>1, <2>1 DEF Shape, StatusAt, GraphStates
  <2>3. QED
    BY <1>1, <1>2, <1>5, <2>2, EnterSerial DEF Resume
<1>6. QED
  BY <1>3, <1>4, <1>5 DEF Resume

(* Snapshot, ReadNothing and Replay *)
LEMMA ReadSerial ==
    ASSUME IInv, SInv, losses = 0, NEW e \in Executors, Snapshot(e) \/ ReadNothing(e) \/ Replay(e)
    PROVE  SInv'
<1>1. pc[e] \in {"snapshot", "reading"}
  BY DEF Snapshot, ReadNothing, Replay
<1>2. PICK s \in GraphStates : s = st[e]
  BY DEF IInv, Types
<1>3. /\ lock = e /\ \A x \in Executors \ {e} : pc[x] = "idle"
      /\ pc[e] = "reading" => Position(s.next, item[e], EventAt(e)) /\ EventAt(e) \in EventTypes
  BY <1>1, <1>2, HolderAt DEF SInv
<1>4. s.next = "Match3Way" /\ s.erp # None => s.erp = erp \/ erpChanges > 0
  BY <1>1, <1>2 DEF SInv, ExecutorsAreSerial
<1>5. /\ cp' = cp /\ lock' = lock /\ ledger' = ledger /\ erp' = erp
      /\ UNCHANGED <<losses, erpChanges>>
  BY DEF Snapshot, ReadNothing, Replay, store, world, bounds
<1>6. CASE Snapshot(e)
  <2>1. pc' = [pc EXCEPT ![e] = "reading"] /\ st' = [st EXCEPT ![e].erp = erp]
    BY <1>6 DEF Snapshot
  <2>2. /\ pc'[e] = "reading" /\ st'[e] = [s EXCEPT !.erp = erp]
        /\ \A x \in Executors \ {e} : pc'[x] = "idle"
    BY <1>2, <1>3, <2>1 DEF IInv, Types
  <2>3. st'[e].erp = erp
    BY <2>2 DEF GraphStates
  <2>4. QED
    BY <1>3, <1>5, <2>2, <2>3, QuietSerial
<1>7. CASE ReadNothing(e)
  <2>1. pc' = [pc EXCEPT ![e] = "committing"] /\ st' = st /\ item' = item /\ ledger[EventAt(e)] = <<>>
    BY <1>7 DEF ReadNothing
  <2>2. EventAt(e)' = EventAt(e)
    BY <2>1 DEF EventAt
  <2>3. pc'[e] = "committing" /\ \A x \in Executors \ {e} : pc'[x] = "idle"
    BY <1>3, <2>1 DEF IInv, Types
  <2>4. QED
    BY <1>2, <1>3, <1>4, <1>5, <2>1, <2>2, <2>3, QuietSerial
<1>8. CASE Replay(e)
  <2>1. PICK t : t = EventAt(e)
    OBVIOUS
  <2>2. PICK v : v = Latest(t)
    OBVIOUS
  <2>3. PICK r : r = Adopt(t, v, s)
    OBVIOUS
  <2>4. /\ st' = [st EXCEPT ![e] = r] /\ ledger[t] # <<>> /\ pc[e] = "reading"
        /\ pc' \in {[pc EXCEPT ![e] = "checkpointing"], [pc EXCEPT ![e] = "reading"]}
    BY <1>2, <1>8, <2>1, <2>2, <2>3 DEF Replay, Proceed
  <2>5. /\ st'[e] = r /\ pc'[e] \in {"checkpointing", "reading"}
        /\ \A x \in Executors \ {e} : pc'[x] = "idle"
    BY <1>3, <2>4 DEF IInv, Types
  <2>6. r.next = s.next /\ r.erp = s.erp
    <3>1. CASE t = "extraction"
      BY <2>3, <3>1, AdoptOf DEF GraphStates
    <3>2. CASE t = "similarity"
      BY <2>3, <3>2, AdoptOf DEF GraphStates
    <3>3. CASE t = "gate"
      BY <2>3, <3>3, AdoptOf DEF GraphStates
    <3>4. CASE t \notin {"extraction", "similarity", "gate"}
      <4>1. r = s
        BY <2>3, <3>4 DEF Adopt
      <4>2. QED
        BY <4>1
    <3>5. QED
      BY <3>1, <3>2, <3>3, <3>4
  <2>7. s.next = "Validate" => ledger["validation"] # <<>>
    BY <1>3, <2>1, <2>4 DEF Position
  <2>8. QED
    BY <1>3, <1>4, <1>5, <2>5, <2>6, <2>7, QuietSerial
<1>9. QED
  BY <1>6, <1>7, <1>8

LEMMA CheckpointSerial ==
    ASSUME IInv, SInv, losses = 0, NEW e \in Executors, Checkpoint(e)
    PROVE  SInv'
<1>1. pc[e] = "checkpointing"
  BY DEF Checkpoint
<1>2. PICK s \in GraphStates : s = st[e]
  BY DEF IInv, Types
<1>3. /\ lock = e /\ \A x \in Executors \ {e} : pc[x] = "idle"
      /\ cp \in GraphStates /\ Shape(cp) /\ Entry(s) = cp /\ cp.next = s.next
      /\ Adopted(s, "checkpointing", item[e], ledger, accepted)
  BY <1>1, <1>2, HolderAt DEF SInv
<1>4. /\ EvidenceIsSerial
      /\ s.next = "Validate" => ledger["validation"] # <<>>
  BY <1>1, <1>2 DEF SInv, ExecutorsAreSerial
<1>5. PICK n : n = Completed(s)
  OBVIOUS
<1>6. cp' = n /\ n \in GraphStates /\ Shape(n)
  BY <1>2, <1>3, <1>5, CheckpointMoves
<1>7. ledger' = ledger /\ erp' = erp /\ UNCHANGED <<losses, erpChanges>>
  BY DEF Checkpoint, store, world, bounds
<1>8. Behind(n) = Behind(cp) \cup Here(cp) /\ Behind(n) \subseteq EventTypes
  BY <1>3, <1>5, <1>6, BehindGrows, BehindIsPast
<1>9. \A t \in Behind(n) : ledger[t] # <<>>
  <2>1. Here(s) = Here(cp)
    BY <1>3 DEF Here
  <2>2. s.next = "Validate" => Listed(ledger["validation"]) # {}
    BY <1>4, LatestIsListed DEF IInv, Types, EventTypes
  <2>3. \A t \in Here(cp) : Listed(ledger[t]) # {}
    BY <1>3, <2>1, <2>2, HereIsListed
  <2>4. \A t \in Here(cp) : ledger[t] # <<>>
    BY <1>8, <2>3, LatestIsListed DEF IInv, Types
  <2>5. QED
    BY <1>4, <1>8, <2>4 DEF EvidenceIsSerial
<1>10. \A t \in EventTypes \ Behind(n) : ledger[t] = <<>> /\ Listed(ledger[t]) = {}
  <2>1. \A t \in EventTypes \ Behind(n) : ledger[t] = <<>>
    BY <1>4, <1>8 DEF EvidenceIsSerial
  <2>2. QED
    BY <2>1 DEF Listed
<1>11. Follows(n, ledger, erp, erpChanges)
  <2>1. /\ n.next = "Validate" => "validation" \in Here(n)
        /\ n.next = "Match3Way" => "matching" \in Here(n)
        /\ n.next = "Policy" => {"similarity", "classification", "policy"} \subseteq Here(n)
        /\ n.next = "Gate" => "gate" \in Here(n)
        /\ n.next = "AutoApprove" => "approval" \in Here(n)
        /\ n.next = "Archive" => "archive" \in Here(n)
    BY <1>6, HereOf
  <2>2. Here(n) \subseteq EventTypes \ Behind(n)
    BY <1>6, BehindIsPast DEF Here
  <2>3. \A t \in Here(n) : Listed(ledger[t]) = {}
    BY <1>10, <2>2
  <2>4. QED
    BY <2>1, <2>3 DEF Follows
<1>12. EvidenceIsSerial'
  BY <1>4, <1>6, <1>7, <1>9, <1>10, <1>11 DEF EvidenceIsSerial
<1>13. ExecutorsAreSerial'
  <2>1. CASE n.status \in Settled
    <3>1. pc' = [pc EXCEPT ![e] = "idle"]
      BY <1>2, <1>3, <1>5, <2>1 DEF Checkpoint, Leave
    <3>2. \A x \in Executors : pc'[x] = "idle"
      BY <1>3, <3>1 DEF IInv, Types
    <3>3. QED
      BY <3>2 DEF ExecutorsAreSerial
  <2>2. CASE n.status \notin Settled
    <3>1. Enter(e, n) /\ lock' = e
      BY <1>2, <1>3, <1>5, <2>2 DEF Checkpoint
    <3>2. n.next \in Nodes
      BY <1>6, <2>2 DEF GraphStates, Shape, StatusAt, Settled
    <3>3. PICK p : p = FirstStep(n.next)
      OBVIOUS
    <3>4. p \notin {"idle", "committing"} /\ (p = "checkpointing" => n.next = "Ingest")
      BY <3>2, <3>3, FirstSteps
    <3>5. pc' = [pc EXCEPT ![e] = p] /\ st' = [st EXCEPT ![e] = n]
      BY <3>1, <3>3 DEF Enter
    <3>6. pc'[e] = p /\ st'[e] = n /\ \A x \in Executors \ {e} : pc'[x] = "idle"
      BY <1>3, <3>5 DEF IInv, Types
    <3>7. n.next = "Match3Way" => n.erp = None
      BY <1>6 DEF Shape
    <3>8. QED
      BY <3>1, <3>4, <3>6, <3>7 DEF ExecutorsAreSerial
  <2>3. QED
    BY <2>1, <2>2
<1>14. QED
  BY <1>7, <1>12, <1>13 DEF SInv

LEMMA CommitSerial ==
    ASSUME IInv, SInv, losses = 0, NEW e \in Executors, Commit(e) \/ Prepare(e)
    PROVE  SInv'
<1>1. PICK t : t = EventAt(e)
  OBVIOUS
<1>2. pc[e] = "committing" /\ ledger[t] = <<>>
  BY <1>1 DEF Commit, Prepare, SInv, ExecutorsAreSerial
<1>3. t \in EventTypes
  BY <1>1, <1>2, AtEvent
<1>4. CASE Commit(e)
  <2>1. PICK v \in Computed(t, st[e]) :
           ledger' = [ledger EXCEPT ![t] = Append(ledger[t], v)] /\ Proceed(e, t, v)
    BY <1>1, <1>3, <1>4 DEF Commit, IInv, Types
  <2>2. Append(ledger[t], v) = <<v>>
    BY <1>2
  <2>3. QED
    BY <1>1, <1>2, <1>4, <2>1, <2>2, AppendSerial DEF Commit
<1>5. CASE Prepare(e)
  <2>1. t = "triage" /\ "REVIEW" \in Computed(t, st[e])
    BY <1>1, <1>5, ComputedOf DEF Prepare
  <2>2. ledger' = [ledger EXCEPT ![t] = <<"REVIEW">>] /\ Proceed(e, t, "REVIEW")
    BY <1>2, <1>5, <2>1 DEF Prepare
  <2>3. UNCHANGED <<cp, lock, world, bounds>>
    BY <1>5 DEF Prepare
  <2>4. QED
    BY <1>1, <1>2, <2>1, <2>2, <2>3, AppendSerial
<1>6. QED
  BY <1>4, <1>5

LEMMA AroundSerial ==
    ASSUME IInv, SInv, losses = 0,
           \/ Settle \/ ReviewSettle \/ UNCHANGED vars
           \/ \E a \in Actions : Accept(a)
           \/ \E v \in ErpVersions : ErpChange(v)
    PROVE  SInv'
<1>1. /\ cp' = cp /\ ledger' = ledger /\ lock' = lock /\ pc' = pc /\ item' = item /\ st' = st
      /\ losses' = losses
      /\ \/ erp' = erp /\ erpChanges' = erpChanges
         \/ erpChanges' = erpChanges + 1
  BY DEF Settle, ReviewSettle, vars, Accept, ErpChange, store, world, executor, bounds
<1>2. erpChanges' \in Nat /\ (erpChanges > 0 => erpChanges' > 0) /\ (erp' # erp => erpChanges' > 0)
  BY <1>1 DEF SInv
<1>3. EvidenceIsSerial'
  <2>1. Follows(cp, ledger, erp', erpChanges')
    BY <1>1, <1>2 DEF SInv, EvidenceIsSerial, Follows
  <2>2. QED
    BY <1>1, <2>1 DEF SInv, EvidenceIsSerial
<1>4. ExecutorsAreSerial'
  <2>1. \A e \in Executors : EventAt(e)' = EventAt(e)
    BY <1>1 DEF EventAt
  <2>2. QED
    BY <1>1, <1>2, <2>1 DEF SInv, ExecutorsAreSerial
<1>5. QED
  BY <1>1, <1>2, <1>3, <1>4 DEF SInv

LEMMA InitSerial == Init => SInv
<1>1. SUFFICES ASSUME Init PROVE SInv
  OBVIOUS
<1>2. cp \in GraphStates /\ cp.next = "Ingest"
  BY <1>1, InitFits DEF IInv, Types, Init, Initial
<1>3. \A t \in EventTypes : ledger[t] = <<>> /\ Len(ledger[t]) <= 1
  BY <1>1 DEF Init
<1>4. Behind(cp) = {}
  BY <1>2, BehindOf
<1>5. Follows(cp, ledger, erp, erpChanges)
  BY <1>2 DEF Follows
<1>6. EvidenceIsSerial
  BY <1>3, <1>4, <1>5 DEF EvidenceIsSerial
<1>7. ExecutorsAreSerial
  BY <1>1 DEF Init, ExecutorsAreSerial
<1>8. QED
  BY <1>1, <1>6, <1>7 DEF Init, SInv

LEMMA NextSerial ==
    ASSUME IInv, SInv, [Next]_vars
    PROVE  SInv'
<1>1. losses' \in Nat /\ erpChanges' \in Nat /\ (losses' = 0 => losses = 0)
  BY DEF SInv, Next, Step, Run, Resume, Snapshot, ReadNothing, Replay, Mismatch, Commit, Prepare,
         Checkpoint, Stop, LoseSession, Settle, ReviewSettle, Accept, ErpChange, vars, bounds
<1>2. CASE losses' # 0
  BY <1>1, <1>2 DEF SInv
<1>3. CASE losses' = 0
  <2>1. losses = 0 /\ ~LoseSession
    BY <1>1, <1>3 DEF LoseSession
  <2>2. ASSUME NEW e \in Executors, Run(e) \/ Resume(e) \/ Step(e) \/ Stop(e)
        PROVE  SInv'
    <3>1. CASE Run(e) \/ Resume(e)
      BY <2>1, <3>1, EntrySerial
    <3>2. CASE Snapshot(e) \/ ReadNothing(e) \/ Replay(e)
      BY <2>1, <3>2, ReadSerial
    <3>3. CASE Mismatch(e)
      BY <2>1, <3>3, LeaveSerial DEF Mismatch, bounds
    <3>4. CASE Commit(e) \/ Prepare(e)
      BY <2>1, <3>4, CommitSerial
    <3>5. CASE Checkpoint(e)
      BY <2>1, <3>5, CheckpointSerial
    <3>6. CASE Stop(e)
      BY <2>1, <3>6, LeaveSerial DEF Stop
    <3>7. QED
      BY <2>2, <3>1, <3>2, <3>3, <3>4, <3>5, <3>6 DEF Step
  <2>3. CASE \/ Settle \/ ReviewSettle \/ UNCHANGED vars
             \/ \E a \in Actions : Accept(a)
             \/ \E v \in ErpVersions : ErpChange(v)
    BY <2>1, <2>3, AroundSerial
  <2>4. QED
    BY <2>1, <2>2, <2>3 DEF Next
<1>4. QED
  BY <1>2, <1>3

(* While no session is lost the evidence is serial: each event once, behind *)
(* the checkpoint or at its node, and what follows from the checkpoint.     *)
THEOREM SerialEvidence == Spec => []SInv
<1>1. Init => SInv
  BY InitSerial
<1>2. IInv /\ SInv /\ [Next]_vars => SInv'
  BY NextSerial
<1>3. QED
  BY <1>1, <1>2, Invariant, PTL DEF Spec

LEMMA ItFits ==
    ASSUME NEW s, NEW v, NEW t \in EventTypes,
           \/ t \in {"extraction", "triage"}
           \/ t = "similarity" /\ v.extraction = s.extraction
           \/ t = "gate" /\ v.policy = Input(s)
           \/ t \notin {"extraction", "triage", "similarity", "gate"} /\ v \in Computed(t, s)
    PROVE  Fits(t, v, s)
<1>1. CASE t \in {"extraction", "triage"}
  BY <1>1 DEF Fits
<1>2. CASE t = "similarity" /\ v.extraction = s.extraction
  BY <1>2 DEF Fits
<1>3. CASE t = "gate" /\ v.policy = Input(s)
  BY <1>3 DEF Fits
<1>4. CASE t \notin {"extraction", "triage", "similarity", "gate"} /\ v \in Computed(t, s)
  BY <1>4 DEF Fits
<1>5. QED
  BY <1>1, <1>2, <1>3, <1>4

(* What is committed of the event an execution is at belongs to its state, *)
(* but for an order that has changed.                                      *)
LEMMA CommittedFits ==
    ASSUME IInv, SInv, losses = 0, NEW e \in Executors, pc[e] = "reading", ledger[EventAt(e)] # <<>>
    PROVE  \/ Fits(EventAt(e), Latest(EventAt(e)), st[e])
           \/ EventAt(e) = "matching" /\ erpChanges > 0
<1>1. PICK t : t = EventAt(e)
  OBVIOUS
<1>2. PICK s \in GraphStates : s = st[e]
  BY DEF IInv, Types
<1>3. PICK v : v = Latest(t)
  OBVIOUS
<1>4. /\ cp \in GraphStates /\ cp.next = s.next
      /\ cp.next # "Extract" => cp.extraction = s.extraction
      /\ cp.next # "Match3Way" => cp.erp = s.erp
      /\ cp.next # "Policy" => cp.similarity = s.similarity
      /\ cp.next # "Gate" => cp.route = s.route
      /\ Adopted(s, "reading", item[e], ledger, accepted)
      /\ t \in EventTypes /\ Position(cp.next, item[e], t)
  BY <1>1, <1>2, HolderAt DEF SInv
<1>5. Follows(cp, ledger, erp, erpChanges) /\ \A u \in EventTypes : Len(ledger[u]) <= 1
  BY DEF SInv, EvidenceIsSerial
<1>6. v \in Listed(ledger[t])
  BY <1>1, <1>3, <1>4, LatestIsListed DEF Latest, IInv, Types
<1>7. Fits(t, v, s) \/ (t = "matching" /\ erpChanges > 0)
  <2>1. CASE t \in {"extraction", "triage"}
    BY <1>4, <2>1, ItFits
  <2>2. CASE t = "validation"
    <3>1. v = s.extraction
      BY <1>4, <1>5, <1>6, <2>2 DEF Position, Follows
    <3>2. QED
      <4>1. v \in Computed(t, s)
        BY <2>2, <3>1, ComputedOf
      <4>2. QED
        BY <1>4, <2>2, <4>1, ItFits
  <2>3. CASE t = "matching"
    <3>1. PICK x \in ErpVersions : v = [extraction |-> s.extraction, erp |-> x] /\ (x = erp \/ erpChanges > 0)
      BY <1>4, <1>5, <1>6, <2>3 DEF Position, Follows
    <3>2. s.erp # None
      BY <1>4, <2>3 DEF Position, Adopted
    <3>3. s.erp = erp \/ erpChanges > 0
      BY <1>2, <1>4, <2>3, <3>2 DEF Position, SInv, ExecutorsAreSerial
    <3>4. CASE erpChanges > 0
      BY <2>3, <3>4
    <3>5. CASE ~(erpChanges > 0)
      <4>1. v = [extraction |-> s.extraction, erp |-> s.erp]
        BY <3>1, <3>3, <3>5
      <4>2. v \in Computed(t, s)
        BY <2>3, <4>1, ComputedOf
      <4>3. QED
        BY <1>4, <2>3, <4>2, ItFits
    <3>6. QED
      BY <3>4, <3>5
  <2>4. CASE t = "similarity"
    <3>1. v.extraction = s.extraction
      BY <1>4, <1>5, <1>6, <2>4 DEF Position, Follows
    <3>2. QED
      BY <1>4, <2>4, <3>1, ItFits
  <2>5. CASE t \in {"classification", "policy"}
    <3>1. PICK m \in Listed(ledger["similarity"]) :
             v = [extraction |-> cp.extraction, erp |-> cp.erp, similarity |-> m.result]
      BY <1>4, <1>5, <1>6, <2>5 DEF Position, Follows
    <3>2. [extraction |-> s.extraction, result |-> s.similarity] \in Listed(ledger["similarity"])
      BY <1>4, <2>5 DEF Position, Adopted
    <3>3. m = [extraction |-> s.extraction, result |-> s.similarity]
      <4>1. ledger["similarity"] \in Seq(Listed(ledger["similarity"])) /\ Len(ledger["similarity"]) <= 1
        BY <1>5 DEF IInv, Types, EventTypes
      <4>2. QED
        BY <3>2, <4>1, AtMostOne
    <3>4. v = Input(s)
      BY <1>4, <2>5, <3>1, <3>3 DEF Position, Input
    <3>5. QED
      <4>1. v \in Computed(t, s)
        BY <2>5, <3>4, ComputedOf
      <4>2. QED
        BY <1>4, <2>5, <4>1, ItFits
  <2>6. CASE t = "gate"
    <3>1. v.policy = Input(cp)
      BY <1>4, <1>5, <1>6, <2>6 DEF Position, Follows
    <3>2. Input(cp) = Input(s)
      BY <1>4, <2>6 DEF Position, Input
    <3>3. QED
      <4>1. v.policy = Input(s)
        BY <3>1, <3>2
      <4>2. QED
        BY <1>4, <2>6, <4>1, ItFits
  <2>7. CASE t = "approval"
    <3>1. v = Input(cp)
      BY <1>4, <1>5, <1>6, <2>7 DEF Position, Follows
    <3>2. Input(cp) = Input(s)
      BY <1>4, <2>7 DEF Position, Input
    <3>3. QED
      <4>1. v \in Computed(t, s)
        BY <2>7, <3>1, <3>2, ComputedOf
      <4>2. QED
        BY <1>4, <2>7, <4>1, ItFits
  <2>8. CASE t = "review"
    <3>1. v = accepted
      BY <1>6, <2>8 DEF IInv, PayloadsFit
    <3>2. s.review = accepted
      BY <1>4, <2>8 DEF Position, Adopted
    <3>3. QED
      <4>1. v \in Computed(t, s)
        BY <2>8, <3>1, <3>2, ComputedOf
      <4>2. QED
        BY <1>4, <2>8, <4>1, ItFits
  <2>9. CASE t = "archive"
    <3>1. v = s.route
      BY <1>4, <1>5, <1>6, <2>9 DEF Position, Follows
    <3>2. QED
      <4>1. v \in Computed(t, s)
        BY <2>9, <3>1, ComputedOf
      <4>2. QED
        BY <1>4, <2>9, <4>1, ItFits
  <2>10. QED
    BY <1>4, <2>1, <2>2, <2>3, <2>4, <2>5, <2>6, <2>7, <2>8, <2>9 DEF EventTypes
<1>8. QED
  BY <1>1, <1>2, <1>3, <1>7

(* While executors keep their lock, nothing is recorded twice, and committed *)
(* evidence never contradicts its own replay but for ERP data that changed   *)
(* after the matching evidence.                                              *)
THEOREM ReplaysAlwaysAgree == Spec => []ReplaysAgree
<1>1. ASSUME IInv, SInv PROVE ReplaysAgree
  <2>1. SUFFICES ASSUME losses = 0
                 PROVE  /\ \A t \in EventTypes : Len(ledger[t]) <= 1
                        /\ \A e \in Executors :
                              /\ pc[e] = "reading"
                              /\ ledger[EventAt(e)] # <<>>
                              /\ ~Fits(EventAt(e), Latest(EventAt(e)), st[e])
                              => EventAt(e) = "matching" /\ erpChanges > 0
    BY DEF ReplaysAgree
  <2>2. \A t \in EventTypes : Len(ledger[t]) <= 1
    BY <1>1, <2>1 DEF SInv, EvidenceIsSerial
  <2>3. QED
    BY <1>1, <2>1, <2>2, CommittedFits
<1>2. QED
  BY <1>1, Invariant, SerialEvidence, PTL

-----------------------------------------------------------------------------
(* The progress shown *)

LEMMA ShownOf ==
    /\ Shown("Extract") = "extraction" /\ Shown("Validate") = "validation"
    /\ Shown("Match3Way") = "matching" /\ Shown("Policy") = "policy" /\ Shown("Gate") = "gate"
    /\ Shown("AutoApprove") = "approval" /\ Shown("ExceptionTriage") = "triage"
    /\ Shown("HumanReview") = "review" /\ Shown("Archive") = "archive"
BY EvidenceOf DEF Shown

LEMMA ShownHere ==
    ASSUME NEW c \in GraphStates, NEW n \in Nodes \ {"Ingest"}
    PROVE  Shown(n) \in EventTypes /\ (Shown(n) \in Here(c) <=> n = c.next)
<1>1. Shown(n) \in EventTypes
  BY ShownOf DEF Nodes, EventTypes
<1>2. \A i \in 1 .. 3 : Position(c.next, i, Shown(n)) => n = c.next
  BY ShownOf DEF Nodes, Position
<1>3. \E i \in 1 .. 3 : Position(n, i, Shown(n))
  <2>1. CASE n = "Policy"
    BY <2>1, ShownOf DEF Position
  <2>2. CASE n # "Policy"
    <3>1. Position(n, 1, Shown(n))
      BY <2>2, ShownOf DEF Nodes, Position
    <3>2. QED
      BY <3>1
  <2>3. QED
    BY <2>1, <2>2
<1>4. QED
  BY <1>1, <1>2, <1>3 DEF Here

(* The last node behind the checkpoint c. *)
Previous(c) ==
    CASE c.next = "Extract" -> "Ingest" [] c.next = "Validate" -> "Extract"
      [] c.next = "Match3Way" -> "Validate" [] c.next = "Policy" -> "Match3Way"
      [] c.next = "Gate" -> "Policy" [] c.next = "AutoApprove" -> "Gate"
      [] c.next = "ExceptionTriage" -> IF c.extraction = "escalated" THEN "Extract" ELSE "Gate"
      [] c.next = "HumanReview" -> "ExceptionTriage"
      [] c.next = "Archive" -> IF c.route = "AUTO_APPROVE" THEN "AutoApprove" ELSE "HumanReview"
      [] c.next = "END" -> "Archive"

LEMMA PreviousOf ==
    ASSUME NEW c \in GraphStates
    PROVE  /\ c.next = "Extract" => Previous(c) = "Ingest"
           /\ c.next = "Validate" => Previous(c) = "Extract"
           /\ c.next = "Match3Way" => Previous(c) = "Validate"
           /\ c.next = "Policy" => Previous(c) = "Match3Way"
           /\ c.next = "Gate" => Previous(c) = "Policy"
           /\ c.next = "AutoApprove" => Previous(c) = "Gate"
           /\ c.next = "ExceptionTriage" =>
                 Previous(c) = IF c.extraction = "escalated" THEN "Extract" ELSE "Gate"
           /\ c.next = "HumanReview" => Previous(c) = "ExceptionTriage"
           /\ c.next = "Archive" =>
                 Previous(c) = IF c.route = "AUTO_APPROVE" THEN "AutoApprove" ELSE "HumanReview"
           /\ c.next = "END" => Previous(c) = "Archive"
BY DEF Previous

LEMMA PreviousIsLast ==
    ASSUME NEW c \in GraphStates, Shape(c), c.next # "Ingest"
    PROVE  /\ Previous(c) \in Nodes /\ Rank(Previous(c)) < Rank(c.next)
           /\ Previous(c) = "Ingest" \/ Shown(Previous(c)) \in Behind(c)
           /\ \A n \in Nodes \ {"Ingest"} : Shown(n) \in Behind(c) => Rank(n) <= Rank(Previous(c))
<1>1. PICK p : p = Previous(c)
  OBVIOUS
<1>2. CASE c.next \in {"Extract", "Validate", "Match3Way", "Policy", "Gate"}
  <2>1. CASE c.next = "Extract"
    BY <1>1, <2>1, PreviousOf, BehindOf, RankOf DEF Nodes
  <2>2. CASE c.next = "Validate"
    BY <1>1, <2>2, PreviousOf, BehindOf, ShownOf, RankOf DEF Nodes
  <2>3. CASE c.next = "Match3Way"
    BY <1>1, <2>3, PreviousOf, BehindOf, ShownOf, RankOf DEF Nodes
  <2>4. CASE c.next = "Policy"
    BY <1>1, <2>4, PreviousOf, BehindOf, ShownOf, RankOf DEF Nodes
  <2>5. CASE c.next = "Gate"
    BY <1>1, <2>5, PreviousOf, BehindOf, ShownOf, RankOf DEF Nodes, ControlEvents
  <2>6. QED
    BY <1>2, <2>1, <2>2, <2>3, <2>4, <2>5
<1>3. CASE c.next = "AutoApprove"
  <2>1. Behind(c) = ControlEvents /\ p = "Gate"
    BY <1>1, <1>3, PreviousOf, BehindOf, BranchEventsOf DEF Shape, ControlEvents
  <2>2. QED
    BY <1>1, <1>3, <2>1, ShownOf, RankOf DEF Nodes, ControlEvents
<1>4. CASE c.next = "ExceptionTriage" /\ c.extraction = "escalated"
  <2>1. c.route # "AUTO_APPROVE"
    BY <1>4 DEF Shape
  <2>2. Behind(c) = {"extraction"} /\ p = "Extract"
    BY <1>1, <1>4, <2>1, PreviousOf, BehindOf, BranchEventsOf
  <2>3. QED
    BY <1>1, <1>4, <2>2, ShownOf, RankOf DEF Nodes
<1>5. CASE c.next = "ExceptionTriage" /\ c.extraction # "escalated"
  <2>1. c.route # "AUTO_APPROVE"
    BY <1>5 DEF Shape
  <2>2. Behind(c) = ControlEvents /\ p = "Gate"
    BY <1>1, <1>5, <2>1, PreviousOf, BehindOf, BranchEventsOf DEF ControlEvents
  <2>3. QED
    BY <1>1, <1>5, <2>2, ShownOf, RankOf DEF Nodes, ControlEvents
<1>6. CASE c.next = "HumanReview"
  <2>1. c.route # "AUTO_APPROVE"
    BY <1>6 DEF Shape
  <2>2. Behind(c) \subseteq ControlEvents \cup {"triage"} /\ "triage" \in Behind(c)
    BY <1>6, <2>1, BehindOf, BranchEventsOf DEF ControlEvents
  <2>3. p = "ExceptionTriage"
    BY <1>1, <1>6, PreviousOf
  <2>4. QED
    BY <1>1, <1>6, <2>2, <2>3, ShownOf, RankOf DEF Nodes, ControlEvents
<1>7. CASE c.next = "Archive" /\ c.route = "AUTO_APPROVE"
  <2>1. Behind(c) = ControlEvents \cup {"approval"} /\ p = "AutoApprove"
    BY <1>1, <1>7, PreviousOf, BehindOf, BranchEventsOf
  <2>2. QED
    BY <1>1, <1>7, <2>1, ShownOf, RankOf DEF Nodes, ControlEvents
<1>8. CASE c.next = "Archive" /\ c.route # "AUTO_APPROVE"
  <2>1. Behind(c) \subseteq ControlEvents \cup {"triage", "review"} /\ "review" \in Behind(c)
    BY <1>8, BehindOf, BranchEventsOf DEF ControlEvents
  <2>2. p = "HumanReview"
    BY <1>1, <1>8, PreviousOf
  <2>3. QED
    BY <1>1, <1>8, <2>1, <2>2, ShownOf, RankOf DEF Nodes, ControlEvents
<1>9. CASE c.next = "END"
  <2>1. "archive" \in Behind(c) /\ p = "Archive"
    BY <1>1, <1>9, PreviousOf, BehindOf
  <2>2. QED
    BY <1>1, <1>9, <2>1, ShownOf, RankOf DEF Nodes
<1>10. QED
  BY <1>2, <1>3, <1>4, <1>5, <1>6, <1>7, <1>8, <1>9 DEF GraphStates, Nodes

(* The last observed node is the checkpointed one, or the one before it. *)
LEMMA ObservedIs ==
    ASSUME IInv, EvidenceIsSerial
    PROVE  /\ Observed \subseteq Nodes
           /\ cp.next \in Observed => \A n \in Observed : Rank(n) <= Rank(cp.next)
           /\ cp.next \notin Observed =>
                 /\ cp.next # "Ingest" /\ Previous(cp) \in Observed
                 /\ \A n \in Observed : Rank(n) <= Rank(Previous(cp))
<1>1. cp \in GraphStates /\ Shape(cp)
  BY DEF IInv, Types, CheckpointFits
<1>2. Observed \subseteq Nodes /\ "Ingest" \in Observed
  BY DEF Observed, Nodes
<1>3. \A n \in Nodes \ {"Ingest"} : n \in Observed <=> ledger[Shown(n)] # <<>>
  BY DEF Observed
<1>4. \A n \in Nodes \ {"Ingest", cp.next} : n \in Observed <=> Shown(n) \in Behind(cp)
  <2>1. SUFFICES ASSUME NEW n \in Nodes \ {"Ingest", cp.next}
                 PROVE  n \in Observed <=> Shown(n) \in Behind(cp)
    OBVIOUS
  <2>2. Shown(n) \in EventTypes /\ Shown(n) \notin Here(cp)
    BY <1>1, ShownHere
  <2>3. QED
    BY <1>3, <2>2 DEF EvidenceIsSerial
<1>5. CASE cp.next = "Ingest"
  <2>1. \A n \in Nodes \ {"Ingest"} : n \notin Observed
    BY <1>1, <1>4, <1>5, BehindOf
  <2>2. QED
    BY <1>2, <1>5, <2>1, RankOf
<1>6. CASE cp.next # "Ingest"
  <2>1. PICK p \in Nodes : p = Previous(cp)
    BY <1>1, <1>6, PreviousIsLast
  <2>2. Rank(p) < Rank(cp.next) /\ Rank(p) \in Nat /\ Rank(cp.next) \in Nat /\ Rank("Ingest") <= Rank(p)
    <3>1. \A n \in Nodes \cup {"END"} : Rank(n) \in Nat /\ 1 <= Rank(n)
      BY RankOf DEF Nodes
    <3>2. cp.next \in Nodes \cup {"END"} /\ Rank("Ingest") = 1
      BY <1>1, RankOf DEF GraphStates
    <3>3. QED
      BY <1>1, <1>6, <2>1, <3>1, <3>2, PreviousIsLast
  <2>3. \A n \in Observed \ {cp.next} : Rank(n) <= Rank(p)
    BY <1>1, <1>2, <1>4, <1>6, <2>1, <2>2, PreviousIsLast
  <2>4. p \in Observed
    <3>1. p # cp.next
      BY <2>2
    <3>2. QED
      BY <1>1, <1>2, <1>4, <1>6, <2>1, <3>1, PreviousIsLast
  <2>5. \A n \in Observed : Rank(n) <= Rank(cp.next)
    <3>1. \A n \in Observed : Rank(n) \in Nat
      BY <1>2, RankOf DEF Nodes
    <3>2. QED
      BY <2>2, <2>3, <3>1
  <2>6. QED
    BY <1>2, <1>6, <2>1, <2>3, <2>4, <2>5
<1>7. QED
  BY <1>5, <1>6

(* The node shown as active when n is the last one observed. *)
After(n) ==
    CASE n = "Archive" -> None
      [] n = "Ingest" -> "Extract"
      [] n = "Extract" ->
             IF Latest("extraction") = "escalated" THEN "ExceptionTriage" ELSE "Validate"
      [] n = "Validate" -> "Match3Way"
      [] n = "Match3Way" -> "Policy"
      [] n = "Policy" -> "Gate"
      [] n = "Gate" ->
             IF Latest("gate").route = "AUTO_APPROVE" THEN "AutoApprove" ELSE "ExceptionTriage"
      [] n \in {"AutoApprove", "HumanReview"} -> "Archive"
      [] n = "ExceptionTriage" -> "HumanReview"

LEMMA AfterOf ==
    /\ After("Archive") = None /\ After("Ingest") = "Extract"
    /\ After("Extract") =
          IF Latest("extraction") = "escalated" THEN "ExceptionTriage" ELSE "Validate"
    /\ After("Validate") = "Match3Way" /\ After("Match3Way") = "Policy" /\ After("Policy") = "Gate"
    /\ After("Gate") =
          IF Latest("gate").route = "AUTO_APPROVE" THEN "AutoApprove" ELSE "ExceptionTriage"
    /\ After("AutoApprove") = "Archive" /\ After("HumanReview") = "Archive"
    /\ After("ExceptionTriage") = "HumanReview"
BY DEF After

LEMMA ActiveOf ==
    ASSUME Observed \subseteq Nodes, NEW n \in Observed, \A m \in Observed : Rank(m) <= Rank(n)
    PROVE  ActiveNode("open") = After(n)
<1> DEFINE Last == CHOOSE k \in Observed : \A m \in Observed : Rank(m) <= Rank(k)
<1>1. Last \in Observed /\ \A m \in Observed : Rank(m) <= Rank(Last)
  OBVIOUS
<1>2. \A m \in Nodes : Rank(m) \in 1 .. 10 /\ Order[Rank(m)] = m
  BY RankOf DEF Nodes, Order
<1>3. Rank(Last) = Rank(n)
  <2>1. Rank(Last) <= Rank(n) /\ Rank(n) <= Rank(Last) /\ Rank(n) \in 1 .. 10 /\ Rank(Last) \in 1 .. 10
    BY <1>1, <1>2
  <2>2. QED
    BY ONLY <2>1
<1>4. Last = n
  BY <1>1, <1>2, <1>3
<1>5. ActiveNode("open") = After(Last)
  BY DEF ActiveNode, After
<1>6. QED
  BY <1>4, <1>5

(* While executors keep their lock, the node shown as active is the one an *)
(* execution is at or will enter, and no other branch's.                   *)
THEOREM ProgressIsAlwaysTrue == Spec => []ProgressIsTrue
<1>1. ASSUME IInv, EvidenceIsSerial PROVE ActiveNode("open") = Due
  <2>1. cp \in GraphStates /\ Shape(cp) /\ Backed(cp, ledger, accepted)
    BY <1>1 DEF IInv, Types, CheckpointFits
  <2>2. CASE cp.next \in Observed
    <3>1. ActiveNode("open") = After(cp.next) /\ cp.next \in Nodes
      BY <1>1, <2>2, ObservedIs, ActiveOf
    <3>2. CASE cp.next = "Ingest"
      BY <2>1, <2>2, <3>1, <3>2, AfterOf, SuccOf DEF Due
    <3>3. CASE cp.next # "Ingest"
      <4>1. PICK v : v = Latest(Shown(cp.next))
        OBVIOUS
      <4>2. PICK r : r = Adopt(Shown(cp.next), v, cp)
        OBVIOUS
      <4>3. Due = IF Succ(r) = "END" THEN None ELSE Succ(r)
        BY <2>2, <3>1, <3>3, <4>1, <4>2 DEF Due, Nodes
      <4>4. CASE cp.next = "Extract"
        <5>1. v = Latest("extraction") /\ r = [cp EXCEPT !.extraction = v]
          BY <4>1, <4>2, <4>4, ShownOf, AdoptOf
        <5>2. Succ(r) = IF v = "escalated" THEN "ExceptionTriage" ELSE "Validate"
          <6>1. r.next = "Extract" /\ r.extraction = v
            BY <2>1, <4>4, <5>1 DEF GraphStates
          <6>2. QED
            BY <6>1 DEF Succ
        <5>3. QED
          BY <3>1, <4>3, <4>4, <5>1, <5>2, AfterOf
      <4>5. CASE cp.next = "Gate"
        <5>1. v = Latest("gate") /\ r = [cp EXCEPT !.route = v.route]
          BY <4>1, <4>2, <4>5, ShownOf, AdoptOf
        <5>2. Succ(r) = IF v.route = "AUTO_APPROVE" THEN "AutoApprove" ELSE "ExceptionTriage"
          <6>1. r.next = "Gate" /\ r.route = v.route
            BY <2>1, <4>5, <5>1 DEF GraphStates
          <6>2. QED
            BY <6>1 DEF Succ
        <5>3. QED
          BY <3>1, <4>3, <4>5, <5>1, <5>2, AfterOf
      <4>6. CASE cp.next \notin {"Extract", "Gate"}
        <5>1. Shown(cp.next) \in EventTypes \ {"extraction", "similarity", "gate"}
          BY <3>1, <3>3, <4>6, ShownOf DEF Nodes, EventTypes
        <5>2. r = cp
          BY <4>2, <5>1 DEF Adopt
        <5>3. QED
          BY <2>1, <3>1, <3>3, <4>3, <4>6, <5>2, AfterOf, SuccOf DEF Nodes
      <4>7. QED
        BY <4>4, <4>5, <4>6
    <3>4. QED
      BY <3>2, <3>3
  <2>3. CASE cp.next \notin Observed
    <3>1. PICK p \in Nodes : p = Previous(cp)
      BY <1>1, <2>3, ObservedIs
    <3>2. ActiveNode("open") = After(p) /\ cp.next # "Ingest"
      BY <1>1, <2>3, <3>1, ObservedIs, ActiveOf
    <3>3. Due = IF cp.next = "END" THEN None ELSE cp.next
      BY <2>3 DEF Due
    <3>4. cp.next \in {"Validate", "ExceptionTriage"} => Latest("extraction") = cp.extraction
      <4>1. cp.next \in {"Validate", "ExceptionTriage"} => cp.extraction \in Listed(ledger["extraction"])
        BY <2>1 DEF Backed, Shape, Matched
      <4>2. ledger["extraction"] \in Seq(Listed(ledger["extraction"])) /\ Len(ledger["extraction"]) <= 1
        BY <1>1 DEF IInv, Types, EvidenceIsSerial, EventTypes
      <4>3. Listed(ledger["extraction"]) # {} => Latest("extraction") \in Listed(ledger["extraction"])
        BY <4>2, LatestIsListed DEF Latest
      <4>4. QED
        BY <4>1, <4>2, <4>3, AtMostOne
    <3>5. cp.next \in {"AutoApprove", "ExceptionTriage"} /\ cp.extraction # "escalated" =>
             Latest("gate").route = cp.route /\ cp.route \in Routes
      <4>1. SUFFICES ASSUME cp.next \in {"AutoApprove", "ExceptionTriage"}, cp.extraction # "escalated"
                     PROVE  Latest("gate").route = cp.route /\ cp.route \in Routes
        OBVIOUS
      <4>2. cp.route \in Routes
        BY <2>1, <4>1 DEF Shape, Routes
      <4>3. PICK g : g = [policy |-> Input(cp), route |-> cp.route]
        OBVIOUS
      <4>4. g \in Listed(ledger["gate"])
        BY <2>1, <4>1, <4>2, <4>3 DEF Backed, Routes
      <4>5. ledger["gate"] \in Seq(Listed(ledger["gate"])) /\ Len(ledger["gate"]) <= 1
        BY <1>1 DEF IInv, Types, EvidenceIsSerial, EventTypes
      <4>6. Latest("gate") = g
        BY <4>4, <4>5, LatestIsListed, AtMostOne DEF Latest
      <4>7. QED
        BY <4>2, <4>3, <4>6
    <3>6. CASE cp.next \in {"Extract", "Match3Way", "Policy", "Gate", "HumanReview", "Archive", "END"}
      BY <2>1, <3>1, <3>2, <3>3, <3>6, PreviousOf, AfterOf
    <3>7. CASE cp.next = "Validate"
      <4>1. cp.extraction # "escalated"
        BY <2>1, <3>7 DEF Shape
      <4>2. QED
        BY <2>1, <3>1, <3>2, <3>3, <3>4, <3>7, <4>1, PreviousOf, AfterOf
    <3>8. CASE cp.next = "AutoApprove"
      <4>1. cp.route = "AUTO_APPROVE" /\ cp.extraction # "escalated"
        BY <2>1, <3>8 DEF Shape, Matched
      <4>2. QED
        BY <2>1, <3>1, <3>2, <3>3, <3>5, <3>8, <4>1, PreviousOf, AfterOf
    <3>9. CASE cp.next = "ExceptionTriage" /\ cp.extraction = "escalated"
      BY <2>1, <3>1, <3>2, <3>3, <3>4, <3>9, PreviousOf, AfterOf
    <3>10. CASE cp.next = "ExceptionTriage" /\ cp.extraction # "escalated"
      <4>1. cp.route # "AUTO_APPROVE"
        BY <2>1, <3>10 DEF Shape
      <4>2. QED
        BY <2>1, <3>1, <3>2, <3>3, <3>5, <3>10, <4>1, PreviousOf, AfterOf
    <3>11. QED
      BY <2>1, <3>2, <3>6, <3>7, <3>8, <3>9, <3>10 DEF GraphStates, Nodes
  <2>4. QED
    BY <2>2, <2>3
<1>2. IInv /\ SInv => ProgressIsTrue
  BY <1>1 DEF SInv, ProgressIsTrue
<1>3. QED
  BY <1>2, Invariant, SerialEvidence, PTL

=============================================================================
