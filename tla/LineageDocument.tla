-------------------------- MODULE LineageDocument --------------------------
(***************************************************************************)
(* The lineage document of lineage.py: the JSON object in state.json that  *)
(* holds the verified nodes, every recorded attempt and the best node.     *)
(* This module has its data and the pure part of the code that works on    *)
(* it: what `record` appends, and what `_verify_controller_attempts`       *)
(* replays.  Processes, locks and files are in module Lineage.             *)
(*                                                                         *)
(* A digest, an id or a directory is a model value; a speedup over the     *)
(* original is a natural number (only its order matters).  Rejection is    *)
(* the set of the gate's rejecting statuses that an instance tells apart:  *)
(* lineage.py treats them alike.                                           *)
(***************************************************************************)
EXTENDS Naturals, Sequences

CONSTANTS
  Id,            \* candidate ids
  OriginalId,    \* the id of the frozen original, K0
  RunDir,        \* run directories, the parents of attempts/<candidate id>
  Proposal,      \* sha256 digests of proposals
  Artifact,      \* sha256 digests of artifacts
  OriginalSha,   \* the digest of the original, its artifact and its proposal
  Speed,         \* speedups over the original, in order
  Rejection,     \* the gate's statuses other than "accepted"
  OriginalSpeed, \* speedup_over_original of the original node (1.0)
  None           \* Python's None, and "no such file"

ASSUME IdAssumption == OriginalId \notin Id /\ None \notin Id \cup {OriginalId}
ASSUME DigestAssumption == None \notin Proposal \cup Artifact \cup {OriginalSha}
ASSUME SpeedAssumption == Speed \subseteq Nat /\ OriginalSpeed \in Nat
ASSUME RejectionAssumption == {"accepted", "duplicate"} \cap Rejection = {}

(***************************************************************************)
(* An evaluation is what evaluation.json says of one candidate, with the   *)
(* gate's verdict on it (gate.evaluate is a function of the evaluation).   *)
(* artifact is None when the build failed; only a candidate that passed    *)
(* the gate has a score other than 0.                                      *)
(***************************************************************************)
Evaluation ==
  {e \in [id : Id, parent : Id \cup {OriginalId}, proposal : Proposal,
          artifact : Artifact \cup {None}, gate : {"accepted"} \cup Rejection,
          speed : Speed \cup {0}] :
     e.gate = "accepted" => e.artifact # None /\ e.speed \in Speed}

Status == {"accepted", "duplicate"} \cup Rejection

Attempt == [eval : Evaluation, run : RunDir, status : Status]

Node == [parent : Id \cup {OriginalId, None}, artifact : Artifact \cup {OriginalSha},
         proposal : Proposal \cup {OriginalSha}, speed : Speed \cup {OriginalSpeed}]

NoDocument == [nodes |-> <<>>, attempts |-> <<>>, best |-> None]

OriginalNode == [parent |-> None, artifact |-> OriginalSha,
                 proposal |-> OriginalSha, speed |-> OriginalSpeed]

\* The document `initialize` writes.
BaselineDocument ==
  [nodes    |-> [i \in {OriginalId} |-> OriginalNode],
   attempts |-> <<>>,
   best     |-> OriginalId]

---------------------------------------------------------------------------
(* What `record` asks of the document it has read under the lock.          *)

AttemptsOf(d) == {d.attempts[i] : i \in DOMAIN d.attempts}

IdTakenForgetsRejected(d, id) == id \in DOMAIN d.nodes

IdTaken(d, id) ==
  \/ id \in DOMAIN d.nodes
  \/ \E a \in AttemptsOf(d) : a.eval.id = id

ProposalSeen(d, q) ==
  \/ \E n \in DOMAIN d.nodes : d.nodes[n].proposal = q
  \/ \E a \in AttemptsOf(d) : a.eval.proposal = q

ArtifactSeenInNodesOnly(d, s) ==
  /\ s # None
  /\ \E n \in DOMAIN d.nodes : d.nodes[n].artifact = s

ArtifactSeen(d, s) ==
  /\ s # None
  /\ \/ \E n \in DOMAIN d.nodes : d.nodes[n].artifact = s
     \/ \E a \in AttemptsOf(d) : a.eval.artifact = s

NodeOf(e) == [parent |-> e.parent, artifact |-> e.artifact,
              proposal |-> e.proposal, speed |-> e.speed]

BestMovesOnTie(d, e) ==
  IF e.speed >= d.nodes[d.best].speed THEN e.id ELSE d.best

\* The best node moves to an accepted candidate only if it is strictly faster.
BestAfter(d, e) ==
  IF e.speed > d.nodes[d.best].speed THEN e.id ELSE d.best

NodesAfterBestMoved(d, e) ==
  [i \in DOMAIN d.nodes \cup {e.id} |->
     IF i = e.id THEN [NodeOf(e) EXCEPT !.parent = BestAfter(d, e)] ELSE d.nodes[i]]

NodesAfter(d, e) ==
  [i \in DOMAIN d.nodes \cup {e.id} |-> IF i = e.id THEN NodeOf(e) ELSE d.nodes[i]]

StatusOfGate(d, e) == e.gate

\* The effective status: a repeated proposal or artifact is a duplicate
\* whatever the gate said of it.
EffectiveStatus(d, e) ==
  IF ProposalSeen(d, e.proposal) \/ ArtifactSeen(d, e.artifact)
  THEN "duplicate" ELSE e.gate

\* The document `record` writes for evaluation e of run directory r.
Recorded(d, e, r) ==
  LET status   == EffectiveStatus(d, e)
      accepted == status = "accepted"
  IN  [nodes    |-> IF accepted THEN NodesAfter(d, e) ELSE d.nodes,
       attempts |-> Append(d.attempts, [eval |-> e, run |-> r, status |-> status]),
       best     |-> IF accepted THEN BestAfter(d, e) ELSE d.best]

---------------------------------------------------------------------------
(* What `_verify_controller_attempts` replays, declaratively: the loop's   *)
(* expected_nodes before attempt i, its checks of attempt i, and the nodes *)
(* and the best node it ends with.                                         *)

AcceptedBefore(d, i) == {j \in DOMAIN d.attempts : j < i /\ d.attempts[j].status = "accepted"}

NodesBefore(d, i) == {OriginalId} \cup {d.attempts[j].eval.id : j \in AcceptedBefore(d, i)}

ReplayedNodes(d) == NodesBefore(d, Len(d.attempts) + 1)

AttemptReplays(d, i) ==
  LET a == d.attempts[i] IN
  /\ a.status \in {a.eval.gate, "duplicate"}
  /\ a.eval.parent \in NodesBefore(d, i)
  /\ a.status = "accepted" =>
       /\ a.eval.id \notin NodesBefore(d, i)
       /\ a.eval.id \in DOMAIN d.nodes
       /\ d.nodes[a.eval.id] = NodeOf(a.eval)
  /\ a.status # "accepted" => a.eval.id \notin DOMAIN d.nodes

\* The loop keeps the first accepted candidate of the greatest speedup, and
\* the original while none is faster than it.
ReplayedBest(d, b) ==
  LET accepted == AcceptedBefore(d, Len(d.attempts) + 1)
      speed(i) == d.attempts[i].eval.speed
  IN  \/ /\ b = OriginalId
         /\ \A i \in accepted : speed(i) <= OriginalSpeed
      \/ \E i \in accepted :
           /\ b = d.attempts[i].eval.id
           /\ speed(i) > OriginalSpeed
           /\ \A j \in accepted : IF j < i THEN speed(j) < speed(i)
                                           ELSE speed(j) <= speed(i)

\* The document is one that the replay accepts, its files aside.
DocumentReplays(d) ==
  /\ \A i \in DOMAIN d.attempts : AttemptReplays(d, i)
  /\ DOMAIN d.nodes = ReplayedNodes(d)
  /\ ReplayedBest(d, d.best)
=============================================================================
