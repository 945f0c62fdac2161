--------------------------- MODULE Lineage_proofs ---------------------------
(***************************************************************************)
(* Proofs about module Lineage, for any number of processes, ids, digests  *)
(* and speedups.                                                           *)
(***************************************************************************)
EXTENDS Lineage, NumberFacts, TLAPS

---------------------------------------------------------------------------
(* Appending to the document.                                              *)

\* What the sequence of attempts is after `record`.
LEMMA AppendedAttempts ==
  ASSUME NEW d, IsDocument(d), NEW e \in Evaluation, NEW r \in RunDir
  PROVE  LET d2 == Recorded(d, e, r)
             n  == Len(d.attempts)
         IN  /\ n \in Nat
             /\ DOMAIN d.attempts = 1..n
             /\ Len(d2.attempts) = n + 1
             /\ DOMAIN d2.attempts = 1..(n + 1)
             /\ \A i \in 1..n : d2.attempts[i] = d.attempts[i]
             /\ d2.attempts[n + 1] =
                  [eval |-> e, run |-> r, status |-> EffectiveStatus(d, e)]
  BY DEF IsDocument, Recorded

\* The fields of an evaluation, one by one.
LEMMA EvaluationType ==
  ASSUME NEW e \in Evaluation
  PROVE  /\ e.id \in Id
         /\ e.parent \in Id \cup {OriginalId}
         /\ e.proposal \in Proposal
         /\ e.artifact \in Artifact \cup {None}
         /\ e.gate \in {"accepted"} \cup Rejection
         /\ e.speed \in Nat
         /\ e.gate = "accepted" => e.artifact \in Artifact /\ e.speed \in Speed
  <1>1. e.speed \in Speed \cup {0}
    BY DEF Evaluation
  <1>2. e.speed \in Nat
    <2>1. CASE e.speed \in Speed
      BY <2>1, SpeedAssumption
    <2>2. CASE e.speed = 0
      BY <2>2
    <2>3. QED BY <1>1, <2>1, <2>2
  <1>3. e.gate = "accepted" => e.artifact \in Artifact /\ e.speed \in Speed
    BY DEF Evaluation
  <1>4. QED BY <1>2, <1>3 DEF Evaluation

\* The fields of a recorded attempt, one by one.
LEMMA AttemptType ==
  ASSUME NEW d, IsDocument(d), NEW i \in DOMAIN d.attempts
  PROVE  /\ d.attempts[i] \in Attempt
         /\ d.attempts[i].eval \in Evaluation
         /\ d.attempts[i].run \in RunDir
         /\ d.attempts[i].status \in Status
  <1>1. d.attempts[i] \in Attempt
    BY DEF IsDocument
  <1>2. QED BY <1>1 DEF Attempt

\* What `record` decides is a status.
LEMMA StatusType ==
  ASSUME NEW d, NEW e \in Evaluation
  PROVE  EffectiveStatus(d, e) \in Status
  BY DEF EffectiveStatus, Evaluation, Status

\* The accepted attempts before any position, after `record`.
LEMMA AppendedAccepted ==
  ASSUME NEW d, IsDocument(d), NEW e \in Evaluation, NEW r \in RunDir
  PROVE  LET d2 == Recorded(d, e, r)
             n  == Len(d.attempts)
         IN  /\ \A i \in 1..(n + 1) : AcceptedBefore(d2, i) = AcceptedBefore(d, i)
             /\ AcceptedBefore(d2, n + 2) =
                  AcceptedBefore(d, n + 1) \cup
                    (IF EffectiveStatus(d, e) = "accepted" THEN {n + 1} ELSE {})
  <1> DEFINE d2 == Recorded(d, e, r)
             n  == Len(d.attempts)
             s  == EffectiveStatus(d, e)
  <1>1. /\ n \in Nat
        /\ DOMAIN d.attempts = 1..n
        /\ DOMAIN d2.attempts = 1..(n + 1)
        /\ \A i \in 1..n : d2.attempts[i] = d.attempts[i]
        /\ d2.attempts[n + 1] = [eval |-> e, run |-> r, status |-> s]
    BY AppendedAttempts
  <1> HIDE DEF d2, n, s
  <1>2. \A i \in 1..(n + 1) : AcceptedBefore(d2, i) = AcceptedBefore(d, i)
    BY <1>1 DEF AcceptedBefore
  <1>3. AcceptedBefore(d2, n + 2) =
          AcceptedBefore(d, n + 1) \cup (IF s = "accepted" THEN {n + 1} ELSE {})
    <2>1. CASE s = "accepted"
      BY <1>1, <2>1 DEF AcceptedBefore
    <2>2. CASE s # "accepted"
      BY <1>1, <2>2 DEF AcceptedBefore
    <2>3. QED BY <2>1, <2>2
  <1>4. QED BY <1>2, <1>3 DEF d2, n, s

\* The nodes the replay expects before any position, after `record`.
LEMMA AppendedNodes ==
  ASSUME NEW d, IsDocument(d), NEW e \in Evaluation, NEW r \in RunDir
  PROVE  LET d2 == Recorded(d, e, r)
             n  == Len(d.attempts)
         IN  /\ \A i \in 1..(n + 1) : NodesBefore(d2, i) = NodesBefore(d, i)
             /\ ReplayedNodes(d2) =
                  ReplayedNodes(d) \cup
                    (IF EffectiveStatus(d, e) = "accepted" THEN {e.id} ELSE {})
  <1> DEFINE d2 == Recorded(d, e, r)
             n  == Len(d.attempts)
             s  == EffectiveStatus(d, e)
  <1>1. /\ n \in Nat
        /\ DOMAIN d.attempts = 1..n
        /\ Len(d2.attempts) = n + 1
        /\ \A i \in 1..n : d2.attempts[i] = d.attempts[i]
        /\ d2.attempts[n + 1] = [eval |-> e, run |-> r, status |-> s]
    BY AppendedAttempts
  <1>2. /\ \A i \in 1..(n + 1) : AcceptedBefore(d2, i) = AcceptedBefore(d, i)
        /\ AcceptedBefore(d2, n + 2) =
             AcceptedBefore(d, n + 1) \cup (IF s = "accepted" THEN {n + 1} ELSE {})
    BY AppendedAccepted
  <1> HIDE DEF d2, n, s
  <1>3. \A i \in 1..(n + 2) : AcceptedBefore(d, i) \subseteq 1..n
    BY <1>1 DEF AcceptedBefore
  <1>4. \A i \in 1..(n + 1) : NodesBefore(d2, i) = NodesBefore(d, i)
    BY <1>1, <1>2, <1>3 DEF NodesBefore
  <1>5. NodesBefore(d2, n + 2) =
          NodesBefore(d, n + 1) \cup (IF s = "accepted" THEN {e.id} ELSE {})
    <2>1. CASE s = "accepted"
      <3>1. AcceptedBefore(d2, n + 2) = AcceptedBefore(d, n + 1) \cup {n + 1}
        BY <1>2, <2>1
      <3>2. QED BY <1>1, <1>3, <2>1, <3>1 DEF NodesBefore
    <2>2. CASE s # "accepted"
      BY <1>1, <1>2, <1>3, <2>2 DEF NodesBefore
    <2>3. QED BY <2>1, <2>2
  <1>6. QED BY <1>1, <1>4, <1>5 DEF d2, n, s, ReplayedNodes

\* `record` writes a document of the right shape and keeps the original node.
LEMMA RecordedDocument ==
  ASSUME NEW d, IsDocument(d), Exists(d), OriginalId \in DOMAIN d.nodes,
         d.nodes[OriginalId] = OriginalNode,
         NEW e \in Evaluation, NEW r \in RunDir
  PROVE  LET d2 == Recorded(d, e, r)
         IN  /\ IsDocument(d2)
             /\ Exists(d2)
             /\ OriginalId \in DOMAIN d2.nodes
             /\ d2.nodes[OriginalId] = OriginalNode
  <1> DEFINE s  == EffectiveStatus(d, e)
             d2 == Recorded(d, e, r)
             a  == [eval |-> e, run |-> r, status |-> s]
  <1>1. a \in Attempt
    BY StatusType DEF Attempt
  <1>2. e.id \in Id /\ e.id # OriginalId /\ e.id # None
    BY IdAssumption DEF Evaluation
  <1>3. s = "accepted" => NodeOf(e) \in Node
    BY RejectionAssumption DEF EffectiveStatus, NodeOf, Node, Evaluation
  <1>4. /\ d2.attempts = Append(d.attempts, a)
        /\ d2.nodes = IF s = "accepted" THEN NodesAfter(d, e) ELSE d.nodes
        /\ d2.best = IF s = "accepted" THEN BestAfter(d, e) ELSE d.best
        /\ d2 = [nodes |-> d2.nodes, attempts |-> d2.attempts, best |-> d2.best]
    BY DEF Recorded
  <1> HIDE DEF d2, s, a
  <1>5. d2.attempts \in Seq(Attempt)
    BY <1>1, <1>4 DEF IsDocument
  <1>6. /\ d2.best \in Id \cup {OriginalId, None}
        /\ d2.best # None
    BY <1>2, <1>4 DEF IsDocument, BestAfter, Exists
  <1>7. /\ DOMAIN d2.nodes \subseteq Id \cup {OriginalId}
        /\ d2.nodes \in [DOMAIN d2.nodes -> Node]
        /\ OriginalId \in DOMAIN d2.nodes
        /\ d2.nodes[OriginalId] = OriginalNode
    <2>1. CASE s = "accepted"
      BY <1>2, <1>3, <1>4, <2>1 DEF IsDocument, NodesAfter
    <2>2. CASE s # "accepted"
      BY <1>4, <2>2 DEF IsDocument
    <2>3. QED BY <2>1, <2>2
  <1>8. QED BY <1>4, <1>5, <1>6, <1>7 DEF IsDocument, Exists, d2

\* The first fastest stays the first fastest.
LEMMA RecordedBest ==
  ASSUME NEW d, IsDocument(d), Exists(d), DocumentReplays(d),
         OriginalId \in DOMAIN d.nodes, d.nodes[OriginalId] = OriginalNode,
         NEW e \in Evaluation, NEW r \in RunDir
  PROVE  ReplayedBest(Recorded(d, e, r), Recorded(d, e, r).best)
  <1> DEFINE s  == EffectiveStatus(d, e)
             d2 == Recorded(d, e, r)
             n  == Len(d.attempts)
             speed(i) == d.attempts[i].eval.speed
             old == AcceptedBefore(d, n + 1)
  <1>1. /\ n \in Nat
        /\ DOMAIN d.attempts = 1..n
        /\ Len(d2.attempts) = n + 1
        /\ \A i \in 1..n : d2.attempts[i] = d.attempts[i]
        /\ d2.attempts[n + 1] = [eval |-> e, run |-> r, status |-> s]
    BY AppendedAttempts
  <1>2. AcceptedBefore(d2, n + 2) = old \cup (IF s = "accepted" THEN {n + 1} ELSE {})
    BY AppendedAccepted
  <1>3. d2.best = IF s = "accepted" THEN BestAfter(d, e) ELSE d.best
    BY DEF Recorded
  <1>4. \A i \in 1..n : d.attempts[i].eval \in Evaluation
    BY <1>1, AttemptType
  <1>5. \A f \in Evaluation : f.speed \in Nat
    BY EvaluationType
  <1>6. old \subseteq 1..n
    BY <1>1 DEF AcceptedBefore
  <1>7. \A i \in old : speed(i) \in Nat
    BY <1>4, <1>5, <1>6
  <1>8. \A i \in old : /\ d.attempts[i].eval.id \in DOMAIN d.nodes
                        /\ d.nodes[d.attempts[i].eval.id].speed = speed(i)
    <2> TAKE i \in old
    <2>1. d.attempts[i].status = "accepted" /\ i \in DOMAIN d.attempts
      BY DEF AcceptedBefore
    <2>2. d.nodes[d.attempts[i].eval.id] = NodeOf(d.attempts[i].eval)
      BY <2>1 DEF DocumentReplays, AttemptReplays
    <2>3. QED BY <2>1, <2>2 DEF NodeOf, DocumentReplays, AttemptReplays
  <1>9. ReplayedBest(d, d.best)
    BY DEF DocumentReplays
  <1> DEFINE oldBest(b) ==
               \/ b = OriginalId /\ \A i \in old : speed(i) <= OriginalSpeed
               \/ \E i \in old :
                    /\ b = d.attempts[i].eval.id
                    /\ speed(i) > OriginalSpeed
                    /\ \A j \in old : IF j < i THEN speed(j) < speed(i)
                                                ELSE speed(j) <= speed(i)
  <1>10. oldBest(d.best)
    BY <1>9 DEF ReplayedBest
  <1>11. OriginalSpeed \in Nat /\ d.nodes[OriginalId].speed = OriginalSpeed /\ e.speed \in Nat
    BY <1>5, SpeedAssumption DEF OriginalNode
  <1> DEFINE new == AcceptedBefore(d2, n + 2)
             speed2(i) == d2.attempts[i].eval.speed
  <1>12. /\ \A i \in old : speed2(i) = speed(i) /\ d2.attempts[i].eval.id = d.attempts[i].eval.id
         /\ speed2(n + 1) = e.speed /\ d2.attempts[n + 1].eval.id = e.id
    BY <1>1, <1>6
  <1> SUFFICES \/ d2.best = OriginalId /\ \A i \in new : speed2(i) <= OriginalSpeed
               \/ \E i \in new :
                    /\ d2.best = d2.attempts[i].eval.id
                    /\ speed2(i) > OriginalSpeed
                    /\ \A j \in new : IF j < i THEN speed2(j) < speed2(i)
                                                ELSE speed2(j) <= speed2(i)
    BY <1>1 DEF ReplayedBest
  <1> HIDE DEF d2, n, s, old, speed, speed2, new
  <1>13. CASE s # "accepted"
    BY <1>2, <1>3, <1>10, <1>12, <1>13 DEF new
  <1>14. CASE s = "accepted"
    <2>1. new = old \cup {n + 1} /\ d2.best = BestAfter(d, e)
      BY <1>2, <1>3, <1>14 DEF new
    <2>2. CASE d.best = OriginalId /\ \A i \in old : speed(i) <= OriginalSpeed
      <3>1. CASE e.speed > OriginalSpeed
        <4>1. d2.best = e.id
          BY <1>11, <2>1, <2>2, <3>1 DEF BestAfter
        <4>2. \A j \in new : IF j < n + 1 THEN speed2(j) < speed2(n + 1)
                                          ELSE speed2(j) <= speed2(n + 1)
          BY <1>1, <1>6, <1>7, <1>11, <1>12, <2>1, <2>2, <3>1
        <4>3. n + 1 \in new /\ speed2(n + 1) > OriginalSpeed
          BY <1>12, <2>1, <3>1
        <4>4. QED BY <1>12, <4>1, <4>2, <4>3
      <3>2. CASE ~(e.speed > OriginalSpeed)
        BY <1>11, <1>12, <2>1, <2>2, <3>2 DEF BestAfter
      <3>3. QED BY <3>1, <3>2
    <2>3. ASSUME NEW i \in old,
                 d.best = d.attempts[i].eval.id,
                 speed(i) > OriginalSpeed,
                 \A j \in old : IF j < i THEN speed(j) < speed(i) ELSE speed(j) <= speed(i)
          PROVE  \E k \in new :
                    /\ d2.best = d2.attempts[k].eval.id
                    /\ speed2(k) > OriginalSpeed
                    /\ \A j \in new : IF j < k THEN speed2(j) < speed2(k)
                                                ELSE speed2(j) <= speed2(k)
      <3>1. d.nodes[d.best].speed = speed(i)
        BY <1>8, <2>3
      <3>2. CASE e.speed > speed(i)
        <4>1. d2.best = e.id
          BY <2>1, <3>1, <3>2 DEF BestAfter
        <4>2. \A j \in old : speed2(j) < speed2(n + 1)
          BY <1>7, <1>11, <1>12, <2>3, <3>2
        <4>3. speed2(n + 1) > OriginalSpeed
          BY <1>7, <1>11, <1>12, <2>3, <3>2
        <4>4. \A j \in new : IF j < n + 1 THEN speed2(j) < speed2(n + 1)
                                          ELSE speed2(j) <= speed2(n + 1)
          BY <1>1, <1>6, <1>11, <1>12, <2>1, <4>2
        <4>5. QED BY <1>12, <2>1, <4>1, <4>3, <4>4
      <3>3. CASE ~(e.speed > speed(i))
        <4>1. d2.best = d2.attempts[i].eval.id
          BY <1>12, <2>1, <2>3, <3>1, <3>3 DEF BestAfter
        <4>2. \A j \in new : IF j < i THEN speed2(j) < speed2(i)
                                      ELSE speed2(j) <= speed2(i)
          BY <1>1, <1>6, <1>7, <1>11, <1>12, <2>1, <2>3, <3>3
        <4>3. QED BY <1>12, <2>1, <2>3, <4>1, <4>2
      <3>4. QED BY <3>2, <3>3
    <2>4. QED BY <1>10, <2>2, <2>3
  <1>15. QED BY <1>13, <1>14

\* `record` keeps the document one that the replay accepts.
LEMMA RecordedReplays ==
  ASSUME NEW d, IsDocument(d), Exists(d), DocumentReplays(d),
         OriginalId \in DOMAIN d.nodes, d.nodes[OriginalId] = OriginalNode,
         NEW e \in Evaluation, NEW r \in RunDir,
         ~IdTaken(d, e.id), e.parent \in DOMAIN d.nodes
  PROVE  DocumentReplays(Recorded(d, e, r))
  <1> DEFINE s  == EffectiveStatus(d, e)
             d2 == Recorded(d, e, r)
             n  == Len(d.attempts)
  <1>1. /\ n \in Nat
        /\ DOMAIN d.attempts = 1..n
        /\ DOMAIN d2.attempts = 1..(n + 1)
        /\ \A i \in 1..n : d2.attempts[i] = d.attempts[i]
        /\ d2.attempts[n + 1] = [eval |-> e, run |-> r, status |-> s]
    BY AppendedAttempts
  <1>2. /\ \A i \in 1..(n + 1) : NodesBefore(d2, i) = NodesBefore(d, i)
        /\ ReplayedNodes(d2) =
             ReplayedNodes(d) \cup (IF s = "accepted" THEN {e.id} ELSE {})
    BY AppendedNodes
  <1>3. d2.nodes = IF s = "accepted" THEN NodesAfter(d, e) ELSE d.nodes
    BY DEF Recorded
  <1>4. s \in {e.gate, "duplicate"}
    BY DEF EffectiveStatus
  <1>5. /\ e.id \notin DOMAIN d.nodes
        /\ \A i \in 1..n : d.attempts[i].eval.id # e.id
    BY <1>1 DEF IdTaken, AttemptsOf
  <1>6. ReplayedNodes(d) = DOMAIN d.nodes /\ ReplayedNodes(d) = NodesBefore(d, n + 1)
    BY DEF DocumentReplays, ReplayedNodes
  <1>7. \A i \in 1..n : AttemptReplays(d, i)
    BY <1>1 DEF DocumentReplays
  <1> HIDE DEF d2, n, s
  <1>8. DOMAIN d2.nodes = ReplayedNodes(d2)
    BY <1>2, <1>3, <1>6 DEF NodesAfter
  <1>9. ASSUME NEW i \in 1..n
        PROVE  AttemptReplays(d2, i)
    <2>1. /\ d2.attempts[i] = d.attempts[i]
          /\ NodesBefore(d2, i) = NodesBefore(d, i)
          /\ d.attempts[i].eval.id # e.id
          /\ AttemptReplays(d, i)
      BY <1>1, <1>2, <1>5, <1>7
    <2>2. CASE s = "accepted"
      BY <1>3, <2>1, <2>2 DEF AttemptReplays, NodesAfter
    <2>3. CASE s # "accepted"
      BY <1>3, <2>1, <2>3 DEF AttemptReplays
    <2>4. QED BY <2>2, <2>3
  <1>10. AttemptReplays(d2, n + 1)
    <2>1. e.parent \in NodesBefore(d2, n + 1) /\ e.id \notin NodesBefore(d2, n + 1)
      BY <1>1, <1>2, <1>5, <1>6
    <2>2. CASE s = "accepted"
      <3>1. /\ e.id \in DOMAIN d2.nodes
            /\ d2.nodes[e.id] = NodeOf(e)
        BY <1>3, <2>2 DEF NodesAfter
      <3>2. QED BY <1>1, <1>4, <2>1, <2>2, <3>1 DEF AttemptReplays
    <2>3. CASE s # "accepted"
      BY <1>1, <1>3, <1>4, <1>5, <2>1, <2>3 DEF AttemptReplays
    <2>4. QED BY <2>2, <2>3
  <1>11. \A i \in DOMAIN d2.attempts : AttemptReplays(d2, i)
    BY <1>1, <1>9, <1>10
  <1>12. ReplayedBest(d2, d2.best)
    BY RecordedBest DEF d2
  <1>13. QED BY <1>8, <1>11, <1>12 DEF DocumentReplays, d2

\* A document in use: there is one, it replays, and its original is intact.
Sound(d) ==
  /\ Exists(d)
  /\ OriginalId \in DOMAIN d.nodes
  /\ d.nodes[OriginalId] = OriginalNode
  /\ DocumentReplays(d)
  /\ JudgedOnceIn(d)
  /\ OneAttemptPerIdIn(d)

\* A digest is in some node exactly when it is the original's or an accepted
\* attempt's, so that looking through nodes and attempts is looking through
\* the attempts and the original.
LEMMA SeenInAttempts ==
  ASSUME NEW d, IsDocument(d), Sound(d), NEW e \in Evaluation
  PROVE  /\ ProposalSeen(d, e.proposal) <=>
              \/ e.proposal = OriginalSha
              \/ \E j \in DOMAIN d.attempts : d.attempts[j].eval.proposal = e.proposal
         /\ ArtifactSeen(d, e.artifact) <=>
              \/ e.artifact = OriginalSha
              \/ e.artifact # None
                 /\ \E j \in DOMAIN d.attempts : d.attempts[j].eval.artifact = e.artifact
  <1>1. ASSUME NEW m \in DOMAIN d.nodes, m # OriginalId
        PROVE  \E j \in DOMAIN d.attempts : d.nodes[m] = NodeOf(d.attempts[j].eval)
    <2>1. m \in NodesBefore(d, Len(d.attempts) + 1)
      BY DEF Sound, DocumentReplays, ReplayedNodes
    <2>2. PICK j \in AcceptedBefore(d, Len(d.attempts) + 1) : d.attempts[j].eval.id = m
      BY <1>1, <2>1 DEF NodesBefore
    <2>3. j \in DOMAIN d.attempts /\ d.attempts[j].status = "accepted"
      BY DEF AcceptedBefore
    <2>4. d.nodes[d.attempts[j].eval.id] = NodeOf(d.attempts[j].eval)
      BY <2>3 DEF Sound, DocumentReplays, AttemptReplays
    <2>5. QED BY <2>2, <2>3, <2>4
  <1>2. /\ OriginalId \in DOMAIN d.nodes
        /\ d.nodes[OriginalId].proposal = OriginalSha
        /\ d.nodes[OriginalId].artifact = OriginalSha
        /\ OriginalSha # None
    BY DigestAssumption DEF Sound, OriginalNode
  <1>3. \A f : NodeOf(f).proposal = f.proposal /\ NodeOf(f).artifact = f.artifact
    BY DEF NodeOf
  <1>4. QED BY <1>1, <1>2, <1>3 DEF ProposalSeen, ArtifactSeen, AttemptsOf

\* `record` keeps the judgements of the attempts that are there, and judges
\* the one it appends against all of them.
LEMMA RecordedJudgedOnce ==
  ASSUME NEW d, IsDocument(d), Sound(d), NEW e \in Evaluation, NEW r \in RunDir
  PROVE  JudgedOnceIn(Recorded(d, e, r))
  <1> DEFINE s  == EffectiveStatus(d, e)
             d2 == Recorded(d, e, r)
             n  == Len(d.attempts)
             repeats(a, b) == \/ b.eval.proposal = a.eval.proposal
                              \/ a.eval.artifact # None /\ b.eval.artifact = a.eval.artifact
             judged(D, i) ==
               D.attempts[i].status = "duplicate" <=>
                 \/ OriginalSha \in {D.attempts[i].eval.proposal, D.attempts[i].eval.artifact}
                 \/ \E j \in 1..(i - 1) : repeats(D.attempts[i], D.attempts[j])
  <1>1. /\ n \in Nat
        /\ DOMAIN d.attempts = 1..n
        /\ DOMAIN d2.attempts = 1..(n + 1)
        /\ \A i \in 1..n : d2.attempts[i] = d.attempts[i]
        /\ d2.attempts[n + 1] = [eval |-> e, run |-> r, status |-> s]
    BY AppendedAttempts
  <1>2. \A i \in 1..n : judged(d, i)
    BY <1>1 DEF Sound, JudgedOnceIn
  <1>3. s = "duplicate" <=>
          \/ OriginalSha \in {e.proposal, e.artifact}
          \/ \E j \in 1..n : \/ d.attempts[j].eval.proposal = e.proposal
                             \/ e.artifact # None /\ d.attempts[j].eval.artifact = e.artifact
    <2>1. e.gate # "duplicate"
      BY EvaluationType, RejectionAssumption
    <2>2. s = "duplicate" <=> ProposalSeen(d, e.proposal) \/ ArtifactSeen(d, e.artifact)
      BY <2>1 DEF EffectiveStatus
    <2>3. QED BY <1>1, <2>2, SeenInAttempts
  <1> HIDE DEF d2, n, s
  <1>4. ASSUME NEW i \in 1..n
        PROVE  judged(d2, i)
    <2>1. d2.attempts[i] = d.attempts[i] /\ \A j \in 1..(i - 1) : d2.attempts[j] = d.attempts[j]
      BY <1>1
    <2>2. QED BY <1>2, <2>1
  <1>5. judged(d2, n + 1)
    <2>1. (n + 1) - 1 = n
      BY <1>1
    <2>2. /\ d2.attempts[n + 1].eval = e
          /\ d2.attempts[n + 1].status = s
          /\ \A j \in 1..n : d2.attempts[j] = d.attempts[j]
      BY <1>1
    <2>3. QED BY <1>3, <2>1, <2>2
  <1>6. \A i \in DOMAIN d2.attempts : judged(d2, i)
    BY <1>1, <1>4, <1>5
  <1>7. QED BY <1>6 DEF JudgedOnceIn, d2

\* Recording keeps the document sound, and appends exactly one attempt.
LEMMA RecordedSound ==
  ASSUME NEW d, IsDocument(d), Sound(d), NEW e \in Evaluation, NEW r \in RunDir,
         ~IdTaken(d, e.id), e.parent \in DOMAIN d.nodes
  PROVE  LET d2 == Recorded(d, e, r)
         IN  /\ IsDocument(d2)
             /\ Sound(d2)
             /\ AttemptsOf(d2) = AttemptsOf(d) \cup
                  {[eval |-> e, run |-> r, status |-> EffectiveStatus(d, e)]}
             /\ DOMAIN d.nodes \subseteq DOMAIN d2.nodes
             /\ \A m \in DOMAIN d.nodes : d2.nodes[m] = d.nodes[m]
  <1> DEFINE d2 == Recorded(d, e, r)
             n  == Len(d.attempts)
             s  == EffectiveStatus(d, e)
  <1>1. /\ n \in Nat
        /\ DOMAIN d.attempts = 1..n
        /\ DOMAIN d2.attempts = 1..(n + 1)
        /\ \A i \in 1..n : d2.attempts[i] = d.attempts[i]
        /\ d2.attempts[n + 1] = [eval |-> e, run |-> r, status |-> s]
    BY AppendedAttempts
  <1>2. /\ IsDocument(d2)
        /\ Exists(d2)
        /\ OriginalId \in DOMAIN d2.nodes
        /\ d2.nodes[OriginalId] = OriginalNode
    BY RecordedDocument DEF Sound
  <1>3. DocumentReplays(d2)
    BY RecordedReplays DEF Sound
  <1>4. JudgedOnceIn(d2)
    BY RecordedJudgedOnce
  <1>5. \A i \in 1..n : d.attempts[i].eval.id # e.id
    BY <1>1 DEF IdTaken, AttemptsOf
  <1>6. e.id \notin DOMAIN d.nodes
    BY DEF IdTaken
  <1>7. d2.nodes = IF s = "accepted" THEN NodesAfter(d, e) ELSE d.nodes
    BY DEF Recorded
  <1>8. OneAttemptPerIdIn(d) /\ IsDocument(d)
    BY DEF Sound
  <1> HIDE DEF d2, n, s
  <1>9. OneAttemptPerIdIn(d2)
    BY <1>1, <1>5, <1>8 DEF OneAttemptPerIdIn
  <1>10. AttemptsOf(d2) = AttemptsOf(d) \cup {[eval |-> e, run |-> r, status |-> s]}
    BY <1>1 DEF AttemptsOf
  <1>11. /\ DOMAIN d.nodes \subseteq DOMAIN d2.nodes
         /\ \A m \in DOMAIN d.nodes : d2.nodes[m] = d.nodes[m]
    BY <1>6, <1>7 DEF NodesAfter
  <1>12. QED BY <1>2, <1>3, <1>4, <1>9, <1>10, <1>11 DEF Sound, d2, s

\* The document `initialize` writes is a sound one.
LEMMA BaselineSound == IsDocument(BaselineDocument) /\ Sound(BaselineDocument)
  <1> DEFINE b == BaselineDocument
  <1>1. b.attempts = <<>> /\ Len(b.attempts) = 0 /\ DOMAIN b.attempts = {}
    BY DEF BaselineDocument
  <1>2. OriginalNode \in Node
    BY DEF OriginalNode, Node
  <1>3. IsDocument(b)
    BY <1>2, IdAssumption DEF IsDocument, BaselineDocument
  <1>4. b.best = OriginalId /\ DOMAIN b.nodes = {OriginalId} /\ b.nodes[OriginalId] = OriginalNode
    BY DEF BaselineDocument
  <1> HIDE DEF b
  <1>5. \A i : AcceptedBefore(b, i) = {}
    BY <1>1 DEF AcceptedBefore
  <1>6. ReplayedNodes(b) = {OriginalId} /\ ReplayedBest(b, OriginalId)
    BY <1>5 DEF ReplayedNodes, NodesBefore, ReplayedBest
  <1>7. DocumentReplays(b)
    BY <1>1, <1>4, <1>6 DEF DocumentReplays
  <1>8. JudgedOnceIn(b) /\ OneAttemptPerIdIn(b)
    BY <1>1 DEF JudgedOnceIn, OneAttemptPerIdIn
  <1>9. QED BY <1>3, <1>4, <1>7, <1>8, IdAssumption DEF Sound, Exists, b

---------------------------------------------------------------------------
(* The inductive invariant.                                                *)

\* Processes that hold the exclusive lock, that have opened their attempt
\* directory, that have not yet recorded it, and that have written its
\* evaluation.json.
Holding   == {"recording", "deciding", "initializing"}
Unrecorded == {"evaluating", "evaluated", "recording", "deciding"}
Opened    == Unrecorded \cup {"deciding_file"}
Filed     == Opened \ {"evaluating"}

\* An evaluate command's request, before and after its parent is chosen.
RequestInv ==
  \A p \in Proc :
    /\ pc[p] \in {"starting", "loading", "loaded"} \cup Opened =>
         req[p] \in Request /\ req[p].id \in Id /\ req[p].proposal \in Proposal
    /\ pc[p] \in {"loaded"} \cup Opened => req[p].parent # None

\* One process at a time holds the exclusive lock, and the document it has in
\* memory is the one on disk until it writes.
LockInv ==
  \A p \in Proc :
    /\ pc[p] \in Holding => writer = p
    /\ pc[p] = "deciding" => /\ snap[p] = doc
                             /\ Exists(doc)
                             /\ evaluation[DirOf(p)].parent \in DOMAIN doc.nodes

DocInv ==
  /\ Exists(doc) => Sound(doc)
  /\ ~Exists(doc) => doc.attempts = <<>>

\* A directory belongs to the process that made it, which alone writes in it,
\* and becomes an attempt's at most once.
DirInv ==
  /\ \A p \in Proc : pc[p] \in Opened => dirs[DirOf(p)] = p
  /\ \A p \in Proc : pc[p] \in Filed =>
       evaluation[DirOf(p)] \in Evaluation /\ evaluation[DirOf(p)].id = req[p].id
  /\ \A p \in Proc : pc[p] \in Unrecorded =>
       decision[DirOf(p)] = None /\ \A a \in AttemptsOf(doc) : HomeOf(a) # DirOf(p)
  /\ \A x \in Dir : dirs[x] = None => decision[x] = None
  /\ \A a \in AttemptsOf(doc) :
       /\ dirs[HomeOf(a)] # None
       /\ evaluation[HomeOf(a)] = a.eval
       /\ decision[HomeOf(a)] \in {None, a.status}

ReplyInv ==
  /\ \A p \in Proc : pc[p] = "deciding_file" =>
       reply[p] # None /\ \A a \in AttemptsOf(doc) : HomeOf(a) = DirOf(p) => a.status = reply[p].status
  /\ \A p \in Proc : pc[p] \in {"idle", "starting", "loading", "loaded"} \cup Unrecorded =>
       reply[p] = None
  /\ NoLostCommit

IInv == TypeOK /\ RequestInv /\ LockInv /\ DocInv /\ DirInv /\ ReplyInv

---------------------------------------------------------------------------
(* Every step preserves it.                                                *)

LEMMA DirOfType ==
  ASSUME NEW p \in Proc, req[p] \in Request
  PROVE  DirOf(p) \in Dir
  BY DEF DirOf, Dir, Request

\* An absent state.json is a document without a best node.
LEMMA NoDocumentType == IsDocument(NoDocument) /\ ~Exists(NoDocument)
  BY DEF IsDocument, NoDocument, Exists

\* The invariant holds before any process has started.
LEMMA InitIInv == Init => IInv
  <1> SUFFICES ASSUME Init PROVE IInv
    OBVIOUS
  <1>1. IsDocument(doc) /\ doc.attempts = <<>> /\ AttemptsOf(doc) = {}
    BY NoDocumentType, BaselineSound DEF Init, NoDocument, BaselineDocument, AttemptsOf
  <1>2. TypeOK
    BY <1>1, NoDocumentType DEF Init, TypeOK
  <1>3. Exists(doc) => Sound(doc)
    BY BaselineSound, NoDocumentType DEF Init
  <1>4. DocInv
    BY <1>1, <1>3 DEF DocInv
  <1>5. RequestInv /\ LockInv
    BY DEF Init, RequestInv, LockInv, Holding, Opened, Unrecorded
  <1>6. DirInv
    BY <1>1 DEF Init, DirInv, Opened, Filed, Unrecorded
  <1>7. ReplyInv
    BY DEF Init, ReplyInv, NoLostCommit, Unrecorded
  <1>8. QED BY <1>2, <1>4, <1>5, <1>6, <1>7 DEF IInv

\* A step that changes nothing keeps the invariant.
LEMMA StutterIInv == IInv /\ UNCHANGED vars => IInv'
  <1> SUFFICES ASSUME IInv, UNCHANGED vars PROVE IInv'
    OBVIOUS
  <1>1. TypeOK'
    BY DEF IInv, TypeOK, vars, files
  <1>2. RequestInv' /\ LockInv' /\ DocInv'
    BY DEF IInv, RequestInv, LockInv, DocInv, vars, files, DirOf
  <1>3. DirInv' /\ ReplyInv'
    BY DEF IInv, DirInv, ReplyInv, NoLostCommit, vars, files, DirOf
  <1>4. QED BY <1>1, <1>2, <1>3 DEF IInv

\* Steps that only take locks or give up leave documents and files alone.
LEMMA LockSharedIInv ==
  ASSUME NEW p \in Proc, IInv, LockShared(p)
  PROVE  IInv'
  <1> USE DEF LockShared, Goto, files
  <1>1. TypeOK'
    BY DEF IInv, TypeOK
  <1>2. RequestInv' /\ LockInv' /\ DocInv'
    BY DEF IInv, TypeOK, RequestInv, LockInv, DocInv, DirOf, Holding, Opened, Unrecorded
  <1>3. DirInv'
    BY DEF IInv, TypeOK, DirInv, DirOf, Opened, Filed, Unrecorded
  <1>4. ReplyInv'
    BY DEF IInv, TypeOK, ReplyInv, NoLostCommit, DirOf, Unrecorded
  <1>5. QED BY <1>1, <1>2, <1>3, <1>4 DEF IInv

\* A process takes the exclusive flock.
LEMMA LockExclusiveIInv ==
  ASSUME NEW p \in Proc, IInv, LockExclusive(p)
  PROVE  IInv'
  <1> USE DEF LockExclusive, Goto, files
  <1>1. TypeOK'
    BY DEF IInv, TypeOK
  <1>2. RequestInv' /\ DocInv'
    BY DEF IInv, TypeOK, RequestInv, DocInv, Opened, Unrecorded
  <1>3. LockInv'
    <2>1. \A q \in Proc : pc[q] \notin Holding
      BY ProcAssumption DEF IInv, LockInv, ExclusiveFree
    <2>2. QED BY <2>1 DEF IInv, TypeOK, LockInv, DirOf, Holding
  <1>4. DirInv'
    BY DEF IInv, TypeOK, DirInv, DirOf, Opened, Filed, Unrecorded
  <1>5. ReplyInv'
    BY DEF IInv, TypeOK, ReplyInv, NoLostCommit, DirOf, Unrecorded
  <1>6. QED BY <1>1, <1>2, <1>3, <1>4, <1>5 DEF IInv

\* The baseline's phases end.
LEMMA RunBaselineIInv ==
  ASSUME NEW p \in Proc, IInv, RunBaseline(p)
  PROVE  IInv'
  <1> USE DEF RunBaseline, Outcome, Goto, files
  <1>1. TypeOK'
    BY DEF IInv, TypeOK, Ended
  <1>2. RequestInv' /\ LockInv' /\ DocInv'
    BY DEF IInv, TypeOK, RequestInv, LockInv, DocInv, DirOf, Holding, Opened, Unrecorded
  <1>3. DirInv'
    BY DEF IInv, TypeOK, DirInv, DirOf, Opened, Filed, Unrecorded
  <1>4. ReplyInv'
    BY DEF IInv, TypeOK, ReplyInv, NoLostCommit, DirOf, Unrecorded
  <1>5. QED BY <1>1, <1>2, <1>3, <1>4 DEF IInv

\* A phase raises a ControllerError.
LEMMA AbortEvaluationIInv ==
  ASSUME NEW p \in Proc, IInv, AbortEvaluation(p)
  PROVE  IInv'
  <1> USE DEF AbortEvaluation, Goto, files
  <1>1. TypeOK'
    BY DEF IInv, TypeOK, Ended
  <1>2. RequestInv' /\ LockInv' /\ DocInv'
    BY DEF IInv, TypeOK, RequestInv, LockInv, DocInv, DirOf, Holding, Opened, Unrecorded
  <1>3. DirInv'
    BY DEF IInv, TypeOK, DirInv, DirOf, Opened, Filed, Unrecorded
  <1>4. ReplyInv'
    BY DEF IInv, TypeOK, ReplyInv, NoLostCommit, DirOf, Unrecorded
  <1>5. QED BY <1>1, <1>2, <1>3, <1>4 DEF IInv

\* `init` starts and makes its baseline directory.
LEMMA BeginInitIInv ==
  ASSUME NEW p \in Proc, IInv, BeginInit(p)
  PROVE  IInv'
  <1>1. PICK r \in RunDir :
          LET fresh == ~Exists(doc) /\ dirs[<<r, OriginalId>>] = None IN
          /\ Outcome(p, "idle", fresh, "baselining")
          /\ req' = [req EXCEPT ![p] = [run |-> r, id |-> OriginalId,
                                        proposal |-> None, parent |-> None]]
          /\ dirs' = IF fresh THEN [dirs EXCEPT ![<<r, OriginalId>>] = p] ELSE dirs
    BY DEF BeginInit
  <1>2. /\ pc[p] = "idle"
        /\ pc' \in {[pc EXCEPT ![p] = "baselining"], [pc EXCEPT ![p] = "failed"]}
        /\ req' = [req EXCEPT ![p] = [run |-> r, id |-> OriginalId,
                                      proposal |-> None, parent |-> None]]
        /\ dirs' \in {dirs, [dirs EXCEPT ![<<r, OriginalId>>] = p]}
        /\ UNCHANGED <<doc, writer, readers, evaluation, decision, snap, reply>>
    BY <1>1 DEF BeginInit, Outcome, Goto
  <1>3. /\ <<r, OriginalId>> \in Dir
        /\ req'[p] \in Request
        /\ p # None
    BY <1>2, ProcAssumption DEF Dir, Request, IInv, TypeOK
  <1>4. TypeOK'
    BY <1>2, <1>3 DEF IInv, TypeOK, Ended
  <1>5. RequestInv' /\ LockInv' /\ DocInv'
    BY <1>2 DEF IInv, TypeOK, RequestInv, LockInv, DocInv, DirOf, Holding, Opened, Unrecorded
  <1>6. \A q \in Proc : pc'[q] \in Opened =>
          pc'[q] = pc[q] /\ DirOf(q)' = DirOf(q) /\ DirOf(q) # <<r, OriginalId>>
    BY <1>2, IdAssumption DEF IInv, TypeOK, RequestInv, DirOf, Opened, Unrecorded
  <1>7. \A a \in AttemptsOf(doc) : a \in Attempt
    BY AttemptType DEF AttemptsOf, IInv, TypeOK
  <1>8. \A x \in Dir : x # <<r, OriginalId>> => dirs'[x] = dirs[x]
    BY <1>2, <1>3 DEF IInv, TypeOK
  <1>9. \A x \in Dir : dirs[x] # None => dirs'[x] # None
    BY <1>2, <1>3 DEF IInv, TypeOK
  <1>10. \A a \in AttemptsOf(doc) : HomeOf(a) \in Dir
    BY <1>7, EvaluationType DEF HomeOf, Dir, Attempt
  <1>11. \A q \in Proc : pc'[q] \in Opened => DirOf(q) \in Dir
    BY <1>6, DirOfType DEF IInv, RequestInv
  <1>12. DirInv'
    <2>1. \A q \in Proc : pc'[q] \in Opened => dirs'[DirOf(q)'] = q
      BY <1>6, <1>8, <1>11 DEF IInv, DirInv
    <2>2. \A q \in Proc : pc'[q] \in Filed =>
            evaluation'[DirOf(q)'] \in Evaluation /\ evaluation'[DirOf(q)'].id = req'[q].id
      BY <1>2, <1>6 DEF IInv, DirInv, Filed, Opened, TypeOK, Unrecorded
    <2>3. \A q \in Proc : pc'[q] \in Unrecorded =>
            /\ decision'[DirOf(q)'] = None
            /\ \A a \in AttemptsOf(doc') : HomeOf(a) # DirOf(q)'
      BY <1>2, <1>6 DEF IInv, DirInv, Opened
    <2>4. \A x \in Dir : dirs'[x] = None => decision'[x] = None
      BY <1>2, <1>9 DEF IInv, DirInv
    <2>5. \A a \in AttemptsOf(doc') :
            /\ dirs'[HomeOf(a)] # None
            /\ evaluation'[HomeOf(a)] = a.eval
            /\ decision'[HomeOf(a)] \in {None, a.status}
      BY <1>2, <1>9, <1>10 DEF IInv, DirInv
    <2>6. QED BY <2>1, <2>2, <2>3, <2>4, <2>5 DEF DirInv
  <1>13. ReplyInv'
    BY <1>2 DEF IInv, TypeOK, ReplyInv, NoLostCommit, DirOf, Unrecorded
  <1>14. QED BY <1>4, <1>5, <1>12, <1>13 DEF IInv

\* lineage.initialize writes the document, or finds one.
LEMMA InitializeIInv ==
  ASSUME NEW p \in Proc, IInv, Initialize(p)
  PROVE  IInv'
  <1>1. /\ pc[p] = "initializing"
        /\ pc' \in {[pc EXCEPT ![p] = "done"], [pc EXCEPT ![p] = "failed"],
                   [pc EXCEPT ![p] = "refused"]}
        /\ \/ doc' = doc
           \/ ~Exists(doc) /\ doc' = BaselineDocument
        /\ writer' = None
        /\ UNCHANGED <<readers, files, req, snap, reply>>
    BY DEF Initialize, Goto, MayInitialize
  <1>2. AttemptsOf(doc') = AttemptsOf(doc) /\ IsDocument(doc')
    BY <1>1, BaselineSound DEF IInv, TypeOK, DocInv, AttemptsOf, BaselineDocument
  <1>3. TypeOK'
    BY <1>1, <1>2 DEF IInv, TypeOK, files, Ended
  <1>4. DocInv'
    BY <1>1, BaselineSound DEF IInv, DocInv, Sound
  <1>5. \A q \in Proc : q # p => pc[q] \notin Holding /\ pc'[q] = pc[q]
    BY <1>1 DEF IInv, TypeOK, LockInv, Holding
  <1>6. LockInv'
    BY <1>1, <1>5 DEF IInv, TypeOK, LockInv, Holding
  <1>7. RequestInv'
    BY <1>1 DEF IInv, TypeOK, RequestInv, Opened, Unrecorded
  <1>8. DirInv'
    BY <1>1, <1>2 DEF IInv, TypeOK, DirInv, DirOf, Opened, Filed, Unrecorded, files
  <1>9. ReplyInv'
    BY <1>1, <1>2 DEF IInv, TypeOK, ReplyInv, NoLostCommit, DirOf, Unrecorded, files
  <1>10. QED BY <1>3, <1>4, <1>6, <1>7, <1>8, <1>9 DEF IInv

\* `evaluate` starts with some command line.
LEMMA BeginEvaluateIInv ==
  ASSUME NEW p \in Proc, IInv, BeginEvaluate(p)
  PROVE  IInv'
  <1>1. PICK r \in RunDir, id \in Id, q \in Proposal, parent \in Id \cup {OriginalId, None} :
          req' = [req EXCEPT ![p] = [run |-> r, id |-> id, proposal |-> q, parent |-> parent]]
    BY DEF BeginEvaluate
  <1>2. /\ pc[p] = "idle"
        /\ pc' = [pc EXCEPT ![p] = "starting"]
        /\ UNCHANGED <<doc, writer, readers, files, snap, reply>>
    BY DEF BeginEvaluate, Goto
  <1>3. req'[p] \in Request /\ req'[p].id \in Id /\ req'[p].proposal \in Proposal
    BY <1>1 DEF Request, IInv, TypeOK
  <1>4. TypeOK'
    BY <1>1, <1>2, <1>3 DEF IInv, TypeOK, files
  <1>5. RequestInv' /\ LockInv' /\ DocInv'
    BY <1>1, <1>2, <1>3
       DEF IInv, TypeOK, RequestInv, LockInv, DocInv, DirOf, Holding, Opened, Unrecorded, files
  <1>6. DirInv'
    BY <1>1, <1>2 DEF IInv, TypeOK, DirInv, DirOf, Opened, Filed, Unrecorded, files
  <1>7. ReplyInv'
    BY <1>1, <1>2 DEF IInv, TypeOK, ReplyInv, NoLostCommit, DirOf, Unrecorded, files
  <1>8. QED BY <1>4, <1>5, <1>6, <1>7 DEF IInv

\* _load_candidate_context takes its snapshot and lets the shared flock go.
LEMMA LoadContextIInv ==
  ASSUME NEW p \in Proc, IInv, LoadContext(p)
  PROVE  IInv'
  <1> DEFINE loads == Verified(doc) /\ Parent(p, doc) \in DOMAIN doc.nodes
  <1>1. /\ pc[p] = "loading"
        /\ readers' = readers \ {p}
        /\ UNCHANGED <<doc, writer, files, reply>>
    BY DEF LoadContext, Outcome, Goto, ReadersAfterLoad
  <1>2. CASE loads
    <2>1. /\ pc' = [pc EXCEPT ![p] = "loaded"]
          /\ req' = [req EXCEPT ![p].parent = Parent(p, doc)]
          /\ snap' = [snap EXCEPT ![p] = doc]
      BY <1>2 DEF LoadContext, Outcome, Goto
    <2>2. Parent(p, doc) \in Id \cup {OriginalId} /\ Parent(p, doc) # None
      BY <1>2, IdAssumption DEF IInv, TypeOK, IsDocument
    <2>3. req[p] \in Request /\ req[p].id \in Id /\ req[p].proposal \in Proposal
      BY <1>1 DEF IInv, RequestInv
    <2>4. /\ req'[p] \in Request
          /\ req'[p].id = req[p].id
          /\ req'[p].run = req[p].run
          /\ req'[p].proposal = req[p].proposal
          /\ req'[p].parent # None
      BY <2>1, <2>2, <2>3 DEF Request, IInv, TypeOK
    <2>5. \A q \in Proc : /\ DirOf(q)' = DirOf(q)
                          /\ q # p => req'[q] = req[q] /\ pc'[q] = pc[q]
      BY <2>1, <2>4 DEF DirOf, IInv, TypeOK
    <2>6. pc'[p] = "loaded" /\ \A q \in Proc : req'[q].id = req[q].id
      BY <2>1, <2>4, <2>5 DEF IInv, TypeOK
    <2>7. TypeOK'
      BY <1>1, <2>1, <2>4 DEF IInv, TypeOK, files
    <2>8. RequestInv'
      BY <2>3, <2>4, <2>5, <2>6 DEF IInv, RequestInv, Opened, Unrecorded
    <2>9. LockInv' /\ DocInv'
      BY <1>1, <2>1, <2>5, <2>6 DEF IInv, TypeOK, LockInv, DocInv, Holding, files
    <2>10. DirInv'
      BY <1>1, <2>5, <2>6 DEF IInv, DirInv, Opened, Filed, Unrecorded, files
    <2>11. ReplyInv'
      BY <1>1, <2>5, <2>6 DEF IInv, ReplyInv, NoLostCommit, Unrecorded, files
    <2>12. QED BY <2>7, <2>8, <2>9, <2>10, <2>11 DEF IInv
  <1>3. CASE ~loads
    <2>1. pc' = [pc EXCEPT ![p] = "failed"] /\ UNCHANGED <<req, snap>>
      BY <1>3 DEF LoadContext, Outcome, Goto
    <2>2. TypeOK'
      BY <1>1, <2>1 DEF IInv, TypeOK, files, Ended
    <2>3. RequestInv' /\ LockInv' /\ DocInv'
      BY <1>1, <2>1
         DEF IInv, TypeOK, RequestInv, LockInv, DocInv, DirOf, Holding, Opened, Unrecorded, files
    <2>4. DirInv'
      BY <1>1, <2>1 DEF IInv, TypeOK, DirInv, DirOf, Opened, Filed, Unrecorded, files
    <2>5. ReplyInv'
      BY <1>1, <2>1 DEF IInv, TypeOK, ReplyInv, NoLostCommit, DirOf, Unrecorded, files
    <2>6. QED BY <2>2, <2>3, <2>4, <2>5 DEF IInv
  <1>4. QED BY <1>2, <1>3

\* A directory that mkdir accepts belongs to no process and no attempt.
LEMMA OpenAttemptIInv ==
  ASSUME NEW p \in Proc, IInv, OpenAttempt(p)
  PROVE  IInv'
  <1> DEFINE opens == ~IdTaken(snap[p], req[p].id) /\ DirFree(DirOf(p))
             x == DirOf(p)
  <1>1. /\ pc[p] = "loaded"
        /\ pc' \in {[pc EXCEPT ![p] = "evaluating"], [pc EXCEPT ![p] = "failed"]}
        /\ dirs' = IF opens THEN [dirs EXCEPT ![x] = p] ELSE dirs
        /\ pc'[p] = "evaluating" => opens
        /\ snap' = [snap EXCEPT ![p] = NoDocument]
        /\ UNCHANGED <<doc, writer, readers, evaluation, decision, req, reply>>
    BY DEF OpenAttempt, Outcome, Goto, IInv, TypeOK
  <1>2. x \in Dir /\ p # None
    BY <1>1, DirOfType, ProcAssumption DEF IInv, RequestInv
  <1>3. \A q \in Proc : DirOf(q)' = DirOf(q)
    BY <1>1 DEF DirOf
  <1>4. TypeOK'
    BY <1>1, <1>2, NoDocumentType DEF IInv, TypeOK, Ended
  <1>5. RequestInv' /\ LockInv' /\ DocInv'
    BY <1>1 DEF IInv, TypeOK, RequestInv, LockInv, DocInv, DirOf, Holding, Opened, Unrecorded
  <1>6. \A a \in AttemptsOf(doc) : HomeOf(a) \in Dir
    BY AttemptType, EvaluationType DEF AttemptsOf, HomeOf, Dir, IInv, TypeOK
  <1>7. \A q \in Proc : pc[q] \in Opened => DirOf(q) \in Dir
    BY DirOfType DEF IInv, RequestInv
  <1>8. opens => dirs[x] = None
    BY DEF DirFree
  <1>9. \A y \in Dir : /\ dirs'[y] # dirs[y] => y = x /\ dirs[y] = None /\ dirs'[y] = p
                       /\ dirs[y] # None => dirs'[y] # None
    BY <1>1, <1>2, <1>8 DEF IInv, TypeOK
  <1>10. \A q \in Proc : q # p => pc'[q] = pc[q]
    BY <1>1 DEF IInv, TypeOK
  <1>11. DirInv'
    <2>1. ASSUME NEW q \in Proc, pc'[q] \in Opened
          PROVE  dirs'[DirOf(q)'] = q
      <3>1. CASE q = p
        <4>1. opens
          BY <1>1, <2>1, <3>1 DEF Opened, Unrecorded, IInv, TypeOK
        <4>2. QED BY <1>1, <1>2, <1>3, <3>1, <4>1 DEF IInv, TypeOK
      <3>2. CASE q # p
        <4>1. dirs[DirOf(q)] = q /\ DirOf(q) \in Dir
          BY <1>7, <1>10, <2>1, <3>2 DEF IInv, DirInv
        <4>2. QED BY <1>3, <1>9, <4>1, ProcAssumption
      <3>3. QED BY <3>1, <3>2
    <2>2. \A q \in Proc : pc'[q] \in Filed =>
            evaluation'[DirOf(q)'] \in Evaluation /\ evaluation'[DirOf(q)'].id = req'[q].id
      BY <1>1, <1>3 DEF IInv, TypeOK, DirInv, Filed, Opened, Unrecorded
    <2>3. ASSUME NEW q \in Proc, pc'[q] \in Unrecorded
          PROVE  /\ decision'[DirOf(q)'] = None
                 /\ \A a \in AttemptsOf(doc') : HomeOf(a) # DirOf(q)'
      <3>1. CASE q = p
        <4>1. dirs[x] = None
          BY <1>1, <1>8, <2>3, <3>1 DEF Unrecorded, IInv, TypeOK
        <4>2. QED BY <1>1, <1>2, <1>3, <3>1, <4>1 DEF IInv, DirInv
      <3>2. CASE q # p
        BY <1>1, <1>3, <1>10, <2>3, <3>2 DEF IInv, DirInv
      <3>3. QED BY <3>1, <3>2
    <2>4. \A y \in Dir : dirs'[y] = None => decision'[y] = None
      BY <1>1, <1>9 DEF IInv, DirInv
    <2>5. \A a \in AttemptsOf(doc') :
            /\ dirs'[HomeOf(a)] # None
            /\ evaluation'[HomeOf(a)] = a.eval
            /\ decision'[HomeOf(a)] \in {None, a.status}
      BY <1>1, <1>6, <1>9 DEF IInv, DirInv
    <2>6. QED BY <2>1, <2>2, <2>3, <2>4, <2>5 DEF DirInv
  <1>12. ReplyInv'
    BY <1>1 DEF IInv, TypeOK, ReplyInv, NoLostCommit, DirOf, Unrecorded
  <1>13. QED BY <1>4, <1>5, <1>11, <1>12 DEF IInv

\* Whatever the phases conclude is an evaluation.
LEMMA VerdictGivesEvaluation ==
  ASSUME NEW p \in Proc, NEW v \in Verdict,
         req[p] \in Request, req[p].id \in Id, req[p].proposal \in Proposal, req[p].parent # None
  PROVE  EvaluationOf(p, v) \in Evaluation /\ EvaluationOf(p, v).id = req[p].id
  <1>1. req[p].parent \in Id \cup {OriginalId}
    BY DEF Request
  <1>2. /\ v.artifact \in Artifact \cup {None}
        /\ v.gate \in {"accepted"} \cup Rejection
        /\ v.speed \in Speed \cup {0}
        /\ v.gate = "accepted" => v.artifact # None /\ v.speed \in Speed
    BY RejectionAssumption, DigestAssumption DEF Verdict
  <1>3. QED BY <1>1, <1>2 DEF EvaluationOf, Evaluation

\* Two processes in their attempt directories are in different ones.
LEMMA OwnDirectory ==
  ASSUME IInv, NEW p \in Proc, NEW q \in Proc, p # q,
         pc[p] \in Opened, pc[q] \in Opened
  PROVE  DirOf(p) # DirOf(q)
  BY DEF IInv, DirInv

\* evaluation.json is written into a directory that no attempt points to.
LEMMA EvaluateIInv ==
  ASSUME NEW p \in Proc, IInv, Evaluate(p)
  PROVE  IInv'
  <1>1. PICK v \in Verdict :
          evaluation' = [evaluation EXCEPT ![DirOf(p)] = EvaluationOf(p, v)]
    BY DEF Evaluate
  <1>2. /\ pc[p] = "evaluating"
        /\ pc' = [pc EXCEPT ![p] = "evaluated"]
        /\ UNCHANGED <<doc, writer, readers, dirs, decision, req, snap, reply>>
    BY DEF Evaluate, Goto
  <1>3. req[p] \in Request /\ req[p].id \in Id /\ req[p].proposal \in Proposal /\ req[p].parent # None
    BY <1>2 DEF IInv, RequestInv, Opened, Unrecorded
  <1>4. EvaluationOf(p, v) \in Evaluation /\ EvaluationOf(p, v).id = req[p].id
    BY <1>3, VerdictGivesEvaluation
  <1>5. DirOf(p) \in Dir /\ \A q \in Proc : DirOf(q)' = DirOf(q)
    BY <1>2, <1>3, DirOfType DEF DirOf
  <1>6. TypeOK'
    BY <1>1, <1>2, <1>4, <1>5 DEF IInv, TypeOK
  <1>7. /\ evaluation'[DirOf(p)] = EvaluationOf(p, v)
        /\ \A x \in Dir : x # DirOf(p) => evaluation'[x] = evaluation[x]
    BY <1>1, <1>5 DEF IInv, TypeOK
  <1>8. \A q \in Proc : q # p => pc'[q] = pc[q]
    BY <1>2 DEF IInv, TypeOK
  <1>9. pc'[p] = "evaluated"
    BY <1>2 DEF IInv, TypeOK
  <1>10. \A q \in Proc : q # p /\ pc[q] \in Opened =>
           DirOf(q) \in Dir /\ DirOf(q) # DirOf(p)
    BY <1>2, OwnDirectory, DirOfType DEF IInv, RequestInv, Opened, Unrecorded
  <1>11. RequestInv' /\ DocInv'
    BY <1>2 DEF IInv, TypeOK, RequestInv, DocInv, Opened, Unrecorded
  <1>12. LockInv'
    BY <1>2, <1>5, <1>7, <1>8, <1>9, <1>10 DEF IInv, LockInv, Holding, Opened, Unrecorded
  <1>13. \A a \in AttemptsOf(doc) : HomeOf(a) \in Dir
    BY AttemptType, EvaluationType DEF AttemptsOf, HomeOf, Dir, IInv, TypeOK
  <1>14. DirInv'
    <2>1. \A q \in Proc : pc'[q] \in Opened => dirs'[DirOf(q)'] = q
      BY <1>2, <1>5, <1>8 DEF IInv, DirInv, Opened, Unrecorded
    <2>2. \A q \in Proc : pc'[q] \in Filed =>
            evaluation'[DirOf(q)'] \in Evaluation /\ evaluation'[DirOf(q)'].id = req'[q].id
      BY <1>2, <1>4, <1>5, <1>7, <1>8, <1>10 DEF IInv, DirInv, Filed
    <2>3. \A q \in Proc : pc'[q] \in Unrecorded =>
            /\ decision'[DirOf(q)'] = None
            /\ \A a \in AttemptsOf(doc') : HomeOf(a) # DirOf(q)'
      BY <1>2, <1>5, <1>8 DEF IInv, DirInv, Unrecorded
    <2>4. \A a \in AttemptsOf(doc') :
            /\ dirs'[HomeOf(a)] # None
            /\ evaluation'[HomeOf(a)] = a.eval
            /\ decision'[HomeOf(a)] \in {None, a.status}
      BY <1>2, <1>7, <1>13 DEF IInv, DirInv, Unrecorded
    <2>5. QED BY <1>2, <2>1, <2>2, <2>3, <2>4 DEF IInv, DirInv
  <1>15. ReplyInv'
    BY <1>2 DEF IInv, TypeOK, ReplyInv, NoLostCommit, DirOf, Unrecorded
  <1>16. QED BY <1>6, <1>11, <1>12, <1>14, <1>15 DEF IInv

\* _record_locked reads and verifies the document.
LEMMA ReadDocumentIInv ==
  ASSUME NEW p \in Proc, IInv, ReadDocument(p)
  PROVE  IInv'
  <1> DEFINE passes == Verified(doc) /\ evaluation[DirOf(p)].parent \in DOMAIN doc.nodes
  <1>1. /\ pc[p] = "recording" /\ writer = p
        /\ \A q \in Proc : q # p => pc[q] \notin Holding
        /\ UNCHANGED <<doc, readers, files, req, reply>>
    BY DEF ReadDocument, Outcome, Goto, IInv, LockInv, Holding
  <1>2. \/ /\ passes
           /\ pc' = [pc EXCEPT ![p] = "deciding"]
           /\ snap' = [snap EXCEPT ![p] = doc]
           /\ writer' = writer
        \/ /\ pc' \in {[pc EXCEPT ![p] = "failed"], [pc EXCEPT ![p] = "refused"]}
           /\ UNCHANGED snap
           /\ writer' = None
    BY DEF ReadDocument, ParentKnown, Outcome, Goto
  <1>3. TypeOK'
    BY <1>1, <1>2 DEF IInv, TypeOK, files, Ended
  <1>4. RequestInv' /\ DocInv'
    BY <1>1, <1>2 DEF IInv, TypeOK, RequestInv, DocInv, Opened, Unrecorded
  <1>5. LockInv'
    BY <1>1, <1>2 DEF IInv, TypeOK, LockInv, DirOf, Holding, Verified, files
  <1>6. DirInv'
    BY <1>1, <1>2 DEF IInv, TypeOK, DirInv, DirOf, Opened, Filed, Unrecorded, files
  <1>7. ReplyInv'
    BY <1>1, <1>2 DEF IInv, TypeOK, ReplyInv, NoLostCommit, DirOf, Unrecorded, files
  <1>8. QED BY <1>3, <1>4, <1>5, <1>6, <1>7 DEF IInv

\* The commit: what is in memory is what is on disk, the directory of the
\* evaluation is no attempt's yet, and the document stays sound.
LEMMA ReplyType ==
  ASSUME NEW s \in Status
  PROVE  /\ [recorded |-> FALSE, status |-> s] \in Reply
         /\ [recorded |-> TRUE, status |-> s] \in Reply
  <1>1. FALSE \in BOOLEAN /\ TRUE \in BOOLEAN
    OBVIOUS
  <1>2. QED BY <1>1 DEF Reply

\* _record_locked commits: the step all the others are prepared for.
LEMMA RecordIInv ==
  ASSUME NEW p \in Proc, IInv, Record(p)
  PROVE  IInv'
  <1> DEFINE e == evaluation[DirOf(p)]
             taken == IdTaken(snap[p], e.id)
             s == IF taken THEN "duplicate" ELSE EffectiveStatus(snap[p], e)
             new == [eval |-> e, run |-> req[p].run, status |-> s]
  <1> DEFINE told == pc' = [pc EXCEPT ![p] = "deciding_file"]
  <1>1. /\ pc[p] = "deciding"
        /\ told \/ pc' = [pc EXCEPT ![p] = "refused"]
        /\ \/ doc' = doc
           \/ ~taken /\ doc' = Recorded(snap[p], e, req[p].run)
        /\ told /\ ~taken => doc' = Recorded(snap[p], e, req[p].run)
        /\ told => reply' = [reply EXCEPT ![p] = IF taken
                                                THEN [recorded |-> FALSE, status |-> s]
                                                ELSE [recorded |-> TRUE, status |-> s]]
        /\ ~told => reply' = reply
        /\ snap' = [snap EXCEPT ![p] = NoDocument]
        /\ writer' = None
        /\ UNCHANGED <<readers, files, req>>
    <2>1. pc[p] = "deciding" => [pc EXCEPT ![p] = "refused"] # [pc EXCEPT ![p] = "deciding_file"]
      BY DEF IInv, TypeOK
    <2>2. QED BY <2>1 DEF Record, Goto
  <1>2. /\ snap[p] = doc /\ Exists(doc) /\ e.parent \in DOMAIN doc.nodes
        /\ \A q \in Proc : q # p => pc[q] \notin Holding
    BY <1>1 DEF IInv, LockInv, Holding
  <1>3. /\ e \in Evaluation /\ e.id = req[p].id
        /\ req[p] \in Request /\ req[p].run \in RunDir
        /\ decision[DirOf(p)] = None
        /\ dirs[DirOf(p)] = p
        /\ \A a \in AttemptsOf(doc) : HomeOf(a) # DirOf(p)
        /\ reply[p] = None
    BY <1>1 DEF IInv, RequestInv, DirInv, ReplyInv, Request, Opened, Filed, Unrecorded
  <1>4. IsDocument(doc) /\ Sound(doc)
    BY <1>2 DEF IInv, TypeOK, DocInv
  <1>5. /\ IsDocument(doc') /\ Sound(doc')
        /\ AttemptsOf(doc') \in {AttemptsOf(doc), AttemptsOf(doc) \cup {new}}
        /\ told /\ ~taken => AttemptsOf(doc') = AttemptsOf(doc) \cup {new}
        /\ taken => AttemptsOf(doc') = AttemptsOf(doc)
    <2>1. CASE doc' = doc /\ ~(told /\ ~taken)
      BY <1>1, <1>4, <2>1
    <2>2. CASE ~taken /\ doc' = Recorded(snap[p], e, req[p].run)
      <3>1. ~IdTaken(doc, e.id) /\ doc' = Recorded(doc, e, req[p].run)
        BY <1>2, <2>2
      <3>2. QED BY <1>2, <1>3, <1>4, <2>2, <3>1, RecordedSound
    <2>3. QED BY <1>1, <2>1, <2>2
  <1>6. HomeOf(new) = DirOf(p) /\ new.eval = e /\ new.status = s
    BY <1>3 DEF HomeOf, DirOf
  <1>7. s \in Status
    BY <1>3, StatusType DEF Status
  <1> HIDE DEF e, taken, s, new
  <1>8. DirOf(p) \in Dir /\ \A q \in Proc : DirOf(q)' = DirOf(q)
    BY <1>1, <1>3, DirOfType DEF DirOf
  <1>9. /\ \A q \in Proc : q # p => pc'[q] = pc[q] /\ reply'[q] = reply[q] /\ snap'[q] = snap[q]
        /\ pc'[p] \in {"deciding_file", "refused"}
        /\ pc'[p] = "deciding_file" <=> told
        /\ told => reply'[p] = IF taken THEN [recorded |-> FALSE, status |-> s]
                                        ELSE [recorded |-> TRUE, status |-> s]
        /\ ~told => reply'[p] = None
    BY <1>1, <1>3 DEF IInv, TypeOK
  <1> HIDE DEF told
  <1>10. ASSUME told
         PROVE  /\ reply'[p] \in Reply /\ reply'[p] # None
                /\ reply'[p].status = s
                /\ reply'[p].recorded => ~taken
    <2>1. CASE taken
      <3>1. reply'[p] = [recorded |-> FALSE, status |-> s]
        BY <1>9, <1>10, <2>1
      <3>2. reply'[p] \in Reply
        BY <1>7, <3>1, ReplyType
      <3>3. reply'[p].status = s /\ (reply'[p].recorded => ~taken)
        BY <2>1, <3>1
      <3>4. QED BY <3>2, <3>3, ReplyAssumption
    <2>2. CASE ~taken
      <3>1. reply'[p] = [recorded |-> TRUE, status |-> s]
        BY <1>9, <1>10, <2>2
      <3>2. reply'[p] \in Reply
        BY <1>7, <3>1, ReplyType
      <3>3. reply'[p].status = s /\ (reply'[p].recorded => ~taken)
        BY <2>2, <3>1
      <3>4. QED BY <3>2, <3>3, ReplyAssumption
    <2>3. QED BY <2>1, <2>2
  <1>11. TypeOK'
    <2>1. reply' \in [Proc -> Reply \cup {None}]
      BY <1>1, <1>9, <1>10 DEF IInv, TypeOK
    <2>2. pc' \in [Proc -> {"idle", "baselining", "baselined", "initializing", "starting",
                            "loading", "loaded", "evaluating", "evaluated", "recording",
                            "deciding", "deciding_file"} \cup Ended]
      BY <1>1 DEF IInv, TypeOK, Ended, told
    <2>3. QED BY <1>1, <1>5, <2>1, <2>2, NoDocumentType DEF IInv, TypeOK, files
  <1>12. RequestInv'
    BY <1>1, <1>9 DEF IInv, RequestInv, Opened, Unrecorded
  <1>13. LockInv' /\ DocInv'
    BY <1>2, <1>5, <1>9 DEF LockInv, DocInv, Sound, Holding
  <1>14. DirInv'
    <2>1. \A q \in Proc : pc'[q] \in Opened => dirs'[DirOf(q)'] = q
      BY <1>1, <1>8, <1>9 DEF IInv, DirInv, Opened, Unrecorded, files
    <2>2. \A q \in Proc : pc'[q] \in Filed =>
            evaluation'[DirOf(q)'] \in Evaluation /\ evaluation'[DirOf(q)'].id = req'[q].id
      BY <1>1, <1>8, <1>9 DEF IInv, DirInv, Filed, Opened, Unrecorded, files
    <2>3. ASSUME NEW q \in Proc, pc'[q] \in Unrecorded
          PROVE  /\ decision'[DirOf(q)'] = None
                 /\ \A a \in AttemptsOf(doc') : HomeOf(a) # DirOf(q)'
      <3>1. q # p /\ pc[q] \in Unrecorded
        BY <1>9, <2>3 DEF Unrecorded
      <3>2. DirOf(q) # DirOf(p)
        BY <1>1, <3>1, OwnDirectory DEF Opened, Unrecorded
      <3>3. QED BY <1>1, <1>5, <1>6, <1>8, <3>1, <3>2 DEF IInv, DirInv, files
    <2>4. ASSUME NEW a \in AttemptsOf(doc')
          PROVE  /\ dirs'[HomeOf(a)] # None
                 /\ evaluation'[HomeOf(a)] = a.eval
                 /\ decision'[HomeOf(a)] \in {None, a.status}
      <3>1. CASE a \in AttemptsOf(doc)
        BY <1>1, <3>1 DEF IInv, DirInv, files
      <3>2. CASE a = new
        BY <1>1, <1>3, <1>6, <3>2, ProcAssumption DEF files, e
      <3>3. QED BY <1>5, <3>1, <3>2
    <2>5. QED BY <1>1, <2>1, <2>2, <2>3, <2>4 DEF IInv, DirInv, files
  <1>15. ReplyInv'
    <2>1. ASSUME NEW q \in Proc, pc'[q] = "deciding_file"
          PROVE  /\ reply'[q] # None
                 /\ \A a \in AttemptsOf(doc') : HomeOf(a) = DirOf(q)' => a.status = reply'[q].status
      <3>1. CASE q = p
        BY <1>3, <1>5, <1>6, <1>8, <1>9, <1>10, <2>1, <3>1
      <3>2. CASE q # p
        <4>1. pc[q] = "deciding_file"
          BY <1>9, <2>1, <3>2
        <4>2. DirOf(q) # DirOf(p)
          BY <1>1, <3>2, <4>1, OwnDirectory DEF Opened, Unrecorded
        <4>3. QED BY <1>5, <1>6, <1>8, <1>9, <3>2, <4>1, <4>2 DEF IInv, ReplyInv
      <3>3. QED BY <3>1, <3>2
    <2>2. \A q \in Proc : pc'[q] \in {"idle", "starting", "loading", "loaded"} \cup Unrecorded =>
            reply'[q] = None
      BY <1>9 DEF IInv, ReplyInv, Unrecorded
    <2>3. ASSUME NEW q \in Proc, reply'[q] # None, reply'[q].recorded
          PROVE  \E a \in AttemptsOf(doc') : HomeOf(a) = DirOf(q)' /\ a.status = reply'[q].status
      <3>1. CASE q = p
        BY <1>5, <1>6, <1>8, <1>9, <1>10, <2>3, <3>1
      <3>2. CASE q # p
        BY <1>5, <1>8, <1>9, <2>3, <3>2 DEF IInv, ReplyInv, NoLostCommit
      <3>3. QED BY <3>1, <3>2
    <2>4. QED BY <2>1, <2>2, <2>3 DEF ReplyInv, NoLostCommit
  <1>16. QED BY <1>11, <1>12, <1>13, <1>14, <1>15 DEF IInv

\* decision.json gets the status that was committed, or is not written.
LEMMA WriteDecisionIInv ==
  ASSUME NEW p \in Proc, IInv, WriteDecision(p)
  PROVE  IInv'
  <1>1. /\ pc[p] = "deciding_file"
        /\ pc' = [pc EXCEPT ![p] = "done"]
        /\ decision' \in {decision, [decision EXCEPT ![DirOf(p)] = reply[p].status]}
        /\ UNCHANGED <<doc, writer, readers, dirs, evaluation, req, snap, reply>>
    BY DEF WriteDecision, Goto
  <1>2. /\ DirOf(p) \in Dir
        /\ \A q \in Proc : DirOf(q)' = DirOf(q)
        /\ dirs[DirOf(p)] = p /\ p # None
    BY <1>1, DirOfType, ProcAssumption DEF IInv, RequestInv, DirInv, DirOf, Opened
  <1>3. /\ reply[p] # None
        /\ \A a \in AttemptsOf(doc) : HomeOf(a) = DirOf(p) => a.status = reply[p].status
    BY <1>1 DEF IInv, ReplyInv
  <1>4. reply[p].status \in Status
    BY <1>3 DEF IInv, TypeOK, Reply
  <1>5. TypeOK'
    BY <1>1, <1>4 DEF IInv, TypeOK, Ended
  <1>6. \A q \in Proc : pc'[q] \in Opened => q # p /\ pc'[q] = pc[q] /\ DirOf(q) # DirOf(p)
    BY <1>1, OwnDirectory DEF IInv, TypeOK, Opened, Unrecorded
  <1>7. \A x \in Dir : x # DirOf(p) => decision'[x] = decision[x]
    BY <1>1 DEF IInv, TypeOK
  <1>8. decision'[DirOf(p)] \in {decision[DirOf(p)], reply[p].status}
    BY <1>1, <1>2 DEF IInv, TypeOK
  <1>9. RequestInv' /\ LockInv' /\ DocInv'
    BY <1>1 DEF IInv, TypeOK, RequestInv, LockInv, DocInv, DirOf, Holding, Opened, Unrecorded
  <1>10. \A a \in AttemptsOf(doc) : HomeOf(a) \in Dir
    BY AttemptType, EvaluationType DEF AttemptsOf, HomeOf, Dir, IInv, TypeOK
  <1>11. \A q \in Proc : pc'[q] \in Opened => DirOf(q) \in Dir
    BY <1>6, DirOfType DEF IInv, RequestInv
  <1>12. DirInv'
    <2>1. \A q \in Proc : pc'[q] \in Opened => dirs'[DirOf(q)'] = q
      BY <1>1, <1>2, <1>6 DEF IInv, DirInv
    <2>2. \A q \in Proc : pc'[q] \in Filed =>
            evaluation'[DirOf(q)'] \in Evaluation /\ evaluation'[DirOf(q)'].id = req'[q].id
      BY <1>1, <1>2, <1>6 DEF IInv, DirInv, Filed
    <2>3. \A q \in Proc : pc'[q] \in Unrecorded =>
            /\ decision'[DirOf(q)'] = None
            /\ \A a \in AttemptsOf(doc') : HomeOf(a) # DirOf(q)'
      BY <1>1, <1>2, <1>6, <1>7, <1>11 DEF IInv, DirInv, Opened
    <2>4. \A x \in Dir : dirs'[x] = None => decision'[x] = None
      BY <1>1, <1>2, <1>7 DEF IInv, DirInv
    <2>5. \A a \in AttemptsOf(doc') :
            /\ dirs'[HomeOf(a)] # None
            /\ evaluation'[HomeOf(a)] = a.eval
            /\ decision'[HomeOf(a)] \in {None, a.status}
      BY <1>1, <1>3, <1>7, <1>8, <1>10 DEF IInv, DirInv
    <2>6. QED BY <2>1, <2>2, <2>3, <2>4, <2>5 DEF DirInv
  <1>13. ReplyInv'
    BY <1>1 DEF IInv, TypeOK, ReplyInv, NoLostCommit, DirOf, Unrecorded
  <1>14. QED BY <1>5, <1>9, <1>12, <1>13 DEF IInv

\* A crash frees the locks and loses only what was in memory.
LEMMA CrashIInv ==
  ASSUME NEW p \in Proc, IInv, Crash(p)
  PROVE  IInv'
  <1>1. /\ pc' = [pc EXCEPT ![p] = "crashed"]
        /\ snap' = [snap EXCEPT ![p] = NoDocument]
        /\ writer' = IF writer = p THEN None ELSE writer
        /\ readers' = readers \ {p}
        /\ UNCHANGED <<doc, files, req, reply>>
    BY DEF Crash
  <1>2. TypeOK'
    BY <1>1, NoDocumentType DEF IInv, TypeOK, files, Ended
  <1>3. RequestInv' /\ LockInv' /\ DocInv'
    BY <1>1
       DEF IInv, TypeOK, RequestInv, LockInv, DocInv, DirOf, Holding, Opened, Unrecorded, files
  <1>4. DirInv'
    BY <1>1 DEF IInv, TypeOK, DirInv, DirOf, Opened, Filed, Unrecorded, files
  <1>5. ReplyInv'
    BY <1>1 DEF IInv, TypeOK, ReplyInv, NoLostCommit, DirOf, Unrecorded, files
  <1>6. QED BY <1>2, <1>3, <1>4, <1>5 DEF IInv

\* Every step of every process keeps the invariant.
LEMMA NextIInv == IInv /\ [Next]_vars => IInv'
  <1> SUFFICES ASSUME IInv, [Next]_vars PROVE IInv'
    OBVIOUS
  <1>1. ASSUME NEW p \in Proc, Step(p) PROVE IInv'
    BY <1>1, LockSharedIInv, LockExclusiveIInv, RunBaselineIInv, InitializeIInv,
       LoadContextIInv, OpenAttemptIInv, EvaluateIInv, AbortEvaluationIInv,
       ReadDocumentIInv, RecordIInv, WriteDecisionIInv DEF Step
  <1>2. ASSUME NEW p \in Proc, BeginInit(p) \/ BeginEvaluate(p) \/ Crash(p) PROVE IInv'
    BY <1>2, BeginInitIInv, BeginEvaluateIInv, CrashIInv
  <1>3. CASE Terminated \/ UNCHANGED vars
    BY <1>3, StutterIInv DEF Terminated
  <1>4. QED BY <1>1, <1>2, <1>3 DEF Next

\* The inductive invariant of the concurrent controllers: the document is
\* sound (DocInv and its parts), the locks exclude, and every directory
\* belongs to the process that made it.
THEOREM Invariance == Spec => []IInv
  BY InitIInv, NextIInv, PTL DEF Spec

---------------------------------------------------------------------------
(* The theorems.                                                           *)

\* Every variable has its type, for any number of processes.
THEOREM TypeCorrect == Spec => []TypeOK
  <1>1. IInv => TypeOK
    BY DEF IInv
  <1>2. QED BY <1>1, Invariance, PTL

\* The committed document always passes its own replay (lineage.py
\* _verify_controller_attempts): no interleaving of commands and no crash
\* leaves a state.json that later commands refuse.
THEOREM VerifiableAlways == Spec => []AlwaysVerifiable
  <1>1. IInv => AlwaysVerifiable
    BY DEF IInv, DocInv, DirInv, AlwaysVerifiable, Verified, FilesReplay, Sound
  <1>2. QED BY <1>1, Invariance, PTL

\* A proposal or an artifact is judged once, whoever evaluates it and when
\* (lineage.py _record_locked).
THEOREM JudgedOnceAlways == Spec => []JudgedOnce
  <1>1. IInv => JudgedOnce
    BY DEF IInv, DocInv, JudgedOnce, JudgedOnceIn, Sound
  <1>2. QED BY <1>1, Invariance, PTL

\* No commit that a process was told of is ever lost.
THEOREM NoLostCommitAlways == Spec => []NoLostCommit
  <1>1. IInv => NoLostCommit
    BY DEF IInv, ReplyInv
  <1>2. QED BY <1>1, Invariance, PTL

\* An id names one attempt.
THEOREM OneAttemptPerIdAlways == Spec => []OneAttemptPerId
  <1>1. IInv => OneAttemptPerId
    BY DEF IInv, DocInv, OneAttemptPerId, OneAttemptPerIdIn, Sound
  <1>2. QED BY <1>1, Invariance, PTL

---------------------------------------------------------------------------
(* Parents and locks.                                                      *)

\* The replay accepts no document, whoever wrote it, in which the parents of
\* a node do not lead to the original: of the nodes in a set, the one that was
\* recorded first has its parent outside it.
THEOREM ReplayedIsRooted ==
  ASSUME NEW d, IsDocument(d), DocumentReplays(d)
  PROVE  RootedIn(d)
  <1> SUFFICES ASSUME NEW S \in SUBSET (DOMAIN d.nodes \ {OriginalId}), S # {}
               PROVE  \E n \in S : d.nodes[n].parent \in DOMAIN d.nodes \ S
    BY DEF RootedIn
  <1> DEFINE L == Len(d.attempts)
             Here == {i \in AcceptedBefore(d, L + 1) : d.attempts[i].eval.id \in S}
  <1>1. L \in Nat /\ DOMAIN d.attempts = 1..L
    BY DEF IsDocument
  <1>2. DOMAIN d.nodes = {OriginalId} \cup {d.attempts[j].eval.id : j \in AcceptedBefore(d, L + 1)}
    BY DEF DocumentReplays, ReplayedNodes, NodesBefore
  <1>3. Here \in SUBSET Nat /\ Here # {}
    BY <1>1, <1>2 DEF AcceptedBefore
  <1>4. PICK i \in Here : \A j \in Here : i <= j
    <2> HIDE DEF Here
    <2> QED
      BY <1>3, LeastNumber
  <1> DEFINE a == d.attempts[i]
  <1>5. i \in DOMAIN d.attempts /\ a.status = "accepted" /\ a.eval.id \in S
    BY DEF AcceptedBefore
  <1>6. a.eval.parent \in NodesBefore(d, i) /\ d.nodes[a.eval.id] = NodeOf(a.eval)
    BY <1>5 DEF DocumentReplays, AttemptReplays
  <1>7. d.nodes[a.eval.id].parent = a.eval.parent
    BY <1>6 DEF NodeOf
  <1>8. \A j \in AcceptedBefore(d, i) : j \in AcceptedBefore(d, L + 1) /\ d.attempts[j].eval.id \notin S
    <2> SUFFICES ASSUME NEW j \in AcceptedBefore(d, i)
                 PROVE  j \in AcceptedBefore(d, L + 1) /\ d.attempts[j].eval.id \notin S
      OBVIOUS
    <2>1. j \in DOMAIN d.attempts /\ j < i /\ d.attempts[j].status = "accepted"
      BY DEF AcceptedBefore
    <2>2. j \in Nat /\ i \in Nat /\ j < L + 1 /\ ~(i <= j)
      BY <1>1, <1>5, <2>1
    <2>3. j \in AcceptedBefore(d, L + 1)
      BY <2>1, <2>2 DEF AcceptedBefore
    <2>4. j \notin Here
      BY <1>4, <2>2
    <2> QED
      BY <2>3, <2>4
  <1>9. \A n \in NodesBefore(d, i) : n \in DOMAIN d.nodes /\ n \notin S
    BY <1>2, <1>8 DEF NodesBefore
  <1>10. d.nodes[a.eval.id].parent \in DOMAIN d.nodes \ S
    BY <1>6, <1>7, <1>9
  <1> QED
    BY <1>5, <1>10

\* The replay leaves nothing to choose: of two documents with the same
\* attempts that it accepts, the candidates' nodes and the best node are the
\* same (lineage.py _verify_controller_attempts, expected_nodes and
\* expected_best).
THEOREM ReplayDetermines ==
  ASSUME NEW d1, IsDocument(d1), DocumentReplays(d1),
         NEW d2, IsDocument(d2), DocumentReplays(d2),
         d1.attempts = d2.attempts
  PROVE  /\ d1.best = d2.best
         /\ DOMAIN d1.nodes = DOMAIN d2.nodes
         /\ \A n \in DOMAIN d1.nodes \ {OriginalId} : d1.nodes[n] = d2.nodes[n]
  <1> DEFINE L == Len(d1.attempts)
             A == AcceptedBefore(d1, L + 1)
             speed(i) == d1.attempts[i].eval.speed
             Leads(i) == /\ speed(i) > OriginalSpeed
                         /\ \A j \in A : IF j < i THEN speed(j) < speed(i)
                                                  ELSE speed(j) <= speed(i)
  <1>1. /\ A = AcceptedBefore(d2, Len(d2.attempts) + 1)
        /\ NodesBefore(d1, L + 1) = NodesBefore(d2, Len(d2.attempts) + 1)
    BY DEF AcceptedBefore, NodesBefore
  <1>2. DOMAIN d1.nodes = DOMAIN d2.nodes
    BY <1>1 DEF DocumentReplays, ReplayedNodes
  <1>3. \A i \in A : i \in DOMAIN d1.attempts /\ d1.attempts[i].status = "accepted"
    BY DEF AcceptedBefore
  <1>4. ASSUME NEW n \in DOMAIN d1.nodes \ {OriginalId} PROVE d1.nodes[n] = d2.nodes[n]
    <2>1. PICK i \in A : n = d1.attempts[i].eval.id
      BY DEF DocumentReplays, ReplayedNodes, NodesBefore
    <2>2. i \in DOMAIN d1.attempts /\ d1.attempts[i].status = "accepted"
      BY <1>3
    <2>3. d1.nodes[n] = NodeOf(d1.attempts[i].eval)
      BY <2>1, <2>2 DEF DocumentReplays, AttemptReplays
    <2>4. d2.nodes[n] = NodeOf(d1.attempts[i].eval)
      BY <2>1, <2>2 DEF DocumentReplays, AttemptReplays
    <2> QED
      BY <2>3, <2>4
  <1>5. \A i \in A : i \in Nat /\ speed(i) \in Nat
    <2>1. DOMAIN d1.attempts = 1..L /\ L \in Nat
      BY DEF IsDocument
    <2> QED
      BY <1>3, <2>1, AttemptType, EvaluationType
  <1>6. \/ d1.best = OriginalId /\ \A i \in A : speed(i) <= OriginalSpeed
        \/ \E i \in A : d1.best = d1.attempts[i].eval.id /\ Leads(i)
    BY DEF DocumentReplays, ReplayedBest
  <1>7. \/ d2.best = OriginalId /\ \A i \in A : speed(i) <= OriginalSpeed
        \/ \E i \in A : d2.best = d1.attempts[i].eval.id /\ Leads(i)
    BY <1>1 DEF DocumentReplays, ReplayedBest
  <1> HIDE DEF A, speed, L
  <1>8. ASSUME NEW i \in A, Leads(i), \A j \in A : speed(j) <= OriginalSpeed PROVE FALSE
    BY <1>5, <1>8, SpeedAssumption
  <1>9. ASSUME NEW i \in A, Leads(i), NEW k \in A, Leads(k) PROVE i = k
    <2>1. ASSUME i < k PROVE FALSE
      BY <1>5, <1>9, <2>1
    <2>2. ASSUME k < i PROVE FALSE
      BY <1>5, <1>9, <2>2
    <2> QED
      BY <1>5, <2>1, <2>2
  <1>10. d1.best = d2.best
    <2> HIDE DEF Leads
    <2> QED
      BY <1>6, <1>7, <1>8, <1>9
  <1> QED
    BY <1>2, <1>4, <1>10

\* Every step leaves the lock to processes in their critical sections.
LEMMA LockStep ==
  ASSUME IInv, LockIsInUse, [Next]_vars
  PROVE  LockIsInUse'
  <1>1. /\ pc \in [Proc -> {"idle", "baselining", "baselined", "initializing", "starting",
                            "loading", "loaded", "evaluating", "evaluated", "recording",
                            "deciding", "deciding_file"} \cup Ended]
        /\ writer \in Proc \cup {None} /\ readers \subseteq Proc
    BY DEF IInv, TypeOK
  <1>2. \A p \in Proc : pc[p] \in Holding => writer = p
    BY DEF IInv, LockInv
  <1>3. ASSUME NEW p \in Proc, LockShared(p) PROVE LockIsInUse'
    BY <1>1, <1>3 DEF LockShared, SharedFree, Goto, LockIsInUse
  <1>4. ASSUME NEW p \in Proc, LockExclusive(p) PROVE LockIsInUse'
    BY <1>1, <1>4 DEF LockExclusive, ExclusiveFree, Goto, LockIsInUse
  <1>5. ASSUME NEW p \in Proc, Initialize(p) PROVE LockIsInUse'
    BY <1>1, <1>5 DEF Initialize, Outcome, Goto, LockIsInUse
  <1>6. ASSUME NEW p \in Proc, LoadContext(p) PROVE LockIsInUse'
    BY <1>1, <1>6 DEF LoadContext, ReadersAfterLoad, Outcome, Goto, LockIsInUse
  <1>7. ASSUME NEW p \in Proc, ReadDocument(p) PROVE LockIsInUse'
    BY <1>1, <1>2, <1>7 DEF ReadDocument, Outcome, Goto, LockIsInUse
  <1>8. ASSUME NEW p \in Proc, Record(p) PROVE LockIsInUse'
    BY <1>1, <1>8 DEF Record, Goto, LockIsInUse
  <1>9. ASSUME NEW p \in Proc, Crash(p) PROVE LockIsInUse'
    BY <1>1, <1>9 DEF Crash, LockIsInUse
  <1>10. ASSUME NEW p \in Proc,
                \/ BeginInit(p) \/ RunBaseline(p) \/ BeginEvaluate(p) \/ OpenAttempt(p)
                \/ Evaluate(p) \/ AbortEvaluation(p) \/ WriteDecision(p)
         PROVE  LockIsInUse'
    <2>1. /\ pc[p] \in {"idle", "baselining", "loaded", "evaluating", "deciding_file"}
          /\ \E s : pc' = [pc EXCEPT ![p] = s]
          /\ UNCHANGED <<writer, readers>>
      BY <1>10 DEF BeginInit, RunBaseline, BeginEvaluate, OpenAttempt, Evaluate,
                   AbortEvaluation, WriteDecision, Outcome, Goto
    <2> QED
      BY <1>1, <2>1 DEF LockIsInUse
  <1>11. CASE Terminated \/ UNCHANGED vars
    BY <1>11 DEF Terminated, vars, LockIsInUse
  <1> QED
    BY <1>3, <1>4, <1>5, <1>6, <1>7, <1>8, <1>9, <1>10, <1>11 DEF Next, Step

\* The parents of a node lead to the original, however stale the snapshots
\* were that they were chosen from (lineage.py _record_locked and
\* _verify_controller_attempts).
THEOREM RootedAlways == Spec => []RootedInOriginal
  <1>1. IInv => RootedInOriginal
    BY ReplayedIsRooted DEF IInv, TypeOK, DocInv, Sound, RootedInOriginal
  <1>2. QED BY <1>1, Invariance, PTL

\* Whoever waits for the flock waits for a process in its critical section,
\* whatever fails and whoever dies (lineage.py _state_lock).
THEOREM LockIsInUseAlways == Spec => []LockIsInUse
  <1>1. Init => LockIsInUse
    BY DEF Init, LockIsInUse
  <1>2. IInv /\ LockIsInUse /\ [Next]_vars => LockIsInUse'
    BY LockStep
  <1>3. QED BY <1>1, <1>2, Invariance, PTL DEF Spec

---------------------------------------------------------------------------
(* What one step does to the document.                                     *)

Commits(d, d2) ==
  \E e \in Evaluation, r \in RunDir :
    ~IdTaken(d, e.id) /\ e.parent \in DOMAIN d.nodes /\ d2 = Recorded(d, e, r)

\* A step leaves the document alone, creates it, or commits one attempt to
\* the sound document that is on disk at that step: under the exclusive lock
\* the copy in memory is not stale.
LEMMA DocumentStep ==
  ASSUME IInv, [Next]_vars
  PROVE  \/ doc' = doc
         \/ ~Exists(doc) /\ doc' = BaselineDocument
         \/ IsDocument(doc) /\ Sound(doc) /\ Commits(doc, doc')
  <1>1. ASSUME NEW p \in Proc, Record(p)
        PROVE  \/ doc' = doc
               \/ IsDocument(doc) /\ Sound(doc) /\ Commits(doc, doc')
    <2> DEFINE e == evaluation[DirOf(p)]
    <2>1. /\ pc[p] = "deciding"
          /\ \/ doc' = doc
             \/ ~IdTaken(snap[p], e.id) /\ doc' = Recorded(snap[p], e, req[p].run)
      BY <1>1 DEF Record, Goto
    <2>2. snap[p] = doc /\ Exists(doc) /\ e.parent \in DOMAIN doc.nodes
      BY <2>1 DEF IInv, LockInv
    <2>3. e \in Evaluation /\ req[p].run \in RunDir
      BY <2>1 DEF IInv, DirInv, RequestInv, Request, Filed, Opened, Unrecorded
    <2>4. IsDocument(doc) /\ Sound(doc)
      BY <2>2 DEF IInv, TypeOK, DocInv
    <2> HIDE DEF e
    <2>5. QED BY <2>1, <2>2, <2>3, <2>4 DEF Commits
  <1>2. ASSUME NEW p \in Proc, Initialize(p)
        PROVE  doc' = doc \/ (~Exists(doc) /\ doc' = BaselineDocument)
    BY <1>2 DEF Initialize, MayInitialize
  <1>3. ASSUME NEW p \in Proc,
               \/ BeginInit(p) \/ BeginEvaluate(p) \/ Crash(p)
               \/ LockShared(p) \/ LockExclusive(p) \/ RunBaseline(p) \/ LoadContext(p)
               \/ OpenAttempt(p) \/ Evaluate(p) \/ AbortEvaluation(p)
               \/ ReadDocument(p) \/ WriteDecision(p)
        PROVE  doc' = doc
    BY <1>3 DEF BeginInit, BeginEvaluate, Crash, LockShared, LockExclusive, RunBaseline,
                LoadContext, OpenAttempt, Evaluate, AbortEvaluation, ReadDocument, WriteDecision
  <1>4. CASE Terminated \/ UNCHANGED vars
    BY <1>4 DEF Terminated, vars
  <1>5. QED BY <1>1, <1>2, <1>3, <1>4 DEF Next, Step

\* The best node of a sound document is one of its nodes.
LEMMA BestIsANode ==
  ASSUME NEW d, IsDocument(d), Sound(d)
  PROVE  d.best \in DOMAIN d.nodes
  <1>1. ReplayedBest(d, d.best)
    BY DEF Sound, DocumentReplays
  <1>2. CASE d.best = OriginalId
    BY <1>2 DEF Sound
  <1>3. ASSUME NEW i \in AcceptedBefore(d, Len(d.attempts) + 1),
               d.best = d.attempts[i].eval.id
        PROVE  d.best \in DOMAIN d.nodes
    <2>1. i \in DOMAIN d.attempts /\ d.attempts[i].status = "accepted"
      BY DEF AcceptedBefore
    <2>2. QED BY <1>3, <2>1 DEF Sound, DocumentReplays, AttemptReplays
  <1>4. QED BY <1>1, <1>2, <1>3 DEF ReplayedBest

\* No step of any process rewrites the history (lineage.py _record_locked
\* only appends, and initialize only creates).
THEOREM HistoryOnlyGrowsAlways == Spec => HistoryOnlyGrows
  <1> DEFINE A(d, d2) ==
               /\ \A i \in DOMAIN d.attempts :
                    i \in DOMAIN d2.attempts /\ d2.attempts[i] = d.attempts[i]
               /\ \A m \in DOMAIN d.nodes :
                    m \in DOMAIN d2.nodes /\ d2.nodes[m] = d.nodes[m]
  <1>1. ASSUME NEW d, IsDocument(d), Sound(d), NEW d2, Commits(d, d2)
        PROVE  A(d, d2)
    <2>1. PICK e \in Evaluation, r \in RunDir :
            ~IdTaken(d, e.id) /\ e.parent \in DOMAIN d.nodes /\ d2 = Recorded(d, e, r)
      BY <1>1 DEF Commits
    <2>2. \A i \in DOMAIN d.attempts :
            i \in DOMAIN d2.attempts /\ d2.attempts[i] = d.attempts[i]
      <3>1. /\ Len(d.attempts) \in Nat
            /\ DOMAIN d.attempts = 1..Len(d.attempts)
            /\ DOMAIN d2.attempts = 1..(Len(d.attempts) + 1)
            /\ \A i \in 1..Len(d.attempts) : d2.attempts[i] = d.attempts[i]
        BY <1>1, <2>1, AppendedAttempts
      <3>2. QED BY <3>1
    <2>3. \A m \in DOMAIN d.nodes : m \in DOMAIN d2.nodes /\ d2.nodes[m] = d.nodes[m]
      BY <1>1, <2>1, RecordedSound
    <2>4. QED BY <2>2, <2>3
  <1>2. IInv /\ [Next]_vars => [Exists(doc) => A(doc, doc')]_vars
    BY <1>1, DocumentStep
  <1>3. [Exists(doc) => A(doc, doc')]_vars =>
          [Exists(doc) =>
             /\ \A i \in DOMAIN doc.attempts :
                  i \in DOMAIN doc'.attempts /\ doc'.attempts[i] = doc.attempts[i]
             /\ \A n \in DOMAIN doc.nodes :
                  n \in DOMAIN doc'.nodes /\ doc'.nodes[n] = doc.nodes[n]]_vars
    OBVIOUS
  <1>4. QED BY <1>2, <1>3, Invariance, PTL DEF Spec, HistoryOnlyGrows

---------------------------------------------------------------------------
(* What was admitted against a snapshot.                                   *)

\* From the choice of the parent to the commit it is a node of the document,
\* and it is the one that evaluation.json names.
ParentInv ==
  \A p \in Proc :
    /\ pc[p] \in {"loaded"} \cup Unrecorded =>
         Exists(doc) /\ req[p].parent \in DOMAIN doc.nodes
    /\ pc[p] \in {"evaluated", "recording", "deciding"} =>
         evaluation[DirOf(p)].parent = req[p].parent

\* No step removes a node.
LEMMA NodesStay ==
  ASSUME IInv, [Next]_vars, Exists(doc)
  PROVE  Exists(doc') /\ DOMAIN doc.nodes \subseteq DOMAIN doc'.nodes
  <1>1. CASE doc' = doc
    BY <1>1
  <1>2. CASE IsDocument(doc) /\ Sound(doc) /\ Commits(doc, doc')
    <2>1. PICK e \in Evaluation, r \in RunDir :
            ~IdTaken(doc, e.id) /\ e.parent \in DOMAIN doc.nodes /\ doc' = Recorded(doc, e, r)
      BY <1>2 DEF Commits
    <2>2. Sound(doc') /\ \A m \in DOMAIN doc.nodes : m \in DOMAIN doc'.nodes
      BY <1>2, <2>1, RecordedSound
    <2>3. QED BY <2>2 DEF Sound
  <1>3. QED BY <1>1, <1>2, DocumentStep

\* A process in one of these places was there, or came there by its own step.
LEMMA ParentStep ==
  ASSUME IInv, ParentInv, [Next]_vars
  PROVE  ParentInv'
  <1>1. pc \in [Proc -> {"idle", "baselining", "baselined", "initializing", "starting",
                         "loading", "loaded", "evaluating", "evaluated", "recording",
                         "deciding", "deciding_file"} \cup Ended]
    BY DEF IInv, TypeOK
  <1> DEFINE Chosen == {"loaded"} \cup Unrecorded
             Written == {"evaluated", "recording", "deciding"}
             Known(q) == Exists(doc) /\ req[q].parent \in DOMAIN doc.nodes
  <1>2. \A q \in Proc : pc[q] \in Chosen => Known(q)
    BY DEF ParentInv
  <1>3. \A q \in Proc : pc[q] \in Written => evaluation[DirOf(q)].parent = req[q].parent
    BY DEF ParentInv
  <1>4. \A q \in Proc : Known(q) /\ req'[q] = req[q] => Known(q)'
    BY NodesStay
  \* Nobody comes to such a place, and nothing is chosen or written.
  <1>5. ASSUME \A q \in Proc : pc'[q] \in Chosen => pc[q] \in Chosen /\ req'[q] = req[q],
               \A q \in Proc : pc'[q] \in Written => pc[q] \in Written,
               UNCHANGED evaluation
        PROVE  ParentInv'
    <2>1. Written \subseteq Chosen
      BY DEF Unrecorded
    <2>2. \A q \in Proc : pc'[q] \in Chosen => Known(q)'
      BY <1>2, <1>4, <1>5
    <2>3. \A q \in Proc : pc'[q] \in Written => evaluation'[DirOf(q)'].parent = req'[q].parent
      BY <1>3, <1>5, <2>1 DEF DirOf
    <2> HIDE DEF Chosen, Written
    <2>4. QED BY <2>2, <2>3 DEF ParentInv, Chosen, Written
  <1>6. ASSUME NEW p \in Proc, LoadContext(p) PROVE ParentInv'
    <2>1. /\ pc[p] = "loading"
          /\ UNCHANGED <<doc, evaluation>>
          /\ \A q \in Proc : q # p => pc'[q] = pc[q] /\ req'[q] = req[q]
      BY <1>1, <1>6 DEF LoadContext, Outcome, Goto, files, IInv, TypeOK
    <2>2. CASE pc'[p] = "loaded"
      <3>1. /\ Exists(doc) /\ Parent(p, doc) \in DOMAIN doc.nodes
            /\ req' = [req EXCEPT ![p].parent = Parent(p, doc)]
        BY <1>1, <1>6, <2>2 DEF LoadContext, Outcome, Goto, Verified
      <3>2. req[p] \in Request
        BY <2>1 DEF IInv, RequestInv
      <3>3. req'[p].parent = Parent(p, doc)
        BY <3>1, <3>2 DEF IInv, TypeOK, Request
      <3>4. Known(p)'
        BY <2>1, <3>1, <3>3
      <3>5. \A q \in Proc : pc'[q] \in Chosen => Known(q)'
        BY <1>2, <1>4, <2>1, <3>4
      <3>6. \A q \in Proc : pc'[q] \in Written => evaluation'[DirOf(q)'].parent = req'[q].parent
        BY <1>3, <2>1, <2>2 DEF DirOf
      <3> HIDE DEF Chosen, Written
      <3>7. QED BY <3>5, <3>6 DEF ParentInv, Chosen, Written
    <2>3. CASE pc'[p] # "loaded"
      <3>1. pc'[p] = "failed"
        BY <1>1, <1>6, <2>3 DEF LoadContext, Outcome, Goto
      <3>2. QED BY <1>5, <2>1, <3>1 DEF Unrecorded
    <2>4. QED BY <2>2, <2>3
  <1>7. ASSUME NEW p \in Proc, Evaluate(p) PROVE ParentInv'
    <2>1. PICK v \in Verdict :
            evaluation' = [evaluation EXCEPT ![DirOf(p)] = EvaluationOf(p, v)]
      BY <1>7 DEF Evaluate
    <2>2. /\ pc[p] = "evaluating" /\ pc' = [pc EXCEPT ![p] = "evaluated"]
          /\ UNCHANGED <<doc, req>>
      BY <1>7 DEF Evaluate, Goto
    <2>3. \A q \in Proc : pc[q] \in Opened => DirOf(q) \in Dir
      BY DirOfType DEF IInv, RequestInv, Opened, Unrecorded
    <2>4. evaluation'[DirOf(p)].parent = req[p].parent
      BY <2>1, <2>2, <2>3 DEF EvaluationOf, IInv, TypeOK, Opened, Unrecorded
    <2>5. ASSUME NEW q \in Proc, q # p, pc[q] \in Written
          PROVE  evaluation'[DirOf(q)].parent = req[q].parent
      <3>1. pc[q] \in Opened /\ pc[p] \in Opened
        BY <2>2, <2>5 DEF Opened, Unrecorded
      <3>2. DirOf(q) # DirOf(p)
        BY <2>5, <3>1, OwnDirectory
      <3>3. evaluation'[DirOf(q)] = evaluation[DirOf(q)]
        BY <2>1, <2>3, <3>1, <3>2 DEF IInv, TypeOK
      <3>4. QED BY <1>3, <2>5, <3>3
    <2>6. \A q \in Proc : pc'[q] \in Chosen => Known(q)'
      BY <1>1, <1>2, <1>4, <2>2 DEF Unrecorded
    <2>7. \A q \in Proc : pc'[q] \in Written => evaluation'[DirOf(q)'].parent = req'[q].parent
      BY <1>1, <2>2, <2>4, <2>5 DEF DirOf
    <2> HIDE DEF Chosen, Written
    <2>8. QED BY <2>6, <2>7 DEF ParentInv, Chosen, Written
  <1>8. ASSUME NEW p \in Proc,
               \/ BeginInit(p) \/ BeginEvaluate(p) \/ Crash(p) \/ LockShared(p)
               \/ RunBaseline(p) \/ Initialize(p) \/ WriteDecision(p)
               \/ AbortEvaluation(p) \/ Record(p)
        PROVE  ParentInv'
    <2>1. /\ \A q \in Proc : q # p => pc'[q] = pc[q] /\ req'[q] = req[q]
          /\ pc'[p] \notin Chosen
          /\ UNCHANGED evaluation
      BY <1>1, <1>8 DEF BeginInit, BeginEvaluate, Crash, LockShared, RunBaseline, Initialize,
                        WriteDecision, AbortEvaluation, Record, Outcome, Goto, files,
                        Unrecorded, IInv, TypeOK
    <2>2. QED BY <1>5, <2>1 DEF Unrecorded
  <1>9. ASSUME NEW p \in Proc, LockExclusive(p) \/ OpenAttempt(p) \/ ReadDocument(p)
        PROVE  ParentInv'
    <2>1. /\ UNCHANGED <<req, evaluation>>
          /\ \A q \in Proc : q # p => pc'[q] = pc[q]
          /\ \/ pc[p] = "evaluated" /\ pc'[p] = "recording"
             \/ pc[p] = "baselined" /\ pc'[p] = "initializing"
             \/ pc[p] = "loaded" /\ pc'[p] \in {"evaluating", "failed"}
             \/ pc[p] = "recording" /\ pc'[p] \in {"deciding", "failed", "refused"}
      BY <1>1, <1>9 DEF LockExclusive, OpenAttempt, ReadDocument, Outcome, Goto, files
    <2>2. QED BY <1>5, <2>1 DEF Unrecorded
  <1>10. CASE Terminated \/ UNCHANGED vars
    BY <1>5, <1>10 DEF Terminated, vars, files
  <1>11. QED BY <1>6, <1>7, <1>8, <1>9, <1>10 DEF Next, Step

\* The parent of an evaluation that is under way is a node for good
\* (controller.py _load_candidate_context; lineage.py _record_locked).
THEOREM ParentInvariance == Spec => []ParentInv
  <1>1. Init => ParentInv
    BY DEF Init, ParentInv, Unrecorded
  <1>2. IInv /\ ParentInv /\ [Next]_vars => ParentInv'
    BY ParentStep
  <1>3. QED BY <1>1, <1>2, Invariance, PTL DEF Spec

\* A process whose evaluation.json is written is turned down for nothing that
\* others did (lineage.py _record_locked; controller.py _record_candidate).
LEMMA RecordPasses ==
  ASSUME IInv, ParentInv, [Next]_vars, NEW p \in Proc,
         pc[p] \in {"evaluated", "recording", "deciding"}
  PROVE  pc'[p] # "failed"
  <1>1. /\ pc \in [Proc -> {"idle", "baselining", "baselined", "initializing", "starting",
                            "loading", "loaded", "evaluating", "evaluated", "recording",
                            "deciding", "deciding_file"} \cup Ended]
    BY DEF IInv, TypeOK
  <1>2. /\ Exists(doc) /\ req[p].parent \in DOMAIN doc.nodes
        /\ evaluation[DirOf(p)].parent = req[p].parent
    BY DEF ParentInv, Unrecorded
  <1>3. Verified(doc) /\ ParentKnown(doc, evaluation[DirOf(p)])
    BY <1>2 DEF IInv, DocInv, Sound, DirInv, Verified, FilesReplay, ParentKnown
  <1>4. CASE UNCHANGED vars
    BY <1>4 DEF vars
  <1>5. CASE Terminated
    BY <1>5 DEF Terminated, vars
  <1>6. ASSUME NEW q \in Proc, BeginInit(q) \/ BeginEvaluate(q) \/ Step(q) \/ Crash(q), q # p
        PROVE  pc'[p] = pc[p]
    BY <1>1, <1>6 DEF Step, BeginInit, BeginEvaluate, Crash, LockShared, LockExclusive,
         RunBaseline, Initialize, LoadContext, OpenAttempt, Evaluate, AbortEvaluation,
         ReadDocument, Record, WriteDecision, Outcome, Goto
  <1>7. CASE ReadDocument(p)
    BY <1>1, <1>3, <1>7 DEF ReadDocument, Outcome, Goto
  <1>8. CASE LockExclusive(p) \/ Record(p) \/ Crash(p)
    BY <1>1, <1>8 DEF LockExclusive, Record, Crash, Goto
  <1>9. CASE \/ BeginInit(p) \/ BeginEvaluate(p) \/ LockShared(p) \/ RunBaseline(p)
             \/ Initialize(p) \/ LoadContext(p) \/ OpenAttempt(p) \/ Evaluate(p)
             \/ AbortEvaluation(p) \/ WriteDecision(p)
    BY <1>9 DEF BeginInit, BeginEvaluate, LockShared, RunBaseline, Initialize, LoadContext,
                OpenAttempt, Evaluate, AbortEvaluation, WriteDecision, Outcome, Goto
  <1>10. QED BY <1>4, <1>5, <1>6, <1>7, <1>8, <1>9 DEF Next, Step

\* Hours of phases are not turned down for what others committed meanwhile
\* (lineage.py _record_locked; controller.py _record_candidate).
THEOREM OthersTurnNoneDownAlways == Spec => OthersTurnNoneDown
  <1> DEFINE Kept == \A p \in Proc :
               pc[p] \in {"evaluated", "recording", "deciding"} => pc'[p] # "failed"
  <1>1. IInv /\ ParentInv /\ [Next]_vars => [Kept]_vars
    BY RecordPasses
  <1>2. OthersTurnNoneDown <=> [][Kept]_vars
    BY DEF OthersTurnNoneDown
  <1> HIDE DEF Kept
  <1>3. QED BY <1>1, <1>2, Invariance, ParentInvariance, PTL DEF Spec

\* The best node gives way only to a strictly faster one (lineage.py
\* _record_locked, the update of best_candidate_id).
THEOREM BestOnlyImprovesAlways == Spec => BestOnlyImproves
  <1> DEFINE A(d, d2) == d2.best # d.best => d2.nodes[d2.best].speed > d.nodes[d.best].speed
  <1>1. ASSUME NEW d, IsDocument(d), Sound(d), NEW d2, Commits(d, d2)
        PROVE  A(d, d2)
    <2>1. PICK e \in Evaluation, r \in RunDir : d2 = Recorded(d, e, r)
      BY <1>1 DEF Commits
    <2>2. SUFFICES ASSUME d2.best # d.best
                   PROVE  d2.nodes[d2.best].speed > d.nodes[d.best].speed
      OBVIOUS
    <2>3. /\ d2.nodes = NodesAfter(d, e)
          /\ d2.best = e.id
          /\ e.speed > d.nodes[d.best].speed
      BY <2>1, <2>2 DEF Recorded, BestAfter
    <2>4. QED BY <2>3 DEF NodesAfter, NodeOf
  <1>2. IInv /\ [Next]_vars => [Exists(doc) => A(doc, doc')]_vars
    BY <1>1, DocumentStep
  <1>3. [Exists(doc) => A(doc, doc')]_vars =>
          [Exists(doc) /\ doc'.best # doc.best =>
             doc'.nodes[doc'.best].speed > doc.nodes[doc.best].speed]_vars
    OBVIOUS
  <1>4. QED BY <1>2, <1>3, Invariance, PTL DEF Spec, BestOnlyImproves

---------------------------------------------------------------------------
(* The refinement of LineageLog.                                           *)

\* Committing an attempt to a sound document appends it to the log.
LEMMA CommitAppends ==
  ASSUME IsDocument(doc), Sound(doc), Commits(doc, doc')
  PROVE  Log!LogNext
  <1>1. PICK e \in Evaluation, r \in RunDir :
          ~IdTaken(doc, e.id) /\ e.parent \in DOMAIN doc.nodes /\ doc' = Recorded(doc, e, r)
    BY DEF Commits
  <1> DEFINE n == Len(doc.attempts)
             s == EffectiveStatus(doc, e)
             a == [eval |-> e, run |-> r, status |-> s]
  <1>2. /\ n \in Nat
        /\ DOMAIN doc.attempts = 1..n
        /\ Len(doc'.attempts) = n + 1
        /\ doc'.attempts[n + 1] = a
    BY <1>1, AppendedAttempts
  <1>3. /\ doc'.attempts = Append(doc.attempts, a)
        /\ doc'.best = IF s = "accepted" THEN BestAfter(doc, e) ELSE doc.best
    BY <1>1 DEF Recorded
  <1>4. Log!Accepted = AcceptedBefore(doc, n + 1)
    BY <1>2 DEF Log!Accepted, AcceptedBefore
  <1>5. e.parent \in Log!VerifiedIds
    BY <1>1, <1>4 DEF Log!VerifiedIds, Sound, DocumentReplays, ReplayedNodes, NodesBefore
  <1>6. \A i \in DOMAIN doc.attempts : doc.attempts[i].eval.id # e.id
    BY <1>1 DEF IdTaken, AttemptsOf
  <1>7. s = Log!Judged(e)
    BY SeenInAttempts DEF EffectiveStatus, Log!Judged, Log!EvaluatedBefore
  <1>8. \A i \in Log!Accepted : doc.nodes[doc.attempts[i].eval.id].speed = doc.attempts[i].eval.speed
    <2> TAKE i \in Log!Accepted
    <2>1. i \in DOMAIN doc.attempts /\ doc.attempts[i].status = "accepted"
      BY DEF Log!Accepted
    <2>2. doc.nodes[doc.attempts[i].eval.id] = NodeOf(doc.attempts[i].eval)
      BY <2>1 DEF Sound, DocumentReplays, AttemptReplays
    <2>3. QED BY <2>2 DEF NodeOf
  <1>9. Log!FasterThanBest(e) <=> e.speed > doc.nodes[doc.best].speed
    <2>1. CASE doc.best = OriginalId
      BY <2>1 DEF Log!FasterThanBest, Sound, OriginalNode
    <2>2. CASE doc.best # OriginalId
      <3>1. PICK i \in Log!Accepted : doc.best = doc.attempts[i].eval.id
        BY <1>4, <2>2 DEF Sound, DocumentReplays, ReplayedBest
      <3>2. QED BY <1>8, <2>2, <3>1 DEF Log!FasterThanBest
    <2>3. QED BY <2>1, <2>2
  <1>10. doc.best # None
    BY DEF Sound, Exists
  <1>11. a.eval = e /\ a.status = s
    OBVIOUS
  <1> HIDE DEF n, s, a
  <1>12. Log!Append1(a)
    BY <1>3, <1>5, <1>6, <1>7, <1>9, <1>10, <1>11 DEF Log!Append1, BestAfter
  <1>13. QED BY <1>2, <1>12 DEF Log!LogNext, n

\* The concurrent controllers implement one atomic append-only log in which
\* every attempt is judged against all that the log holds when it is
\* appended.
THEOREM Refinement == Spec => ImplementsLog
  <1>1. Init => Log!LogInit
    BY DEF Init, NoDocument, BaselineDocument, Log!LogInit
  <1>2. IInv /\ [Next]_vars => [Log!LogNext]_<<doc.attempts, doc.best>>
    <2> SUFFICES ASSUME IInv, [Next]_vars
                 PROVE  [Log!LogNext]_<<doc.attempts, doc.best>>
      OBVIOUS
    <2>1. CASE doc' = doc
      BY <2>1
    <2>2. CASE ~Exists(doc) /\ doc' = BaselineDocument
      BY <2>2 DEF IInv, DocInv, Exists, BaselineDocument, Log!LogNext, Log!Create
    <2>3. CASE IsDocument(doc) /\ Sound(doc) /\ Commits(doc, doc')
      BY <2>3, CommitAppends
    <2>4. QED BY <2>1, <2>2, <2>3, DocumentStep
  <1>3. QED BY <1>1, <1>2, Invariance, PTL DEF Spec, ImplementsLog, Log!LogSpec
=============================================================================
