----------------------------- MODULE LineageLog -----------------------------
(***************************************************************************)
(* What the lineage promises, without processes, locks, snapshots, files   *)
(* or crashes: one log of attempts that is created once and only grows,    *)
(* where each attempt is judged, at the instant it is appended, against    *)
(* everything the log holds by then.  The verified nodes are not state:    *)
(* they are the accepted attempts and the original.  Module Lineage        *)
(* implements this with log = doc.attempts and best = doc.best.            *)
(***************************************************************************)
EXTENDS LineageDocument

VARIABLES
  log,   \* the attempts, in the order of their commits
  best   \* the best verified candidate; None before the baseline

Accepted == {i \in DOMAIN log : log[i].status = "accepted"}

VerifiedIds == {OriginalId} \cup {log[i].eval.id : i \in Accepted}

\* e is faster than the best node: than the original, or than the accepted
\* attempt whose id is the best one's.
FasterThanBest(e) ==
  IF best = OriginalId THEN e.speed > OriginalSpeed
  ELSE \E i \in Accepted : log[i].eval.id = best /\ e.speed > log[i].eval.speed

\* Evaluated before: the same proposal or the same artifact as the original
\* or as any earlier attempt.
EvaluatedBefore(e) ==
  \/ e.proposal = OriginalSha
  \/ e.artifact = OriginalSha
  \/ \E i \in DOMAIN log :
       \/ log[i].eval.proposal = e.proposal
       \/ e.artifact # None /\ log[i].eval.artifact = e.artifact

Judged(e) == IF EvaluatedBefore(e) THEN "duplicate" ELSE e.gate

LogInit == log = <<>> /\ best \in {None, OriginalId}

Create ==
  /\ best = None
  /\ best' = OriginalId
  /\ UNCHANGED log

\* One attempt is appended.  The best moves only to a strictly faster one.
Append1(a) ==
  /\ best # None
  /\ a.eval.parent \in VerifiedIds
  /\ \A i \in DOMAIN log : log[i].eval.id # a.eval.id
  /\ a.status = Judged(a.eval)
  /\ log' = Append(log, a)
  /\ best' = IF a.status = "accepted" /\ FasterThanBest(a.eval)
             THEN a.eval.id ELSE best

LogNext ==
  \/ Create
  \/ Len(log') = Len(log) + 1 /\ Append1(log'[Len(log) + 1])

LogSpec == LogInit /\ [][LogNext]_<<log, best>>
=============================================================================
