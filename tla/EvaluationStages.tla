-------------------------- MODULE EvaluationStages --------------------------
(***************************************************************************)
(* What the controller promises of one evaluation, whatever the surface    *)
(* and its chain of phases: correctness first, then timing, then a status  *)
(* of the kind that the stage can justify; and it may be abandoned without *)
(* a status at any point.  Modules Controller and Baseline implement it.   *)
(***************************************************************************)
EXTENDS Gate

VARIABLES
  stage,  \* how far the evaluation got
  result  \* the status that was recorded, or "none"

CorrectnessStatus == {"build_invalid", "static_invalid", "asm_provenance_invalid"} \cup CaseFailure

TimingOutcome ==
  {"timing_invalid", "timing_unstable", "insufficient_speedup", "asm_provenance_invalid", "accepted"}

StagesInit == stage = "unproved" /\ result = "none"

\* Correctness is established, once.
Prove == stage = "unproved" /\ stage' = "proved" /\ UNCHANGED result

\* Only what is proved is measured, once.
Measure == stage = "proved" /\ stage' = "measured" /\ UNCHANGED result

\* A rejection for correctness is recorded with nothing measured; any other
\* status rests on a measurement.
Judge ==
  /\ \/ stage = "unproved" /\ result' \in CorrectnessStatus
     \/ stage = "measured" /\ result' \in TimingOutcome
  /\ stage' = "judged"

Abandon ==
  /\ stage \in {"unproved", "proved", "measured"}
  /\ stage' = "abandoned"
  /\ UNCHANGED result

StagesNext == Prove \/ Measure \/ Judge \/ Abandon

StagesSpec == StagesInit /\ [][StagesNext]_<<stage, result>>
=============================================================================
