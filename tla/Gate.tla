-------------------------------- MODULE Gate --------------------------------
(***************************************************************************)
(* gate.py's evaluate: the status of a candidate as a function of the      *)
(* checks an evaluation carries.  A check is what evaluate tells apart of  *)
(* it; the arithmetic that puts a timing in one of the classes is left     *)
(* out.  Where evaluate raises GateInputError over the timing, the answer  *)
(* here is "input_invalid", which is no status of an attempt; any other    *)
(* malformed check the callers make their own.                             *)
(***************************************************************************)

\* The optimization surfaces that have a chain of phases of their own: any
\* source-level surface, a binary one, and AMDGCN source assembly.
Surface == {"source", "binary", "amdgcn_assembly"}

\* What is wrong with the workload's cases: the gravest failure that any of
\* them shows (a runtime failure, then a guard corruption, then a divergence).
CaseFailure == {"runtime_failure", "canary_corruption", "divergent"}

\* The normalized instruction diff: empty, outside the declared windows, or
\* inside them.
Diff == {"empty", "outside", "inside"}

\* malformed: evaluate cannot judge it (too few samples, or not positive
\* numbers); invalid: the harness says so; unstable: the observed CV exceeds
\* its maximum; slow: under the required speedup; fast: not under it;
\* infinite: fast by a quotient that no float holds.
Timing == {"malformed", "invalid", "unstable", "slow", "fast", "infinite"}

Fast == {"fast", "infinite"}

Profile == {"not attempted", "failed", "passed"}

Checks ==
  [build : BOOLEAN, static : BOOLEAN, diff : Diff, native : BOOLEAN,
   cases : {"passed"} \cup CaseFailure, timing : Timing, profile : Profile]

Status ==
  {"build_invalid", "static_invalid", "asm_provenance_invalid",
   "timing_invalid", "timing_unstable", "insufficient_speedup",
   "profile_required", "accepted"} \cup CaseFailure

StaticPassed(s, c) == s = "source" \/ c.static

AsmProvenancePassed(s, c) == s = "amdgcn_assembly" => c.native /\ c.diff = "inside"

TimingStatus(t) ==
  CASE t = "malformed" -> "input_invalid"
    [] t = "invalid"   -> "timing_invalid"
    [] t = "unstable"  -> "timing_unstable"
    [] t = "slow"      -> "insufficient_speedup"

ProfileStatus(s, c) ==
  CASE s # "amdgcn_assembly" \/ c.profile = "passed" -> "accepted"
    [] s = "amdgcn_assembly" /\ c.profile = "failed" -> "asm_provenance_invalid"
    [] s = "amdgcn_assembly" /\ c.profile = "not attempted" -> "profile_required"

GateStatusIgnoringVariance(s, c) ==
  IF ~c.build THEN "build_invalid"
  ELSE IF ~StaticPassed(s, c) THEN "static_invalid"
  ELSE IF ~AsmProvenancePassed(s, c) THEN "asm_provenance_invalid"
  ELSE IF c.cases # "passed" THEN c.cases
  ELSE IF c.timing \in {"malformed", "invalid", "slow"} THEN TimingStatus(c.timing)
  ELSE ProfileStatus(s, c)

\* The first check that fails names the status.
GateStatus(s, c) ==
  IF ~c.build THEN "build_invalid"
  ELSE IF ~StaticPassed(s, c) THEN "static_invalid"
  ELSE IF ~AsmProvenancePassed(s, c) THEN "asm_provenance_invalid"
  ELSE IF c.cases # "passed" THEN c.cases
  ELSE IF c.timing \notin Fast THEN TimingStatus(c.timing)
  ELSE ProfileStatus(s, c)
=============================================================================
