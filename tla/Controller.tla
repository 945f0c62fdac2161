----------------------------- MODULE Controller -----------------------------
(***************************************************************************)
(* controller.py's evaluate_candidate, from the attempt directory it has   *)
(* opened to what lineage.record says of the evaluation: the chain of      *)
(* adapter phases, the deterministic gate between correctness and timing,  *)
(* the receipt, and lineage.py's independent reading of the same evidence. *)
(*                                                                         *)
(* An adapter is another program.  It may answer, refuse, answer something *)
(* else or nothing, and die, time out or write too much in any of these    *)
(* cases.  While it runs, and between any two steps of the controller, a   *)
(* file that the evaluation depends on may be altered for good; one that   *)
(* is altered and put back between two hashings is out of reach of the     *)
(* code and of this model.  Failing writes are in module DurableCommit.    *)
(***************************************************************************)
EXTENDS Phases, Naturals, Sequences, FiniteSets

CONSTANTS
  Alterable,   \* the files that may be altered
  MaxAltered   \* bound: how many of them in one evaluation

\* frozen: contract, environment, preflight report, K0, the parent and the
\* tools; asm_inputs: the snapshots of the assembly source and of the
\* parent's profile; output: a file an adapter wrote for a later phase;
\* evidence: a phase's request, stdout or stderr.
File == {"frozen", "adapter", "proposal", "asm_inputs", "candidate", "output", "evidence"}

ASSUME AlterableAssumption == Alterable \subseteq File
ASSUME MaxAlteredAssumption == MaxAltered \in Nat

VARIABLES
  surface,   \* the optimization surface of the lineage
  windows,   \* the changed windows on the command line: "named" or "blank"
  pc,        \* where the controller is
  evidence,  \* phase_evidence: the records of the phases that ran
  checks,    \* what the evaluation says so far
  receipt,   \* the correctness receipt, or NoReceipt
  altered,   \* the files whose bytes are no longer the ones first hashed
  status     \* the status that was recorded, or "none"

vars == <<surface, windows, pc, evidence, checks, receipt, altered, status>>

Chain == FullChain[surface]

\* The phase that runs next, or is running.
Phase == Chain[Len(evidence) + 1]

\* The number of phases that come before the benchmark, the last of which
\* gives the equivalence cases.
PrefixLength == IF surface = "source" THEN 2 ELSE 5

Ended == {"recorded", "refused", "controller_error"}

NoChecks ==
  [build |-> FALSE, static |-> FALSE, diff |-> "empty", native |-> FALSE,
   cases |-> "runtime_failure", timing |-> "invalid", profile |-> "not attempted"]

NoReceipt == [phases |-> <<>>, checks |-> NoChecks]

---------------------------------------------------------------------------
(* One adapter run.                                                        *)

\* What a phase that passed says to the gate.  A diff whose flags are not
\* booleans is unclear.
Claims(op) ==
  CASE op = "disassemble" -> Diff \cup {"unclear"}
    [] op = "static_check" /\ surface = "amdgcn_assembly" -> {"consistent", "inconsistent"}
    [] op = Chain[PrefixLength] -> {"passed"} \cup CaseFailure
    [] op = "benchmark" -> Timing
    [] OTHER -> {"none"}

\* The records a run of the current phase may leave.  `saw` is not in the
\* code: the files that the adapter may have read altered.
Results ==
  {[op |-> Phase, ok |-> Ok(x[1], x[2], altered), reply |-> x[1], exit |-> x[2],
    claim |-> IF Ok(x[1], x[2], altered) THEN x[3] ELSE "none", saw |-> altered] :
     x \in Reply \X Exit \X Claims(Phase)}

Unaltered(files) == altered \cap files = {}

\* _verify_frozen_context with the proposal and, once there is one, the candidate.
FrozenContext == {"frozen", "adapter", "proposal", "candidate"}

\* The controller goes on to `next`, or raises a ControllerError.
Proceed(passes, next) == pc' = IF passes THEN next ELSE "controller_error"

\* _adapter_entry: the adapter must still be the one preflight has seen.
Invoke ==
  /\ pc = "ready"
  /\ Proceed(Unaltered({"adapter"}), "running")
  /\ UNCHANGED <<surface, windows, evidence, checks, receipt, altered, status>>

\* The phase ends with record r.  The step's own changes follow.
Finish(r, op) ==
  /\ pc = "running"
  /\ Phase = op
  /\ evidence' = Append(evidence, r)
  /\ UNCHANGED <<surface, windows, receipt, altered, status>>

\* The proposal is snapshotted; the frozen context must be intact.
Start ==
  /\ pc = "opened"
  /\ Proceed(Unaltered(FrozenContext), "ready")
  /\ UNCHANGED <<surface, windows, evidence, checks, receipt, altered, status>>

---------------------------------------------------------------------------
(* The phases.  `wellFormed` is whether the response has what the phase    *)
(* must say and names the bytes that are in the output file.               *)

\* A failed build is the end of the evaluation, without a candidate.
Build(r, wellFormed) ==
  /\ Finish(r, Chain[1])
  /\ checks' = [checks EXCEPT !.build = r.ok]
  /\ IF r.ok THEN Proceed(wellFormed /\ Unaltered(FrozenContext), "ready")
             ELSE pc' = "recording"

\* A failed disassembly is no verdict on the candidate.  Neither an empty
\* diff nor one outside the windows ends the evaluation here, and an unclear
\* one is taken for empty.
Disassemble(r, wellFormed) ==
  /\ Finish(r, "disassemble")
  /\ checks' = [checks EXCEPT !.diff = IF r.ok /\ r.claim # "unclear" THEN r.claim ELSE "empty"]
  /\ Proceed(r.ok /\ wellFormed, "ready")

\* An ASM adapter must also say that ABI and resources are consistent.  On
\* the binary surface the frozen context is verified next.
StaticCheck(r) ==
  LET asm    == surface = "amdgcn_assembly"
      passed == r.ok /\ (asm => r.claim = "consistent")
  IN
  /\ Finish(r, "static_check")
  /\ checks' = [checks EXCEPT !.static = passed]
  /\ IF passed THEN Proceed(asm \/ Unaltered(FrozenContext), "ready")
               ELSE pc' = "recording"

NativeLoad(r) ==
  /\ Finish(r, "native_load")
  /\ checks' = [checks EXCEPT !.native = r.ok]
  /\ IF r.ok THEN Proceed(Unaltered(FrozenContext), "ready")
             ELSE pc' = "recording"

CasesOfResponse(r) == r.claim

\* The cases of a phase that failed are all runtime failures.
CasesOf(r) == IF r.ok THEN r.claim ELSE "runtime_failure"

\* A source or ASM oracle runs the candidate and gives the cases.
Oracle(r, wellFormed) ==
  /\ surface # "binary"
  /\ Finish(r, "oracle")
  /\ checks' = [checks EXCEPT !.cases = CasesOf(r)]
  /\ Proceed(~r.ok \/ wellFormed, "gating")

\* The binary oracle runs K0 and the replay runs the candidate: each writes
\* observations.  A failed one leaves every case a runtime failure.
Observe(r, wellFormed) ==
  /\ surface = "binary"
  /\ \/ Finish(r, "oracle")
     \/ Finish(r, "replay")
  /\ checks' = checks
  /\ IF r.ok
     THEN Proceed(wellFormed /\ (r.op = "replay" => Unaltered({"output"})), "ready")
     ELSE pc' = "gating"

\* The observations are hashed again after the comparison, whatever it says.
Compare(r, wellFormed) ==
  /\ Finish(r, "compare")
  /\ checks' = [checks EXCEPT !.cases = CasesOf(r)]
  /\ Proceed(Unaltered({"output"}) /\ (~r.ok \/ wellFormed), "gating")

---------------------------------------------------------------------------
(* The gate, the receipt, the benchmark.                                   *)

\* The gate is asked about the correctness prefix, with a timing that is
\* invalid for not being there: any other answer ends the evaluation.
PassesPrefixAlways(s, c) == TRUE

PassesPrefix(s, c) == GateStatus(s, c) = "timing_invalid"

GatePrefix(wellFormed) ==
  /\ pc = "gating"
  /\ Proceed(wellFormed, IF PassesPrefix(surface, checks) THEN "authorizing" ELSE "recording")
  /\ UNCHANGED <<surface, windows, evidence, checks, receipt, altered, status>>

ReverifiedNothing == {}

\* What is hashed again right before and right after the benchmark.
Reverified == FrozenContext \cup (IF surface = "amdgcn_assembly" THEN {"asm_inputs"} ELSE {})

\* The receipt binds the phases and the checks so far.  It is written before
\* the frozen context is verified.
IssueReceipt ==
  /\ pc = "authorizing"
  /\ receipt' = [phases |-> evidence, checks |-> checks]
  /\ Proceed(Unaltered(Reverified), "ready")
  /\ UNCHANGED <<surface, windows, evidence, checks, altered, status>>

\* A benchmark that failed is a timing that is not valid; one that passed
\* must give an object.  Only on the ASM surface is the gate asked about it
\* now, for whether a fresh profile is required: what the gate cannot judge
\* goes on to lineage.record on the others.
Benchmark(r, wellFormed) ==
  LET timed == [checks EXCEPT !.timing = IF r.ok THEN r.claim ELSE "invalid"]
      answer == GateStatus(surface, timed)
      judged == surface = "amdgcn_assembly" => answer # "input_invalid"
  IN
  /\ Finish(r, "benchmark")
  /\ checks' = timed
  /\ Proceed(Unaltered(Reverified) /\ (~r.ok \/ wellFormed) /\ judged,
             IF answer = "profile_required" THEN "ready" ELSE "recording")

\* A profile that failed is a verdict; one that is not valid evidence is not.
ProfileCandidate(r, wellFormed) ==
  /\ Finish(r, "profile")
  /\ checks' = [checks EXCEPT !.profile = IF r.ok THEN "passed" ELSE "failed"]
  /\ Proceed(~r.ok \/ wellFormed, "recording")

---------------------------------------------------------------------------
(* lineage.py's reading of the evaluation (_validate_controller_provenance *)
(* and what _record_locked hashes again).                                  *)

Submitted == GateStatus(surface, checks)

Benchmarked == \E i \in DOMAIN evidence : evidence[i].op = "benchmark"

\* prefix_rejections
Rejection == {"build_invalid", "static_invalid", "asm_provenance_invalid"} \cup CaseFailure

RejectedBefore == Submitted \in Rejection /\ ~Benchmarked

RejectedLengthsTooShort ==
  CASE Submitted = "build_invalid" -> {1}
    [] Submitted = "asm_provenance_invalid" -> {2, 3, 4}
    [] Submitted = "static_invalid" -> IF surface = "amdgcn_assembly" THEN {3} ELSE {2}
    [] Submitted \in CaseFailure -> {PrefixLength}

\* How many phases a rejection before the benchmark may show.
RejectedLengths ==
  CASE Submitted = "build_invalid" -> {1}
    [] Submitted = "asm_provenance_invalid" -> 2..6
    [] Submitted = "static_invalid" -> IF surface = "amdgcn_assembly" THEN {3} ELSE {2}
    [] Submitted \in CaseFailure /\ surface = "source" -> {2}
    [] Submitted \in {"divergent", "canary_corruption"} /\ surface # "source" -> {5}
    [] Submitted = "runtime_failure" /\ surface # "source" -> {3, 4, 5}

TimedLengths ==
  {Len(Chain)} \cup (IF surface = "amdgcn_assembly" THEN {Len(Chain) - 1} ELSE {})

\* The stage the controller writes into the provenance.
Stage == IF receipt = NoReceipt THEN "correctness_rejected" ELSE "benchmarked"

ChainFits ==
  /\ \A i \in DOMAIN evidence : evidence[i].op = Chain[i]
  /\ IF RejectedBefore
     THEN Stage = "correctness_rejected" /\ Len(evidence) \in RejectedLengths
     ELSE /\ Submitted # "profile_required"
          /\ Stage = "benchmarked"
          /\ Len(evidence) \in TimedLengths

EvidenceHolds ==
  /\ \A i \in DOMAIN evidence : i < Len(evidence) => evidence[i].ok
  /\ \A i \in DOMAIN evidence : Agrees(evidence[i])

Claimed(op, claim) ==
  \A i \in DOMAIN evidence :
    evidence[i].op = op /\ evidence[i].ok => evidence[i].claim = claim

\* The checks are what the responses say.
ChecksBound ==
  /\ surface = "amdgcn_assembly" /\ checks.build =>
       /\ Claimed("disassemble", checks.diff)
       /\ Len(evidence) >= 3 =>
            (checks.static <=> evidence[3].ok /\ evidence[3].claim = "consistent")
       /\ Len(evidence) >= 4 => (checks.native <=> evidence[4].ok)
  /\ Claimed(Chain[PrefixLength], checks.cases)

\* An evaluation that is not a rejection of the prefix must carry the receipt
\* of exactly this prefix, and the timing that the benchmark gave.
ReceiptBound ==
  \/ RejectedBefore
  \/ /\ receipt.phases = SubSeq(evidence, 1, PrefixLength)
     /\ [receipt.checks EXCEPT !.timing = checks.timing, !.profile = checks.profile] = checks
     /\ checks.timing = IF evidence[PrefixLength + 1].ok
                        THEN evidence[PrefixLength + 1].claim ELSE "invalid"

\* What is hashed again: the lineage's own identities, the outputs and files
\* of the phases, the candidate if there is one, and the ASM snapshots.
Rehashed ==
  {"frozen", "adapter", "output", "evidence", "candidate"}
    \cup (IF surface = "amdgcn_assembly" /\ checks.build THEN {"proposal", "asm_inputs"} ELSE {})

\* _record_locked asks the gate itself, wants changed windows that are not
\* blank, and a finite speedup of what the gate accepts.
Recordable ==
  /\ Submitted # "input_invalid"
  /\ windows = "named"
  /\ Submitted = "accepted" => checks.timing # "infinite"

Accepts ==
  Recordable /\ ChainFits /\ EvidenceHolds /\ ChecksBound /\ ReceiptBound /\ Unaltered(Rehashed)

RecordEvaluation ==
  /\ pc = "recording"
  /\ IF Accepts THEN pc' = "recorded" /\ status' = Submitted
                ELSE pc' = "refused" /\ status' = status
  /\ UNCHANGED <<surface, windows, evidence, checks, receipt, altered>>

---------------------------------------------------------------------------

\* The files there are: the candidate has been hashed once its build is over,
\* and an output once the phase that wrote it is.
Present(f) ==
  CASE f = "asm_inputs" -> surface = "amdgcn_assembly"
    [] f = "candidate" -> checks.build
    [] f = "output" ->
         \E i \in DOMAIN evidence :
           /\ evidence[i].ok
           /\ \/ evidence[i].op \in {"disassemble", "profile"}
              \/ evidence[i].op \in {"oracle", "replay"} /\ surface = "binary"
    [] f = "evidence" -> evidence # <<>>
    [] OTHER -> TRUE

Alter(f) ==
  /\ pc \notin Ended
  /\ f \notin altered /\ Present(f)
  /\ Cardinality(altered) < MaxAltered
  /\ altered' = altered \cup {f}
  /\ UNCHANGED <<surface, windows, pc, evidence, checks, receipt, status>>

Init ==
  /\ surface \in Surface
  /\ windows \in IF surface = "amdgcn_assembly" THEN {"named"} ELSE {"named", "blank"}
  /\ pc = "opened"
  /\ evidence = <<>>
  /\ checks = NoChecks
  /\ receipt = NoReceipt
  /\ altered = {}
  /\ status = "none"

FinishPhase(r, wellFormed) ==
  \/ Build(r, wellFormed) \/ Disassemble(r, wellFormed) \/ StaticCheck(r) \/ NativeLoad(r)
  \/ Oracle(r, wellFormed) \/ Observe(r, wellFormed) \/ Compare(r, wellFormed)
  \/ Benchmark(r, wellFormed) \/ ProfileCandidate(r, wellFormed)

Step ==
  \/ Start \/ Invoke \/ IssueReceipt \/ RecordEvaluation
  \/ \E wellFormed \in BOOLEAN : GatePrefix(wellFormed)
  \/ pc = "running" /\ \E r \in Results, wellFormed \in BOOLEAN : FinishPhase(r, wellFormed)

Next ==
  \/ Step
  \/ \E f \in Alterable : Alter(f)
  \/ pc \in Ended /\ UNCHANGED vars

Spec == Init /\ [][Next]_vars

---------------------------------------------------------------------------
(* Correctness.                                                            *)

Claim == Diff \cup {"unclear", "consistent", "inconsistent", "passed", "none"}
           \cup CaseFailure \cup Timing

PhaseRecord == [op : Operation, ok : BOOLEAN, reply : Reply, exit : Exit, claim : Claim,
                saw : SUBSET File]

\* Every variable holds a value the program can give it.
TypeOK ==
  /\ surface \in Surface /\ windows \in {"named", "blank"}
  /\ pc \in {"opened", "ready", "running", "gating", "authorizing", "recording"} \cup Ended
  /\ evidence \in Seq(PhaseRecord) /\ Len(evidence) <= Len(Chain)
  /\ checks \in Checks
  /\ receipt.phases \in Seq(PhaseRecord) /\ receipt.checks \in Checks
  /\ altered \subseteq File
  /\ status \in Status \cup {"none"}

\* Whatever the adapters print and however they end, a phase that did not
\* both answer as asked and end cleanly is the last that runs: "a failed or
\* malformed adapter response cannot authorize the next phase"
\* (references/controller-contract.md; controller.py _invoke_adapter).
FailedPhaseIsLast ==
  \A i \in DOMAIN evidence :
    i < Len(evidence) \/ pc \in {"ready", "running", "authorizing"} =>
      evidence[i].reply = "passed" /\ evidence[i].exit = "clean"

Running(op) == pc = "running" /\ Phase = op

\* The benchmark runs only on a candidate that every phase before it passed,
\* with cases that all pass, and under a receipt of exactly these phases
\* (controller.py evaluate_candidate, the receipt and the benchmark).
BenchmarkIsAuthorized ==
  Running("benchmark") \/ Benchmarked =>
    /\ receipt.phases = SubSeq(evidence, 1, PrefixLength)
    /\ \A i \in 1..PrefixLength : evidence[i].ok /\ evidence[i].op = Chain[i]
    /\ evidence[PrefixLength].claim = "passed"
    /\ surface = "amdgcn_assembly" =>
         evidence[2].claim = "inside" /\ evidence[3].claim = "consistent"

\* A profile is taken only of a candidate that is fast enough to need one
\* (controller.py evaluate_candidate, the preliminary gate).
ProfileIsEarned ==
  Running("profile") => evidence[PrefixLength + 1].claim \in Fast

\* A recorded acceptance rests on the whole chain, on passing cases and a
\* fast timing of finite speedup, and on bytes that no adapter of the chain
\* can have read altered: every file that a phase consumes is hashed again,
\* by someone, after the last phase that consumes it.
AcceptanceIsEarned ==
  status = "accepted" =>
    /\ [i \in DOMAIN evidence |-> evidence[i].op] = Chain
    /\ \A i \in DOMAIN evidence : evidence[i].ok /\ evidence[i].saw = {}
    /\ evidence[PrefixLength].claim = "passed"
    /\ evidence[PrefixLength + 1].claim = "fast"

\* controller.py's chains and lineage.py's table of allowed chains, written
\* apart, agree: lineage refuses what the controller submits only when a
\* file was altered, when the last adapter's output cannot be read or
\* disagrees with how its phase ended, when a diff's flags are not booleans,
\* when the speedup is infinite, or, on the surfaces where the controller asks
\* about neither before, when the gate cannot judge the timing or a changed
\* window is blank.
RefusedOnlyForCause ==
  pc = "refused" =>
    \/ altered # {}
    \/ evidence[Len(evidence)].reply = "garbled"
    \/ Disagreeing(evidence[Len(evidence)])
    \/ \E i \in DOMAIN evidence : evidence[i].claim = "unclear"
    \/ Submitted = "accepted" /\ checks.timing = "infinite"
    \/ /\ surface # "amdgcn_assembly"
       /\ windows = "blank" \/ Submitted = "input_invalid"

\* How far the evaluation is, in the terms of EvaluationStages.
StageReached ==
  CASE pc = "recorded" -> "judged"
    [] pc \in Ended \ {"recorded"} -> "abandoned"
    [] pc \notin Ended /\ Benchmarked -> "measured"
    [] pc \notin Ended /\ ~Benchmarked /\ receipt # NoReceipt -> "proved"
    [] OTHER -> "unproved"

\* The evaluation goes through the stages of EvaluationStages.
Stages == INSTANCE EvaluationStages WITH result <- status, stage <- StageReached

FollowsTheStages == Stages!StagesSpec

\* docs: "The controller stops at the first failure"
\* (references/controller-contract.md).  No adapter is started once a check
\* has failed.
CheckFailed ==
  surface = "amdgcn_assembly" /\ Len(evidence) >= 2 /\ checks.diff # "inside"

StopsAtFirstFailure ==
  [][pc = "ready" /\ pc' = "running" => ~CheckFailed]_vars

\* docs: "the controller cannot complete a bound phase because an adapter
\* timed out, ... returned malformed evidence" is controller_error, which
\* produces no gate decision (references/failure-taxonomy.md).
TimeoutIsControllerError ==
  pc = "recorded" => \A i \in DOMAIN evidence : evidence[i].exit # "timed_out"
=============================================================================
