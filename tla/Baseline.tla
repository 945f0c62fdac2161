------------------------------ MODULE Baseline ------------------------------
(***************************************************************************)
(* controller.py's initialize_run, from the preflight report it is given   *)
(* to what lineage.initialize says of the baseline: the original K0 goes   *)
(* through phases of its own, is timed under a correctness receipt, and    *)
(* becomes the root of the lineage.  lineage.py's reading                  *)
(* (_validate_baseline_receipt) is translated apart from the controller.   *)
(*                                                                         *)
(* Adapters and alterations are those of module Controller.  The race of   *)
(* several initializations is in module Lineage.                           *)
(***************************************************************************)
EXTENDS Preflight, Naturals, Sequences, FiniteSets

CONSTANTS
  Alterable,    \* the files that may be altered
  MaxAltered,   \* bound: how many of them in one initialization
  Installations \* bound: what may be absent together from an installation

\* frozen: contract, environment, preflight report, K0 and the tools;
\* candidate: the round-trip artifact that a binary baseline rebuilds;
\* output: the recovered form, the disassembly and the profile; receipt:
\* correctness-receipt.json; evidence: a phase's request, stdout or stderr.
File == {"frozen", "adapter", "candidate", "observations", "output", "receipt", "evidence"}

ASSUME AlterableAssumption == Alterable \subseteq File
ASSUME MaxAlteredAssumption == MaxAltered \in Nat
ASSUME InstallationsAssumption == \A absent \in Installations : absent \subseteq Absence

VARIABLES
  contract,  \* what the contract is about
  report,    \* the preflight report
  pc,        \* where the controller is
  evidence,  \* the records of the phases that ran
  receipt,   \* the phases in the correctness receipt
  altered    \* the files whose bytes are no longer the ones first hashed

vars == <<contract, report, pc, evidence, receipt, altered>>

Asm == contract.surface = "amdgcn_assembly"

Binary == contract.mode = "binary"

Chain ==
  IF Binary THEN <<"recover", "rebuild", "roundtrip", "static_check", "oracle", "replay",
                   "compare", "benchmark">>
  ELSE IF Asm THEN <<"disassemble", "static_check", "native_load", "oracle", "benchmark",
                     "profile">>
  ELSE <<"oracle", "benchmark">>

Phase == Chain[Len(evidence) + 1]

Ended == {"not_loaded", "initialized", "refused", "controller_error"}

Unaltered(files) == altered \cap files = {}

Proceed(passes, next) == pc' = IF passes THEN next ELSE "controller_error"

---------------------------------------------------------------------------
(* The controller.                                                         *)

\* _load_initial_context: lineage validates the report, the artifact and
\* adapters and tools are hashed against it, the environment against the
\* contract.
LoadContext ==
  /\ pc = "starting"
  /\ pc' = IF ReportFits(report, contract) /\ Unaltered({"frozen", "adapter"})
           THEN "ready" ELSE "not_loaded"
  /\ UNCHANGED <<contract, report, evidence, receipt, altered>>

\* The phase whose response has the equivalence cases.
GivesCases(op) == op = IF Binary THEN "compare" ELSE "oracle"

\* What a phase that passed says of K0.
Claims(op) ==
  CASE op = "disassemble" -> {"code_object", "other"}
    [] op = "static_check" /\ Asm -> {"consistent", "inconsistent"}
    [] GivesCases(op) -> {"passed"} \cup CaseFailure
    [] op = "benchmark" -> {"stable", "unstable"}
    [] OTHER -> {"none"}

\* As in module Controller; `saw` is not in the code.
Results ==
  {[op |-> Phase, ok |-> Ok(x[1], x[2], altered), reply |-> x[1], exit |-> x[2],
    claim |-> IF Ok(x[1], x[2], altered) THEN x[3] ELSE "none", saw |-> altered] :
     x \in Reply \X Exit \X Claims(Phase)}

\* _adapter_entry: the report must have the adapter, and it must be the one
\* preflight has seen.
Invoke ==
  /\ pc = "ready"
  /\ Proceed(Phase \in report.provided /\ Unaltered({"adapter"}), "running")
  /\ UNCHANGED <<contract, report, evidence, receipt, altered>>

\* A phase of K0 may not fail, nor say that K0 is no code object or is
\* inconsistent; wellFormed says whether the response names the bytes that
\* are in its output file, where it must.
Passes(r, wellFormed) ==
  /\ r.ok /\ r.claim \notin {"other", "inconsistent"}
  /\ wellFormed
  /\ r.op \in {"replay", "compare"} => Unaltered({"observations"})

Finish(r) ==
  /\ pc = "running"
  /\ evidence' = Append(evidence, r)
  /\ UNCHANGED <<contract, report, receipt, altered>>

AfterPhaseUnprobed(op) == "ready"

AfterPhase(op) == IF GivesCases(op) THEN "probing" ELSE "ready"

\* The phases before the timing.
Prepare(r, wellFormed) ==
  /\ Phase \notin {"benchmark", "profile"}
  /\ Finish(r)
  /\ Proceed(Passes(r, wellFormed), AfterPhase(r.op))

\* The gate must find K0 equivalent to itself.
Probe ==
  /\ pc = "probing"
  /\ Proceed(evidence[Len(evidence)].claim = "passed", "authorizing")
  /\ UNCHANGED <<contract, report, evidence, receipt, altered>>

FrozenContext == {"frozen", "adapter", "candidate"}

IssueReceipt ==
  /\ pc = "authorizing"
  /\ receipt' = evidence
  /\ Proceed(Unaltered(FrozenContext), "ready")
  /\ UNCHANGED <<contract, report, evidence, altered>>

AfterBenchmarkReady == "ready"

AfterBenchmark == IF Asm THEN "ready" ELSE "sealing"

\* The samples must be enough, positive and within the maximum CV.
Benchmark(r) ==
  /\ Phase = "benchmark"
  /\ Finish(r)
  /\ Proceed(r.ok /\ r.claim = "stable" /\ Unaltered(FrozenContext), AfterBenchmark)

ProfileOriginal(r, wellFormed) ==
  /\ Phase = "profile"
  /\ Finish(r)
  /\ Proceed(Passes(r, wellFormed) /\ Unaltered(FrozenContext), "sealing")

---------------------------------------------------------------------------
(* lineage.initialize.                                                     *)

ExpectedWithoutRoundtrip(c) ==
  IF c.surface = "amdgcn_assembly"
  THEN <<"disassemble", "static_check", "native_load", "oracle", "benchmark", "profile">>
  ELSE IF c.mode = "source" THEN <<"oracle", "benchmark">>
  ELSE <<"recover", "rebuild", "static_check", "oracle", "replay", "compare", "benchmark">>

ExpectedOperations(c) ==
  IF c.surface = "amdgcn_assembly"
  THEN <<"disassemble", "static_check", "native_load", "oracle", "benchmark", "profile">>
  ELSE IF c.mode = "source" THEN <<"oracle", "benchmark">>
  ELSE <<"recover", "rebuild", "roundtrip", "static_check", "oracle", "replay", "compare",
         "benchmark">>

\* How many phases the correctness receipt must have; the next one is the
\* benchmark, and the last one of them gives the cases.
CorrectnessPhases == IF Asm THEN 4 ELSE Len(evidence) - 1

ReceiptHolds ==
  /\ [i \in DOMAIN evidence |-> evidence[i].op] = ExpectedOperations(contract)
  /\ \A i \in DOMAIN evidence : evidence[i].ok /\ Agrees(evidence[i])
  /\ receipt = SubSeq(evidence, 1, CorrectnessPhases)
  /\ Asm => evidence[1].claim = "code_object" /\ evidence[2].claim = "consistent"
  /\ evidence[CorrectnessPhases].claim = "passed"
  /\ evidence[CorrectnessPhases + 1].claim = "stable"

RehashedOutputs == {"frozen", "adapter", "candidate", "observations", "output"}

\* Everything the baseline rests on is hashed again.
Rehashed == RehashedOutputs \cup {"receipt", "evidence"}

\* The baseline receipt is written and lineage reads it.
Initialize ==
  /\ pc = "sealing"
  /\ pc' = IF ReportFits(report, contract) /\ ReceiptHolds /\ Unaltered(Rehashed)
           THEN "initialized" ELSE "refused"
  /\ UNCHANGED <<contract, report, evidence, receipt, altered>>

---------------------------------------------------------------------------

Ran(op) == \E i \in DOMAIN evidence : evidence[i].op = op

Present(f) ==
  CASE f = "candidate" -> Ran("rebuild")
    [] f = "observations" -> Binary /\ Ran("oracle")
    [] f = "output" -> Ran("recover") \/ Ran("disassemble")
    [] f = "receipt" -> receipt # <<>>
    [] f = "evidence" -> evidence # <<>>
    [] OTHER -> TRUE

Alter(f) ==
  /\ pc \notin Ended
  /\ f \notin altered /\ Present(f)
  /\ Cardinality(altered) < MaxAltered
  /\ altered' = altered \cup {f}
  /\ UNCHANGED <<contract, report, pc, evidence, receipt>>

Init ==
  /\ contract \in Contract
  /\ \E a \in Ask, absent \in Installations : report = Report(a, absent)
  /\ pc = "starting"
  /\ evidence = <<>>
  /\ receipt = <<>>
  /\ altered = {}

Step ==
  \/ LoadContext \/ Invoke \/ Probe \/ IssueReceipt \/ Initialize
  \/ /\ pc = "running"
     /\ \E r \in Results, wellFormed \in BOOLEAN :
          Prepare(r, wellFormed) \/ Benchmark(r) \/ ProfileOriginal(r, wellFormed)

Next ==
  \/ Step
  \/ \E f \in Alterable : Alter(f)
  \/ pc \in Ended /\ UNCHANGED vars

Spec == Init /\ [][Next]_vars

---------------------------------------------------------------------------
(* Correctness.                                                            *)

PhaseRecord ==
  [op : Operation, ok : BOOLEAN, reply : Reply, exit : Exit,
   claim : {"code_object", "other", "consistent", "inconsistent", "passed", "stable",
            "unstable", "none"} \cup CaseFailure,
   saw : SUBSET File]

\* Every variable holds a value the program can give it.
TypeOK ==
  /\ contract \in Contract
  /\ [mode |-> report.mode, surface |-> report.surface] \in Ask
  /\ report.required \subseteq Operation /\ report.provided \subseteq Operation
  /\ pc \in {"starting", "ready", "running", "probing", "authorizing", "sealing"} \cup Ended
  /\ evidence \in Seq(PhaseRecord) /\ Len(evidence) <= Len(Chain)
  /\ pc \in {"ready", "running"} => Len(evidence) < Len(Chain)
  /\ receipt \in Seq(PhaseRecord)
  /\ altered \subseteq File

\* The surface of the evaluations that follow.
SurfaceOf(c) ==
  IF c.mode = "binary" THEN "binary"
  ELSE IF c.surface = "amdgcn_assembly" THEN "amdgcn_assembly" ELSE "source"

\* A report that the controller takes has an adapter for every phase of the
\* baseline and of every evaluation after it: no run ends, hours later, for
\* want of an adapter that preflight did not ask for (preflight.py inspect,
\* backends/common.py required_capabilities, and the chains of controller.py).
AdaptersSuffice ==
  pc \notin {"starting", "not_loaded"} =>
    /\ \A i \in DOMAIN Chain : Chain[i] \in report.provided
    /\ \A i \in DOMAIN FullChain[SurfaceOf(contract)] :
         FullChain[SurfaceOf(contract)][i] \in report.provided

\* inspect and _validate_preflight agree: a report that says ready is turned
\* down only if it was made for another contract or something was altered.
ReadyReportIsTaken ==
  pc = "not_loaded" /\ altered = {} =>
    \/ ~report.ready
    \/ report.mode # contract.mode \/ report.surface # contract.surface

\* A lineage begins with a K0 that every phase passed, on bytes that no
\* adapter of the chain can have read altered, with everything that was
\* required present (controller.py initialize_run, lineage.py initialize).
BaselineIsEarned ==
  pc = "initialized" =>
    /\ [i \in DOMAIN evidence |-> evidence[i].op] = Chain
    /\ \A i \in DOMAIN evidence :
         /\ evidence[i].ok /\ evidence[i].saw = {}
         /\ evidence[i].claim \in {"none", "code_object", "consistent", "passed", "stable"}
    /\ report.ready /\ report.gpu /\ report.artifact

\* The controller's chains and lineage.py's expectations agree: lineage
\* refuses a baseline that the controller submits only when a file was
\* altered.
RefusedOnlyForCause == pc = "refused" => altered # {}

\* How far the baseline is, in the terms of EvaluationStages.
StageReached ==
  CASE pc = "initialized" -> "judged"
    [] pc \in Ended \ {"initialized"} -> "abandoned"
    [] pc \notin Ended /\ Ran("benchmark") -> "measured"
    [] pc \notin Ended /\ ~Ran("benchmark") /\ receipt # <<>> -> "proved"
    [] OTHER -> "unproved"

Result == IF pc = "initialized" THEN "accepted" ELSE "none"

\* A baseline goes through the stages of EvaluationStages, without ever
\* being rejected for correctness: that is an abandoned initialization.
Stages == INSTANCE EvaluationStages WITH result <- Result, stage <- StageReached

FollowsTheStages == Stages!StagesSpec
=============================================================================
