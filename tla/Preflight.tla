----------------------------- MODULE Preflight -----------------------------
(***************************************************************************)
(* preflight.py's inspect, which says whether an installation has what the *)
(* controller will need, and lineage.py's _validate_preflight, by which    *)
(* controller and lineage read that report.  The two are translated apart. *)
(* A report's failures are told by what is absent; the wording, the        *)
(* versions and the files a user may add to the required ones are left     *)
(* out.                                                                    *)
(***************************************************************************)
EXTENDS Phases, Functions

NoSurface == "none"

\* What preflight can be asked for and a contract can be about.  Schema v1
\* has no surface.  hip_source stands for the source surfaces of v2, which
\* the code treats alike.
Ask ==
  {[mode |-> "source", surface |-> NoSurface],
   [mode |-> "binary", surface |-> NoSurface],
   [mode |-> "source", surface |-> "hip_source"],
   [mode |-> "source", surface |-> "amdgcn_assembly"],
   [mode |-> "binary", surface |-> "hsaco_binary"],
   [mode |-> "audit", surface |-> "audit_only"]}

\* gate.validate_contract: nothing is measured under an audit.
Contract == {a \in Ask : a.mode # "audit"}

Schema(a) == IF a.surface = NoSurface THEN 1 ELSE 2

RequiredOfCandidate(a) ==
  CASE a.surface = "amdgcn_assembly" -> Range(FullChain.amdgcn_assembly)
    [] a.mode = "binary" -> Range(FullChain.binary)
    [] a.mode = "source" /\ a.surface # "amdgcn_assembly" -> Range(FullChain.source)
    [] a.mode = "audit" -> {}

\* required_capabilities: the adapters that there must be.
RequiredCapabilities(a) ==
  CASE a.surface = "amdgcn_assembly" ->
         {"build", "disassemble", "static_check", "native_load", "oracle", "profile", "benchmark"}
    [] a.surface = "hsaco_binary" -> Operation \ {"build"}
    [] a.surface \in {NoSurface, "hip_source"} /\ a.mode = "source" ->
         {"build", "oracle", "benchmark"}
    [] a.surface = NoSurface /\ a.mode = "binary" ->
         {"recover", "roundtrip", "rebuild", "static_check", "oracle", "replay", "compare",
          "benchmark"}
    [] a.mode = "audit" -> {}

RequiredTools(a) ==
  CASE a.surface = "amdgcn_assembly" -> {"assembler", "linker", "objdump", "profiler"}
    [] a.surface = "hsaco_binary" -> {"assembler", "linker", "objdump", "profiler", "readobj"}
    [] OTHER -> {}

\* What a feature is computed from: adapters and tools that are there.
FeatureParts ==
  [assemble         |-> {<<"adapter", "build">>, <<"tool", "assembler">>},
   link             |-> {<<"adapter", "build">>, <<"tool", "linker">>},
   disassemble      |-> {<<"adapter", "disassemble">>, <<"tool", "objdump">>},
   resource_scan    |-> {<<"adapter", "static_check">>, <<"tool", "objdump">>},
   profile          |-> {<<"adapter", "profile">>, <<"tool", "profiler">>},
   native_load      |-> {<<"adapter", "native_load">>},
   binary_roundtrip |-> {<<"adapter", o>> : o \in {"recover", "roundtrip", "rebuild", "replay"}}]

Feature == DOMAIN FeatureParts

RequiredFeatures(a) ==
  CASE a.surface = "amdgcn_assembly" -> Feature \ {"binary_roundtrip"}
    [] a.surface = "hsaco_binary" -> Feature
    [] OTHER -> {}

\* What may be absent: an adapter or a tool, a feature that is declared
\* false, the original artifact, or a GPU of the target architecture.
Absence ==
  {<<"adapter", o>> : o \in Operation}
    \cup {<<"tool", t>> : t \in {"assembler", "linker", "objdump", "profiler", "readobj"}}
    \cup {<<"feature", f>> : f \in Feature}
    \cup {<<"host", "artifact">>, <<"host", "gpu">>}

\* A declaration may take a feature away, never add one.
Features(absent) ==
  {f \in Feature : <<"feature", f>> \notin absent /\ FeatureParts[f] \cap absent = {}}

\* `failures` is empty.
Ready(a, absent) ==
  /\ a.mode # "audit" => absent \cap {<<"host", "artifact">>, <<"host", "gpu">>} = {}
  /\ \A o \in RequiredCapabilities(a) : <<"adapter", o>> \notin absent
  /\ \A t \in RequiredTools(a) : <<"tool", t>> \notin absent
  /\ RequiredFeatures(a) \subseteq Features(absent)
  /\ a.surface # "hsaco_binary"

\* The report, as far as it is read again.
Report(a, absent) ==
  [schema |-> Schema(a), mode |-> a.mode, surface |-> a.surface,
   ready |-> Ready(a, absent),
   artifact |-> <<"host", "artifact">> \notin absent,
   gpu |-> <<"host", "gpu">> \notin absent,
   required |-> RequiredCapabilities(a),
   provided |-> {o \in Operation : <<"adapter", o>> \notin absent},
   requiredFeatures |-> RequiredFeatures(a),
   features |-> Features(absent)]

ExpectedSchemaIsTwo(contract) == 2

ExpectedSchema(contract) == Schema(contract)

\* _validate_preflight, up to the hashes of adapters and tools.
ReportFits(report, contract) ==
  /\ report.schema = ExpectedSchema(contract)
  /\ report.ready
  /\ report.mode = contract.mode
  /\ Schema(contract) = 2 => report.surface = contract.surface
  /\ report.artifact /\ report.gpu
  /\ report.required = RequiredCapabilities(contract)
  /\ RequiredCapabilities(contract) \subseteq report.provided
  /\ Schema(contract) = 2 => report.requiredFeatures \subseteq report.features
=============================================================================
