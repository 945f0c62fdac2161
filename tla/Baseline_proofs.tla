-------------------------- MODULE Baseline_proofs --------------------------
(***************************************************************************)
(* The safety of one initialization, for any installation, any files that  *)
(* may be altered and any number of them.  The invariant says what the     *)
(* report is, which phases have passed at each place the controller can be *)
(* at, and what is in the receipt.                                         *)
(***************************************************************************)
EXTENDS Baseline, TLAPS

\* The phases before the benchmark; the last of them gives the cases.
K == IF Binary THEN 7 ELSE IF Asm THEN 4 ELSE 1

LEMMA ContractFacts ==
  ASSUME contract \in Contract
  PROVE  /\ contract \in Ask /\ contract.mode # "audit"
         /\ contract.mode \in {"source", "binary"}
         /\ ~(Binary /\ Asm)
  BY DEF Contract, Ask, Binary, Asm, NoSurface

LEMMA ChainFacts ==
  ASSUME contract \in Contract
  PROVE  /\ K \in {1, 4, 7} /\ Len(Chain) = IF Asm THEN K + 2 ELSE K + 1
         /\ Chain = ExpectedOperations(contract)
         /\ Chain = [n \in 1..Len(Chain) |-> Chain[n]]
         /\ \A n \in 1..Len(Chain) :
              /\ Chain[n] \in Operation
              /\ GivesCases(Chain[n]) <=> n = K
              /\ Chain[n] = "benchmark" <=> n = K + 1
              /\ Chain[n] = "profile" <=> n = K + 2
         /\ Asm => K = 4 /\ Chain[1] = "disassemble" /\ Chain[2] = "static_check"
<1>1. ~(Binary /\ Asm) /\ contract.mode \in {"source", "binary"}
  BY ContractFacts
<1>2. CASE Binary
  <2>1. ~Asm /\ K = 7
    BY <1>1, <1>2 DEF K
  <2>2. Chain = <<"recover", "rebuild", "roundtrip", "static_check", "oracle", "replay",
                  "compare", "benchmark">>
    BY <1>2 DEF Chain
  <2>3. ExpectedOperations(contract) = Chain
    BY <1>1, <1>2, <2>1, <2>2 DEF ExpectedOperations, Binary, Asm
  <2> QED
    BY <1>2, <2>1, <2>2, <2>3 DEF GivesCases, Operation
<1>3. CASE Asm
  <2>1. ~Binary /\ K = 4
    BY <1>1, <1>3 DEF K
  <2>2. Chain = <<"disassemble", "static_check", "native_load", "oracle", "benchmark",
                  "profile">>
    BY <1>3, <2>1 DEF Chain
  <2>3. ExpectedOperations(contract) = Chain
    BY <1>3, <2>2 DEF ExpectedOperations, Asm
  <2> QED
    BY <1>3, <2>1, <2>2, <2>3 DEF GivesCases, Operation
<1>4. CASE ~Binary /\ ~Asm
  <2>1. K = 1
    BY <1>4 DEF K
  <2>2. Chain = <<"oracle", "benchmark">>
    BY <1>4 DEF Chain
  <2>3. ExpectedOperations(contract) = Chain
    BY <1>1, <1>4, <2>2 DEF ExpectedOperations, Binary, Asm
  <2> QED
    BY <1>4, <2>1, <2>2, <2>3 DEF GivesCases, Operation
<1> QED
  BY <1>2, <1>3, <1>4

AnyClaim ==
  {"code_object", "other", "consistent", "inconsistent", "passed", "stable", "unstable", "none"}
    \cup CaseFailure

LEMMA ClaimFacts ==
  ASSUME contract \in Contract, NEW n \in 1..Len(Chain)
  PROVE  /\ Claims(Chain[n]) \subseteq AnyClaim
         /\ n = K => Claims(Chain[n]) = {"passed"} \cup CaseFailure
         /\ n = K + 1 => Claims(Chain[n]) = {"stable", "unstable"}
         /\ n # K /\ n # K + 1 =>
              Claims(Chain[n]) \subseteq {"code_object", "other", "consistent", "inconsistent", "none"}
         /\ Asm /\ n = 1 => Claims(Chain[n]) = {"code_object", "other"}
         /\ Asm /\ n = 2 => Claims(Chain[n]) = {"consistent", "inconsistent"}
<1> DEFINE op == Chain[n]
<1>1. /\ GivesCases(op) <=> n = K
      /\ op = "benchmark" <=> n = K + 1
      /\ Asm /\ n = 1 => op = "disassemble"
      /\ Asm /\ n = 2 => op = "static_check"
      /\ K \in {1, 4, 7} /\ (Asm => K = 4)
  BY ChainFacts
<1>2. GivesCases(op) => op \in {"compare", "oracle"}
  BY DEF GivesCases
<1> HIDE DEF op
<1>3. CASE GivesCases(op)
  <2>1. Claims(op) = {"passed"} \cup CaseFailure
    BY <1>2, <1>3 DEF Claims
  <2>2. n = K /\ n # K + 1 /\ (Asm => n # 1 /\ n # 2)
    BY <1>1, <1>3
  <2> QED
    BY <2>1, <2>2 DEF AnyClaim, op
<1>4. CASE op = "benchmark"
  <2>1. ~GivesCases(op)
    BY <1>2, <1>4
  <2>2. Claims(op) = {"stable", "unstable"}
    BY <1>4, <2>1 DEF Claims
  <2>3. n = K + 1 /\ n # K /\ (Asm => n # 1 /\ n # 2)
    BY <1>1, <1>4
  <2> QED
    BY <2>2, <2>3 DEF AnyClaim, op
<1>5. CASE op = "disassemble"
  <2>1. ~GivesCases(op)
    BY <1>2, <1>5
  <2>2. Claims(op) = {"code_object", "other"}
    BY <1>5, <2>1 DEF Claims
  <2>3. n # K /\ n # K + 1 /\ ~(Asm /\ n = 2)
    BY <1>1, <1>5, <2>1
  <2> QED
    BY <2>2, <2>3 DEF AnyClaim, op
<1>6. CASE op = "static_check" /\ Asm
  <2>1. ~GivesCases(op)
    BY <1>2, <1>6
  <2>2. Claims(op) = {"consistent", "inconsistent"}
    BY <1>6, <2>1 DEF Claims
  <2>3. n # K /\ n # K + 1 /\ n # 1
    BY <1>1, <1>6, <2>1
  <2> QED
    BY <2>2, <2>3 DEF AnyClaim, op
<1>7. CASE ~GivesCases(op) /\ op \notin {"benchmark", "disassemble"}
           /\ ~(op = "static_check" /\ Asm)
  <2>1. Claims(op) = {"none"}
    BY <1>7 DEF Claims
  <2>2. n # K /\ n # K + 1 /\ ~(Asm /\ n = 1) /\ ~(Asm /\ n = 2)
    BY <1>1, <1>7
  <2> QED
    BY <2>1, <2>2 DEF AnyClaim, op
<1> QED
  BY <1>3, <1>4, <1>5, <1>6, <1>7

---------------------------------------------------------------------------
(* The invariant.                                                          *)

Alive == {"starting", "ready", "running", "probing", "authorizing", "sealing"}

Bad == {"other", "inconsistent"}

ReportIs == \E a \in Ask, absent \in Installations : report = Report(a, absent)

Loaded == pc \notin {"starting", "not_loaded"} => ReportFits(report, contract)

\* The phases that ran are the chain's; all passed, as long as it goes on.
PhasesKept ==
  /\ \A n \in 1..Len(evidence) :
       /\ evidence[n].op = Chain[n]
       /\ evidence[n].saw \subseteq altered
       /\ evidence[n].ok =>
            /\ evidence[n].reply = "passed" /\ evidence[n].exit = "clean"
            /\ evidence[n].claim \in Claims(Chain[n])
  /\ pc \in Alive =>
       \A n \in 1..Len(evidence) : evidence[n].ok /\ evidence[n].claim \notin Bad

PlaceKept ==
  /\ pc = "starting" => evidence = <<>>
  /\ pc \in {"probing", "authorizing"} => Len(evidence) = K
  /\ pc = "authorizing" => evidence[K].claim = "passed"
  /\ pc = "sealing" => Len(evidence) = Len(Chain)

\* The receipt is there from the authorization on, and with it what the
\* cases and the timing say.
ReceiptKept ==
  pc \in Alive =>
    \/ /\ receipt = <<>> /\ Len(evidence) <= K
       /\ pc \in {"ready", "running"} => Len(evidence) < K
    \/ /\ pc \in {"ready", "running", "sealing"} /\ Len(evidence) >= K
       /\ receipt = SubSeq(evidence, 1, K)
       /\ evidence[K].claim = "passed"
       /\ Len(evidence) > K => evidence[K + 1].claim = "stable"

Decided == ReadyReportIsTaken /\ BaselineIsEarned /\ RefusedOnlyForCause

IInv == TypeOK /\ ReportIs /\ Loaded /\ PhasesKept /\ PlaceKept /\ ReceiptKept /\ Decided

LEMMA InitHolds == Init => IInv
<1> SUFFICES ASSUME Init PROVE IInv
  OBVIOUS
<1>1. PICK a \in Ask, absent \in Installations : report = Report(a, absent)
  BY DEF Init
<1>2. contract \in Contract /\ evidence = <<>> /\ Len(evidence) = 0 /\ receipt = <<>>
  BY DEF Init
<1>3. K \in {1, 4, 7} /\ Len(Chain) >= 0
  BY <1>2, ChainFacts
<1>4. TypeOK
  <2>1. /\ [mode |-> report.mode, surface |-> report.surface] = a
        /\ report.required \subseteq Operation /\ report.provided \subseteq Operation
    <3>1. report.mode = a.mode /\ report.surface = a.surface
      BY <1>1 DEF Report
    <3>2. a = [mode |-> a.mode, surface |-> a.surface]
      BY DEF Ask
    <3>3. report.provided \subseteq Operation
      BY <1>1 DEF Report
    <3>4. report.required = RequiredCapabilities(a)
      BY <1>1 DEF Report
    <3>5. RequiredCapabilities(a) \subseteq Operation
      BY DEF RequiredCapabilities, Operation, Ask, NoSurface
    <3> QED
      BY <3>1, <3>2, <3>3, <3>4, <3>5
  <2> QED
    BY <1>2, <1>3, <2>1 DEF Init, TypeOK
<1>5. ReportIs /\ Loaded /\ PhasesKept /\ PlaceKept /\ ReceiptKept
  BY <1>1, <1>2, <1>3 DEF Init, ReportIs, Loaded, PhasesKept, PlaceKept, ReceiptKept
<1>6. Decided
  BY DEF Init, Decided, ReadyReportIsTaken, BaselineIsEarned, RefusedOnlyForCause
<1> QED
  BY <1>4, <1>5, <1>6 DEF IInv
---------------------------------------------------------------------------
(* One phase ends.                                                         *)

LEMMA RunningFacts ==
  ASSUME IInv
  PROVE  /\ contract \in Contract /\ Len(evidence) \in Nat /\ Len(Chain) \in Nat
         /\ K \in {1, 4, 7} /\ Len(Chain) = IF Asm THEN K + 2 ELSE K + 1
         /\ evidence \in Seq(PhaseRecord) /\ DOMAIN evidence = 1..Len(evidence)
         /\ Len(evidence) <= Len(Chain)
         /\ pc \in {"ready", "running"} => Len(evidence) < Len(Chain)
  BY ChainFacts DEF IInv, TypeOK

LEMMA ResultFacts ==
  ASSUME IInv, pc = "running", NEW r \in Results
  PROVE  /\ r \in PhaseRecord /\ r.op = Phase /\ r.saw = altered /\ r.ok \in BOOLEAN
         /\ Len(evidence) + 1 \in 1..Len(Chain) /\ Phase = Chain[Len(evidence) + 1]
         /\ r.ok => r.reply = "passed" /\ r.exit = "clean" /\ r.claim \in Claims(Phase)
<1>1. /\ contract \in Contract /\ Len(evidence) + 1 \in 1..Len(Chain)
      /\ Phase = Chain[Len(evidence) + 1] /\ altered \subseteq File
  BY RunningFacts DEF Phase, IInv, TypeOK
<1>2. Phase \in Operation /\ Claims(Phase) \subseteq AnyClaim
  BY <1>1, ChainFacts, ClaimFacts
<1>3. PICK reply \in Reply, exit \in Exit, claim \in Claims(Phase) :
        r = [op |-> Phase, ok |-> Ok(reply, exit, altered), reply |-> reply, exit |-> exit,
             claim |-> IF Ok(reply, exit, altered) THEN claim ELSE "none", saw |-> altered]
  BY DEF Results
<1>4. Ok(reply, exit, altered) \in BOOLEAN
  BY DEF Ok
<1>5. r \in PhaseRecord
  BY <1>1, <1>2, <1>3, <1>4 DEF PhaseRecord, AnyClaim
<1> QED
  BY <1>1, <1>3, <1>4, <1>5 DEF Ok

\* What is the same in every phase.
LEMMA PhaseEnds ==
  ASSUME IInv, pc = "running", NEW r \in Results, Finish(r),
         pc' \in {"ready", "probing", "sealing", "controller_error"},
         pc' # "controller_error" => r.ok /\ r.claim \notin Bad,
         pc' = "ready" => Len(evidence) + 1 < Len(Chain)
  PROVE  /\ TypeOK' /\ ReportIs' /\ Loaded' /\ PhasesKept' /\ Decided'
         /\ evidence' \in Seq(PhaseRecord) /\ Len(evidence') = Len(evidence) + 1
         /\ \A n \in 1..Len(evidence) : evidence'[n] = evidence[n]
         /\ evidence'[Len(evidence) + 1] = r
         /\ Chain' = Chain /\ K' = K /\ Asm' = Asm /\ receipt' = receipt
<1>1. /\ evidence' = Append(evidence, r) /\ UNCHANGED <<contract, report, receipt, altered>>
  BY DEF Finish
<1>2. /\ r \in PhaseRecord /\ r.op = Chain[Len(evidence) + 1] /\ r.saw = altered
      /\ Len(evidence) + 1 \in 1..Len(Chain)
      /\ r.ok => r.reply = "passed" /\ r.exit = "clean" /\ r.claim \in Claims(Chain[Len(evidence) + 1])
  BY ResultFacts
<1>3. /\ evidence \in Seq(PhaseRecord) /\ Len(evidence) \in Nat
      /\ evidence' \in Seq(PhaseRecord) /\ Len(evidence') = Len(evidence) + 1
      /\ \A n \in 1..Len(evidence) : evidence'[n] = evidence[n]
      /\ evidence'[Len(evidence) + 1] = r
  BY <1>1, <1>2, RunningFacts
<1>4. Asm' = Asm /\ Binary' = Binary
  BY <1>1 DEF Asm, Binary
<1>5. Chain' = Chain /\ K' = K /\ \A n : Claims(n)' = Claims(n)
  BY <1>4 DEF Chain, K, Claims, GivesCases
<1>6. TypeOK'
  BY <1>1, <1>2, <1>3, <1>5 DEF IInv, TypeOK, Ended
<1>7. ReportIs' /\ Loaded'
  BY <1>1 DEF IInv, ReportIs, Loaded
<1>8. PhasesKept'
  <2>1. \A n \in 1..Len(evidence') : n \in 1..Len(evidence) \/ n = Len(evidence) + 1
    BY <1>3
  <2>2. ASSUME NEW n \in 1..Len(evidence')
        PROVE  /\ evidence'[n].op = Chain[n]
               /\ evidence'[n].saw \subseteq altered
               /\ evidence'[n].ok =>
                    /\ evidence'[n].reply = "passed" /\ evidence'[n].exit = "clean"
                    /\ evidence'[n].claim \in Claims(Chain[n])
    BY <1>2, <1>3, <2>1 DEF IInv, PhasesKept
  <2>3. ASSUME pc' \in Alive, NEW n \in 1..Len(evidence')
        PROVE  evidence'[n].ok /\ evidence'[n].claim \notin Bad
    BY <1>3, <2>1, <2>3 DEF IInv, PhasesKept, Alive
  <2>4. \A n \in 1..Len(evidence') : Claims(Chain[n])' = Claims(Chain[n])
    BY <1>4, <1>5 DEF Claims, GivesCases
  <2>5. Alive' = Alive /\ Bad' = Bad
    BY DEF Alive, Bad
  <2> QED
    BY <1>1, <1>5, <2>2, <2>3, <2>4, <2>5 DEF PhasesKept
<1>9. Decided'
  BY DEF Decided, ReadyReportIsTaken, BaselineIsEarned, RefusedOnlyForCause
<1> QED
  BY <1>1, <1>3, <1>5, <1>4, <1>6, <1>7, <1>8, <1>9

LEMMA PrepareStep ==
  ASSUME IInv, pc = "running", NEW r \in Results, NEW wellFormed \in BOOLEAN,
         Prepare(r, wellFormed)
  PROVE  IInv'
<1> DEFINE n == Len(evidence) + 1
<1>1. /\ Finish(r) /\ Phase \notin {"benchmark", "profile"} /\ r.op = Chain[n]
      /\ pc' = IF Passes(r, wellFormed) THEN AfterPhase(r.op) ELSE "controller_error"
      /\ Passes(r, wellFormed) => r.ok /\ r.claim \notin Bad
  BY ResultFacts DEF Prepare, Proceed, Passes, Bad, Phase
<1>2. /\ n \in 1..Len(Chain) /\ Chain[n] = Phase /\ K \in {1, 4, 7} /\ contract \in Contract
      /\ Len(evidence) \in Nat /\ Len(Chain) >= K + 1 /\ n = Len(evidence) + 1
  BY RunningFacts DEF Phase
<1> HIDE DEF n
<1>3. /\ GivesCases(Chain[n]) <=> n = K
      /\ n # K + 1 /\ n # K + 2
  BY <1>1, <1>2, ChainFacts
<1>4. n <= K
  BY <1>2, <1>3, RunningFacts
<1>5. /\ pc' \in {"ready", "probing", "controller_error"}
      /\ pc' = "ready" => n < K
      /\ pc' = "probing" => n = K
      /\ pc' # "controller_error" => r.ok /\ r.claim \notin Bad
  <2>1. n = K \/ n < K
    BY <1>2, <1>4
  <2> QED
    BY <1>1, <1>3, <2>1 DEF AfterPhase
<1>6. pc' = "ready" => Len(evidence) + 1 < Len(Chain)
  <2>1. pc' = "ready" => n < Len(Chain)
    BY <1>2, <1>5, RunningFacts
  <2> QED
    BY <1>2, <2>1
<1>7. /\ TypeOK' /\ ReportIs' /\ Loaded' /\ PhasesKept' /\ Decided'
      /\ Len(evidence') = n /\ Chain' = Chain /\ K' = K /\ receipt' = receipt
  <2>1. pc' \in {"ready", "probing", "sealing", "controller_error"}
    BY <1>5
  <2> QED
    BY <1>1, <1>2, <1>5, <1>6, <2>1, PhaseEnds
<1>8. receipt = <<>>
  <2>1. ~(Len(evidence) >= K)
    BY <1>2, <1>4
  <2> QED
    BY <2>1 DEF IInv, ReceiptKept, Alive
<1>9. PlaceKept' /\ ReceiptKept'
  BY <1>4, <1>5, <1>7, <1>8 DEF PlaceKept, ReceiptKept
<1> QED
  BY <1>7, <1>9 DEF IInv

LEMMA TimedFacts ==
  ASSUME IInv, pc = "running", Len(evidence) >= K
  PROVE  receipt = SubSeq(evidence, 1, K) /\ evidence[K].claim = "passed"
         /\ (Len(evidence) > K => evidence[K + 1].claim = "stable")
<1>1. ~(Len(evidence) < K)
  BY RunningFacts
<1> QED
  BY <1>1 DEF IInv, ReceiptKept, Alive

LEMMA BenchmarkStep ==
  ASSUME IInv, pc = "running", NEW r \in Results, Benchmark(r)
  PROVE  IInv'
<1>1. /\ Finish(r) /\ Phase = "benchmark"
      /\ pc' \in {AfterBenchmark, "controller_error"}
      /\ pc' # "controller_error" => r.ok /\ r.claim = "stable"
  BY DEF Benchmark, Proceed, AfterBenchmark
<1>2. /\ K \in {1, 4, 7} /\ contract \in Contract /\ Len(evidence) \in Nat
      /\ Len(Chain) = IF Asm THEN K + 2 ELSE K + 1
      /\ Len(evidence) + 1 \in 1..Len(Chain) /\ Chain[Len(evidence) + 1] = "benchmark"
  BY <1>1, RunningFacts, ResultFacts
<1>3. Len(evidence) = K
  <2>1. Len(evidence) + 1 = K + 1
    BY <1>2, ChainFacts
  <2> QED
    BY <1>2, <2>1
<1>4. /\ pc' \in {"ready", "sealing", "controller_error"}
      /\ pc' = "ready" => Asm
      /\ pc' = "sealing" => ~Asm
  BY <1>1 DEF AfterBenchmark
<1>5. pc' = "ready" => Len(evidence) + 1 < Len(Chain)
  BY <1>2, <1>3, <1>4
<1>6. /\ TypeOK' /\ ReportIs' /\ Loaded' /\ PhasesKept' /\ Decided'
      /\ evidence' \in Seq(PhaseRecord) /\ Len(evidence') = K + 1
      /\ \A n \in 1..Len(evidence) : evidence'[n] = evidence[n]
      /\ evidence'[K + 1] = r
      /\ Chain' = Chain /\ K' = K /\ receipt' = receipt
  <2>1. /\ pc' \in {"ready", "probing", "sealing", "controller_error"}
        /\ pc' # "controller_error" => r.ok /\ r.claim \notin Bad
    BY <1>1, <1>4 DEF Bad
  <2> QED
    BY <1>1, <1>3, <1>5, <2>1, PhaseEnds
<1>7. receipt = SubSeq(evidence, 1, K) /\ evidence[K].claim = "passed"
  BY <1>2, <1>3, TimedFacts
<1>8. SubSeq(evidence', 1, K) = SubSeq(evidence, 1, K) /\ evidence'[K] = evidence[K]
  BY <1>2, <1>3, <1>6, RunningFacts
<1>9. PlaceKept'
  BY <1>2, <1>4, <1>6 DEF PlaceKept
<1>10. ReceiptKept'
  <2> SUFFICES ASSUME pc' \in Alive PROVE ReceiptKept'
    BY DEF ReceiptKept, Alive
  <2>1. pc' \in {"ready", "sealing"} /\ r.claim = "stable"
    BY <1>1, <1>4 DEF Alive
  <2>2. Len(evidence') >= K'
    BY <1>2, <1>6
  <2> QED
    BY <1>6, <1>7, <1>8, <2>1, <2>2 DEF ReceiptKept
<1> QED
  BY <1>6, <1>9, <1>10 DEF IInv

LEMMA ProfileStep ==
  ASSUME IInv, pc = "running", NEW r \in Results, NEW wellFormed \in BOOLEAN,
         ProfileOriginal(r, wellFormed)
  PROVE  IInv'
<1>1. /\ Finish(r) /\ Phase = "profile"
      /\ pc' \in {"sealing", "controller_error"}
      /\ pc' # "controller_error" => r.ok /\ r.claim \notin Bad
  BY DEF ProfileOriginal, Proceed, Passes, Bad
<1>2. /\ K \in {1, 4, 7} /\ contract \in Contract /\ Len(evidence) \in Nat
      /\ Len(Chain) = IF Asm THEN K + 2 ELSE K + 1
      /\ Len(evidence) + 1 \in 1..Len(Chain) /\ Chain[Len(evidence) + 1] = "profile"
  BY <1>1, RunningFacts, ResultFacts
<1>3. Len(evidence) = K + 1
  <2>1. Len(evidence) + 1 = K + 2
    BY <1>2, ChainFacts
  <2> QED
    BY <1>2, <2>1
<1>4. Len(Chain) = K + 2
  <2>1. Len(evidence) < Len(Chain)
    BY RunningFacts
  <2> QED
    BY <1>2, <1>3, <2>1
<1>5. /\ TypeOK' /\ ReportIs' /\ Loaded' /\ PhasesKept' /\ Decided'
      /\ evidence' \in Seq(PhaseRecord) /\ Len(evidence') = Len(evidence) + 1
      /\ \A n \in 1..Len(evidence) : evidence'[n] = evidence[n]
      /\ Chain' = Chain /\ K' = K /\ receipt' = receipt
  <2>1. pc' \in {"ready", "probing", "sealing", "controller_error"} /\ pc' # "ready"
    BY <1>1
  <2> QED
    BY <1>1, <2>1, PhaseEnds
<1>6. receipt = SubSeq(evidence, 1, K) /\ evidence[K].claim = "passed"
      /\ evidence[K + 1].claim = "stable"
  BY <1>2, <1>3, TimedFacts
<1>7. SubSeq(evidence', 1, K) = SubSeq(evidence, 1, K) /\ evidence'[K] = evidence[K]
      /\ evidence'[K + 1] = evidence[K + 1]
  BY <1>2, <1>3, <1>5, RunningFacts
<1>8. PlaceKept'
  <2>1. Len(evidence') = Len(Chain)
    BY <1>2, <1>3, <1>4, <1>5
  <2> QED
    BY <1>1, <1>5, <2>1 DEF PlaceKept
<1>9. ReceiptKept'
  <2> SUFFICES ASSUME pc' \in Alive PROVE ReceiptKept'
    BY DEF ReceiptKept, Alive
  <2>1. pc' = "sealing"
    BY <1>1 DEF Alive
  <2>2. Len(evidence') >= K'
    BY <1>2, <1>3, <1>5
  <2> QED
    BY <1>5, <1>6, <1>7, <2>1, <2>2 DEF ReceiptKept
<1> QED
  BY <1>5, <1>8, <1>9 DEF IInv

---------------------------------------------------------------------------
(* The steps between the phases.                                           *)

\* What is the same in all of them.
LEMMA Between ==
  ASSUME IInv, UNCHANGED <<contract, report, evidence>>, pc \in Alive, pc' \in Alive \cup Ended,
         altered \subseteq altered', altered' \subseteq File, receipt' \in Seq(PhaseRecord),
         pc' \in {"ready", "running"} => Len(evidence) < Len(Chain),
         pc' \notin {"starting", "not_loaded"} => ReportFits(report, contract)
  PROVE  /\ TypeOK' /\ ReportIs' /\ Loaded' /\ PhasesKept'
         /\ Chain' = Chain /\ K' = K /\ Asm' = Asm
<1>1. Asm' = Asm /\ Binary' = Binary
  BY DEF Asm, Binary
<1>2. Chain' = Chain /\ K' = K
  BY <1>1 DEF Chain, K
<1>3. TypeOK'
  BY <1>2 DEF IInv, TypeOK, Alive, Ended
<1>4. ReportIs' /\ Loaded'
  BY DEF IInv, ReportIs, Loaded
<1>5. PhasesKept'
  <2>1. \A n : Claims(Chain[n])' = Claims(Chain[n])
    BY <1>1, <1>2 DEF Claims, GivesCases
  <2>2. Alive' = Alive /\ Bad' = Bad
    BY DEF Alive, Bad
  <2>3. \A n \in 1..Len(evidence) : evidence[n].saw \subseteq altered'
    BY DEF IInv, PhasesKept
  <2> QED
    BY <1>2, <2>1, <2>2, <2>3 DEF IInv, PhasesKept
<1> QED
  BY <1>1, <1>2, <1>3, <1>4, <1>5

\* A report that says ready, for this contract, is one that lineage takes.
LEMMA ReadyIsFit ==
  ASSUME ReportIs, contract \in Contract, report.ready,
         report.mode = contract.mode, report.surface = contract.surface
  PROVE  ReportFits(report, contract)
<1>1. PICK a \in Ask, absent \in Installations : report = Report(a, absent)
  BY DEF ReportIs
<1>2. report.mode = a.mode /\ report.surface = a.surface
  BY <1>1 DEF Report
<1>3. a = contract
  <2>1. /\ a = [mode |-> a.mode, surface |-> a.surface]
        /\ contract = [mode |-> contract.mode, surface |-> contract.surface]
    BY ContractFacts DEF Ask
  <2> QED
    BY <1>2, <2>1
<1>4. Ready(contract, absent) /\ contract.mode # "audit"
  BY <1>1, <1>3, ContractFacts DEF Report
<1>5. /\ <<"host", "artifact">> \notin absent /\ <<"host", "gpu">> \notin absent
      /\ \A o \in RequiredCapabilities(contract) : <<"adapter", o>> \notin absent
      /\ RequiredFeatures(contract) \subseteq Features(absent)
  BY <1>4 DEF Ready
<1>6. RequiredCapabilities(contract) \subseteq Operation
  BY ContractFacts DEF RequiredCapabilities, Operation, Ask, NoSurface
<1> QED
  BY <1>1, <1>3, <1>5, <1>6 DEF Report, ReportFits, ExpectedSchema

LEMMA LoadStep == ASSUME IInv, LoadContext PROVE IInv'
<1>1. /\ pc = "starting" /\ pc \in Alive /\ UNCHANGED <<contract, report, evidence, receipt, altered>>
      /\ pc' = IF ReportFits(report, contract) /\ Unaltered({"frozen", "adapter"})
               THEN "ready" ELSE "not_loaded"
      /\ Len(evidence) = 0 /\ evidence = <<>> /\ K \in {1, 4, 7} /\ contract \in Contract
  BY RunningFacts DEF LoadContext, Alive, IInv, PlaceKept
<1>2. receipt = <<>>
  BY <1>1 DEF IInv, ReceiptKept
<1>3. TypeOK' /\ ReportIs' /\ Loaded' /\ PhasesKept' /\ K' = K
  <2>1. /\ pc' \in Alive \cup Ended /\ Len(evidence) < Len(Chain)
        /\ pc' \notin {"starting", "not_loaded"} => ReportFits(report, contract)
        /\ receipt' \in Seq(PhaseRecord) /\ altered' \subseteq File
    BY <1>1, RunningFacts DEF Alive, Ended, IInv, TypeOK
  <2> QED
    BY <1>1, <2>1, Between
<1>4. PlaceKept' /\ ReceiptKept'
  BY <1>1, <1>2, <1>3 DEF PlaceKept, ReceiptKept
<1>5. Decided'
  <2>1. ReadyReportIsTaken'
    <3> SUFFICES ASSUME pc' = "not_loaded", altered' = {}, report'.ready,
                        report'.mode = contract'.mode, report'.surface = contract'.surface
                 PROVE  FALSE
      BY DEF ReadyReportIsTaken
    <3>1. Unaltered({"frozen", "adapter"})
      BY <1>1 DEF Unaltered
    <3>2. ReportFits(report, contract)
      BY <1>1, ReadyIsFit DEF IInv
    <3> QED
      BY <1>1, <3>1, <3>2
  <2>2. BaselineIsEarned' /\ RefusedOnlyForCause'
    BY <1>1 DEF BaselineIsEarned, RefusedOnlyForCause
  <2> QED
    BY <2>1, <2>2 DEF Decided
<1> QED
  BY <1>3, <1>4, <1>5 DEF IInv

LEMMA InvokeStep == ASSUME IInv, Invoke PROVE IInv'
<1>1. /\ pc = "ready" /\ pc \in Alive /\ UNCHANGED <<contract, report, evidence, receipt, altered>>
      /\ pc' \in {"running", "controller_error"}
  BY DEF Invoke, Proceed, Alive
<1>2. TypeOK' /\ ReportIs' /\ Loaded' /\ PhasesKept' /\ Chain' = Chain /\ K' = K
  <2>1. /\ pc' \in Alive \cup Ended /\ Len(evidence) < Len(Chain)
        /\ ReportFits(report, contract)
        /\ receipt' \in Seq(PhaseRecord) /\ altered' \subseteq File
    BY <1>1, RunningFacts DEF Alive, Ended, IInv, TypeOK, Loaded
  <2> QED
    BY <1>1, <2>1, Between
<1>3. PlaceKept' /\ ReceiptKept'
  BY <1>1, <1>2 DEF IInv, PlaceKept, ReceiptKept, Alive
<1>4. Decided'
  BY <1>1 DEF Decided, ReadyReportIsTaken, BaselineIsEarned, RefusedOnlyForCause
<1> QED
  BY <1>2, <1>3, <1>4 DEF IInv

LEMMA ProbeStep == ASSUME IInv, Probe PROVE IInv'
<1>1. /\ pc = "probing" /\ pc \in Alive /\ UNCHANGED <<contract, report, evidence, receipt, altered>>
      /\ pc' \in {"authorizing", "controller_error"}
      /\ pc' = "authorizing" => evidence[Len(evidence)].claim = "passed"
      /\ Len(evidence) = K
  BY DEF Probe, Proceed, Alive, IInv, PlaceKept
<1>2. receipt = <<>>
  BY <1>1 DEF IInv, ReceiptKept
<1>3. TypeOK' /\ ReportIs' /\ Loaded' /\ PhasesKept' /\ K' = K
  <2>1. /\ pc' \in Alive \cup Ended /\ pc' \notin {"ready", "running"}
        /\ ReportFits(report, contract)
        /\ receipt' \in Seq(PhaseRecord) /\ altered' \subseteq File
    BY <1>1 DEF Alive, Ended, IInv, TypeOK, Loaded
  <2> QED
    BY <1>1, <2>1, Between
<1>4. PlaceKept' /\ ReceiptKept'
  <2>1. Len(evidence) <= K
    BY <1>1, RunningFacts
  <2> QED
    BY <1>1, <1>2, <1>3, <2>1 DEF PlaceKept, ReceiptKept
<1>5. Decided'
  BY <1>1 DEF Decided, ReadyReportIsTaken, BaselineIsEarned, RefusedOnlyForCause
<1> QED
  BY <1>3, <1>4, <1>5 DEF IInv

LEMMA ReceiptStep == ASSUME IInv, IssueReceipt PROVE IInv'
<1>1. /\ pc = "authorizing" /\ pc \in Alive /\ UNCHANGED <<contract, report, evidence, altered>>
      /\ pc' \in {"ready", "controller_error"} /\ receipt' = evidence
      /\ Len(evidence) = K /\ evidence[K].claim = "passed"
  BY DEF IssueReceipt, Proceed, Alive, IInv, PlaceKept
<1>2. /\ evidence \in Seq(PhaseRecord) /\ K \in {1, 4, 7}
      /\ Len(evidence) < Len(Chain) /\ Len(evidence) >= K /\ ~(Len(evidence) > K)
  BY <1>1, RunningFacts
<1>3. SubSeq(evidence, 1, K) = evidence
  BY <1>1, <1>2
<1>4. TypeOK' /\ ReportIs' /\ Loaded' /\ PhasesKept' /\ K' = K
  <2>1. /\ pc' \in Alive \cup Ended /\ ReportFits(report, contract) /\ altered' \subseteq File
    BY <1>1 DEF Alive, Ended, IInv, TypeOK, Loaded
  <2> QED
    BY <1>1, <1>2, <2>1, Between
<1>5. PlaceKept' /\ ReceiptKept'
  BY <1>1, <1>2, <1>3, <1>4 DEF PlaceKept, ReceiptKept, Alive
<1>6. Decided'
  BY <1>1 DEF Decided, ReadyReportIsTaken, BaselineIsEarned, RefusedOnlyForCause
<1> QED
  BY <1>4, <1>5, <1>6 DEF IInv

LEMMA AlterStep == ASSUME IInv, NEW f \in Alterable, Alter(f) PROVE IInv'
<1>1. /\ pc \notin Ended /\ pc' = pc /\ UNCHANGED <<contract, report, evidence, receipt>>
      /\ altered' = altered \cup {f}
  BY DEF Alter
<1>2. pc \in Alive
  BY <1>1 DEF IInv, TypeOK, Alive
<1>3. TypeOK' /\ ReportIs' /\ Loaded' /\ PhasesKept' /\ Chain' = Chain /\ K' = K
  <2>1. /\ pc' \in Alive \cup Ended /\ altered \subseteq altered' /\ altered' \subseteq File
        /\ receipt' \in Seq(PhaseRecord)
        /\ pc' \in {"ready", "running"} => Len(evidence) < Len(Chain)
        /\ pc' \notin {"starting", "not_loaded"} => ReportFits(report, contract)
    BY <1>1, <1>2, AlterableAssumption DEF IInv, TypeOK, Loaded
  <2> QED
    BY <1>1, <1>2, <2>1, Between
<1>4. PlaceKept' /\ ReceiptKept'
  BY <1>1, <1>3 DEF IInv, PlaceKept, ReceiptKept, Alive
<1>5. Decided'
  BY <1>1 DEF Decided, ReadyReportIsTaken, BaselineIsEarned, RefusedOnlyForCause, Ended
<1> QED
  BY <1>3, <1>4, <1>5 DEF IInv

---------------------------------------------------------------------------
(* lineage.initialize decides.                                             *)

\* What the controller submits is what lineage expects.
LEMMA SubmissionHolds ==
  ASSUME IInv, pc = "sealing"
  PROVE  /\ ReceiptHolds
         /\ [i \in DOMAIN evidence |-> evidence[i].op] = Chain
         /\ \A i \in DOMAIN evidence :
              /\ evidence[i].ok /\ evidence[i].saw \subseteq altered
              /\ evidence[i].claim \in {"none", "code_object", "consistent", "passed", "stable"}
<1>1. /\ Len(evidence) = Len(Chain) /\ DOMAIN evidence = 1..Len(Chain) /\ contract \in Contract
      /\ K \in {1, 4, 7} /\ Len(Chain) = IF Asm THEN K + 2 ELSE K + 1
      /\ evidence \in Seq(PhaseRecord) /\ Len(evidence) \in Nat
  BY RunningFacts DEF IInv, PlaceKept
<1>2. \A n \in 1..Len(Chain) :
        /\ evidence[n].op = Chain[n] /\ evidence[n].saw \subseteq altered
        /\ evidence[n].ok /\ evidence[n].reply = "passed" /\ evidence[n].exit = "clean"
        /\ evidence[n].claim \in Claims(Chain[n]) /\ evidence[n].claim \notin Bad
  BY <1>1 DEF IInv, PhasesKept, Alive
<1>3. /\ receipt = SubSeq(evidence, 1, K) /\ evidence[K].claim = "passed"
      /\ evidence[K + 1].claim = "stable"
  <2>1. Len(evidence) > K /\ ~(Len(evidence) <= K)
    BY <1>1
  <2> QED
    BY <2>1 DEF IInv, ReceiptKept, Alive
<1>4. [i \in DOMAIN evidence |-> evidence[i].op] = Chain
  <2>1. Chain = [n \in 1..Len(Chain) |-> Chain[n]]
    BY <1>1, ChainFacts
  <2>2. [i \in DOMAIN evidence |-> evidence[i].op] = [n \in 1..Len(Chain) |-> Chain[n]]
    BY <1>1, <1>2
  <2> QED
    BY <2>1, <2>2
<1>5. CorrectnessPhases = K
  <2>1. CASE Asm
    BY <1>1, <2>1, ChainFacts DEF CorrectnessPhases
  <2>2. CASE ~Asm
    BY <1>1, <2>2 DEF CorrectnessPhases
  <2> QED
    BY <2>1, <2>2
<1>6. ASSUME Asm PROVE evidence[1].claim = "code_object" /\ evidence[2].claim = "consistent"
  <2>1. 1 \in 1..Len(Chain) /\ 2 \in 1..Len(Chain)
    BY <1>1, <1>6, ChainFacts
  <2>2. /\ Claims(Chain[1]) = {"code_object", "other"}
        /\ Claims(Chain[2]) = {"consistent", "inconsistent"}
    BY <1>1, <1>6, <2>1, ClaimFacts
  <2> QED
    BY <1>2, <2>1, <2>2 DEF Bad
<1>7. \A i \in DOMAIN evidence : Agrees(evidence[i])
  BY <1>1, <1>2 DEF Agrees
<1>8. ReceiptHolds
  BY <1>1, <1>2, <1>3, <1>4, <1>5, <1>6, <1>7, ChainFacts DEF ReceiptHolds
<1>9. ASSUME NEW n \in 1..Len(Chain)
      PROVE  evidence[n].claim \in {"none", "code_object", "consistent", "passed", "stable"}
  <2>1. CASE n = K
    BY <1>3, <2>1
  <2>2. CASE n = K + 1
    BY <1>3, <2>2
  <2>3. CASE n # K /\ n # K + 1
    <3>1. Claims(Chain[n]) \subseteq {"code_object", "other", "consistent", "inconsistent", "none"}
      BY <1>1, <2>3, ClaimFacts
    <3> QED
      BY <1>2, <3>1 DEF Bad
  <2> QED
    BY <2>1, <2>2, <2>3
<1> QED
  BY <1>1, <1>2, <1>4, <1>8, <1>9

LEMMA InitializeStep == ASSUME IInv, Initialize PROVE IInv'
<1>1. /\ pc = "sealing" /\ pc \in Alive /\ UNCHANGED <<contract, report, evidence, receipt, altered>>
      /\ pc' = IF ReportFits(report, contract) /\ ReceiptHolds /\ Unaltered(Rehashed)
               THEN "initialized" ELSE "refused"
      /\ ReportFits(report, contract) /\ ReceiptHolds /\ altered \subseteq File
  BY SubmissionHolds DEF Initialize, Alive, IInv, Loaded, TypeOK
<1>2. pc' = IF altered = {} THEN "initialized" ELSE "refused"
  <2>1. Rehashed = File
    BY DEF Rehashed, RehashedOutputs, File
  <2>2. Unaltered(Rehashed) <=> altered = {}
    BY <1>1, <2>1 DEF Unaltered
  <2> QED
    BY <1>1, <2>2
<1>3. TypeOK' /\ ReportIs' /\ Loaded' /\ PhasesKept' /\ Chain' = Chain
  <2>1. /\ pc' \in Alive \cup Ended /\ pc' \notin {"ready", "running"}
        /\ receipt' \in Seq(PhaseRecord) /\ altered' \subseteq File
    BY <1>1, <1>2 DEF Ended, IInv, TypeOK
  <2> QED
    BY <1>1, <2>1, Between
<1>4. PlaceKept' /\ ReceiptKept'
  <2>1. pc' \notin Alive
    BY <1>2 DEF Alive
  <2> QED
    BY <1>2, <2>1 DEF PlaceKept, ReceiptKept, Alive
<1>5. Decided'
  <2>1. BaselineIsEarned'
    <3> SUFFICES ASSUME pc' = "initialized" PROVE BaselineIsEarned'
      BY DEF BaselineIsEarned
    <3>1. altered = {}
      BY <1>2
    <3>2. /\ [i \in DOMAIN evidence |-> evidence[i].op] = Chain
          /\ \A i \in DOMAIN evidence :
               /\ evidence[i].ok /\ evidence[i].saw = {}
               /\ evidence[i].claim \in {"none", "code_object", "consistent", "passed", "stable"}
      BY <1>1, <3>1, SubmissionHolds
    <3>3. report.ready /\ report.gpu /\ report.artifact
      BY <1>1 DEF ReportFits
    <3> QED
      BY <1>1, <1>3, <3>2, <3>3 DEF BaselineIsEarned
  <2>2. ReadyReportIsTaken' /\ RefusedOnlyForCause'
    BY <1>1, <1>2 DEF ReadyReportIsTaken, RefusedOnlyForCause
  <2> QED
    BY <2>1, <2>2 DEF Decided
<1> QED
  BY <1>3, <1>4, <1>5 DEF IInv

---------------------------------------------------------------------------

LEMMA StepKeeps == IInv /\ [Next]_vars => IInv'
<1> SUFFICES ASSUME IInv, [Next]_vars PROVE IInv'
  OBVIOUS
<1>1. CASE LoadContext
  BY <1>1, LoadStep
<1>2. CASE Invoke
  BY <1>2, InvokeStep
<1>3. CASE Probe
  BY <1>3, ProbeStep
<1>4. CASE IssueReceipt
  BY <1>4, ReceiptStep
<1>5. CASE Initialize
  BY <1>5, InitializeStep
<1>6. CASE pc = "running" /\ \E r \in Results, wellFormed \in BOOLEAN :
             Prepare(r, wellFormed) \/ Benchmark(r) \/ ProfileOriginal(r, wellFormed)
  BY <1>6, PrepareStep, BenchmarkStep, ProfileStep
<1>7. CASE \E f \in Alterable : Alter(f)
  BY <1>7, AlterStep
<1>8. CASE UNCHANGED vars
  <2>1. UNCHANGED <<contract, report, pc, evidence, receipt, altered>>
    BY <1>8 DEF vars
  <2>2. Asm' = Asm /\ Binary' = Binary
    BY <2>1 DEF Asm, Binary
  <2>3. Chain' = Chain /\ K' = K
    BY <2>2 DEF Chain, K
  <2>4. \A n : Claims(Chain[n])' = Claims(Chain[n])
    BY <2>2, <2>3 DEF Claims, GivesCases
  <2>5. TypeOK' /\ ReportIs' /\ Loaded' /\ PlaceKept' /\ ReceiptKept'
    BY <2>1, <2>2, <2>3
       DEF IInv, TypeOK, ReportIs, Loaded, PlaceKept, ReceiptKept, Alive, Ended
  <2>6. PhasesKept'
    BY <2>1, <2>3, <2>4 DEF IInv, PhasesKept, Alive, Bad
  <2>7. Decided'
    BY <2>1, <2>3
       DEF IInv, Decided, ReadyReportIsTaken, BaselineIsEarned, RefusedOnlyForCause
  <2> QED
    BY <2>5, <2>6, <2>7 DEF IInv
<1> QED
  BY <1>1, <1>2, <1>3, <1>4, <1>5, <1>6, <1>7, <1>8 DEF Next, Step

LEMMA Invariant == Spec => []IInv
  BY InitHolds, StepKeeps, PTL DEF Spec

LEMMA EnoughAdapters == IInv => AdaptersSuffice
<1> SUFFICES ASSUME IInv, pc \notin {"starting", "not_loaded"}
             PROVE  /\ \A i \in DOMAIN Chain : Chain[i] \in report.provided
                    /\ \A i \in DOMAIN FullChain[SurfaceOf(contract)] :
                         FullChain[SurfaceOf(contract)][i] \in report.provided
  BY DEF AdaptersSuffice
<1>1. RequiredCapabilities(contract) \subseteq report.provided /\ contract \in Contract
  BY DEF IInv, Loaded, ReportFits, TypeOK
<1>2. /\ contract \in Ask /\ contract.mode \in {"source", "binary"} /\ ~(Binary /\ Asm)
  BY <1>1, ContractFacts
<1>3. CASE Binary
  <2>1. {"recover", "roundtrip", "rebuild", "static_check", "oracle", "replay", "compare",
         "benchmark"} \subseteq RequiredCapabilities(contract)
    BY <1>2, <1>3 DEF Binary, Asm, Ask, NoSurface, RequiredCapabilities, Operation
  <2>2. SurfaceOf(contract) = "binary"
    BY <1>3 DEF SurfaceOf, Binary
  <2> QED
    BY <1>1, <1>3, <2>1, <2>2 DEF Chain, FullChain
<1>4. CASE Asm
  <2>1. RequiredCapabilities(contract) = {"build", "disassemble", "static_check", "native_load",
                                          "oracle", "profile", "benchmark"}
    BY <1>2, <1>4 DEF Asm, NoSurface, RequiredCapabilities
  <2>2. SurfaceOf(contract) = "amdgcn_assembly" /\ ~Binary
    BY <1>2, <1>4 DEF SurfaceOf, Binary, Asm
  <2> QED
    BY <1>1, <1>4, <2>1, <2>2 DEF Chain, FullChain
<1>5. CASE ~Binary /\ ~Asm
  <2>1. RequiredCapabilities(contract) = {"build", "oracle", "benchmark"}
    BY <1>2, <1>5 DEF Binary, Asm, Ask, NoSurface, RequiredCapabilities
  <2>2. SurfaceOf(contract) = "source"
    BY <1>5 DEF SurfaceOf, Binary, Asm
  <2> QED
    BY <1>1, <1>5, <2>1, <2>2 DEF Chain, FullChain
<1> QED
  BY <1>3, <1>4, <1>5

\* Every variable keeps the type that TypeOK gives it.
THEOREM TypeCorrect == Spec => []TypeOK
<1>1. IInv => TypeOK
  BY DEF IInv
<1> QED
  BY <1>1, Invariant, PTL

\* With a report that the controller takes, no phase of the baseline, nor of
\* any evaluation after it, is without its adapter.
THEOREM AdaptersSufficeAlways == Spec => []AdaptersSuffice
  BY EnoughAdapters, Invariant, PTL

\* What inspect calls ready for a contract, _validate_preflight takes.
THEOREM ReadyReportIsTakenAlways == Spec => []ReadyReportIsTaken
<1>1. IInv => ReadyReportIsTaken
  BY DEF IInv, Decided
<1> QED
  BY <1>1, Invariant, PTL

\* A lineage begins with a K0 that passed every phase of its chain, with no
\* altered byte that an adapter can have read.
THEOREM BaselineIsEarnedAlways == Spec => []BaselineIsEarned
<1>1. IInv => BaselineIsEarned
  BY DEF IInv, Decided
<1> QED
  BY <1>1, Invariant, PTL

\* lineage.initialize turns down what the controller submits only when a
\* file was altered: the chains of the two agree.
THEOREM RefusedOnlyForCauseAlways == Spec => []RefusedOnlyForCause
<1>1. IInv => RefusedOnlyForCause
  BY DEF IInv, Decided
<1> QED
  BY <1>1, Invariant, PTL

---------------------------------------------------------------------------
(* The stages.                                                             *)

\* The stage in terms of the number of phases that ran.
StageFits ==
  /\ Result = IF pc = "initialized" THEN "accepted" ELSE "none"
  /\ pc = "initialized" => StageReached = "judged"
  /\ pc \in Ended \ {"initialized"} => StageReached = "abandoned"
  /\ pc \notin Ended /\ Len(evidence) > K => StageReached = "measured"
  /\ pc \notin Ended /\ ~(Len(evidence) > K) /\ receipt # <<>> => StageReached = "proved"
  /\ pc \notin Ended /\ ~(Len(evidence) > K) /\ receipt = <<>> => StageReached = "unproved"

LEMMA StageOf == IInv => StageFits
<1> SUFFICES ASSUME IInv PROVE StageFits
  OBVIOUS
<1>1. /\ contract \in Contract /\ Len(evidence) \in Nat /\ Len(Chain) \in Nat
      /\ K \in {1, 4, 7} /\ Len(evidence) <= Len(Chain) /\ DOMAIN evidence = 1..Len(evidence)
  BY RunningFacts
<1>2. \A n \in 1..Len(evidence) : n \in 1..Len(Chain) /\ evidence[n].op = Chain[n]
  BY <1>1 DEF IInv, PhasesKept
<1>3. Ran("benchmark") <=> Len(evidence) > K
  <2>1. CASE Len(evidence) > K
    <3>1. K + 1 \in 1..Len(evidence)
      BY <1>1, <2>1
    <3>2. evidence[K + 1].op = "benchmark"
      BY <1>1, <1>2, <3>1, ChainFacts
    <3> QED
      BY <1>1, <2>1, <3>1, <3>2 DEF Ran
  <2>2. CASE ~(Len(evidence) > K)
    <3>1. \A n \in 1..Len(evidence) : n # K + 1
      BY <1>1, <2>2
    <3>2. \A n \in 1..Len(evidence) : Chain[n] # "benchmark"
      BY <1>1, <1>2, <3>1, ChainFacts
    <3> QED
      BY <1>1, <1>2, <2>2, <3>2 DEF Ran
  <2> QED
    BY <2>1, <2>2
<1>4. Result = IF pc = "initialized" THEN "accepted" ELSE "none"
  BY DEF Result
<1>5. CASE pc = "initialized"
  <2>1. StageReached = "judged"
    BY <1>5 DEF StageReached, Ended
  <2> QED
    BY <1>4, <1>5, <2>1 DEF StageFits, Ended
<1>6. CASE pc \in Ended \ {"initialized"}
  <2>1. StageReached = "abandoned"
    BY <1>6 DEF StageReached, Ended
  <2> QED
    BY <1>4, <1>6, <2>1 DEF StageFits
<1>7. CASE pc \notin Ended
  <2>1. pc # "initialized"
    BY <1>7 DEF Ended
  <2>2. CASE Len(evidence) > K
    <3>1. StageReached = "measured"
      BY <1>3, <1>7, <2>1, <2>2 DEF StageReached
    <3> QED
      BY <1>4, <1>7, <2>1, <2>2, <3>1 DEF StageFits
  <2>3. CASE ~(Len(evidence) > K) /\ receipt # <<>>
    <3>1. StageReached = "proved"
      BY <1>3, <1>7, <2>1, <2>3 DEF StageReached
    <3> QED
      BY <1>4, <1>7, <2>1, <2>3, <3>1 DEF StageFits
  <2>4. CASE ~(Len(evidence) > K) /\ receipt = <<>>
    <3>1. StageReached = "unproved"
      BY <1>3, <1>7, <2>1, <2>4 DEF StageReached
    <3> QED
      BY <1>4, <1>7, <2>1, <2>4, <3>1 DEF StageFits
  <2> QED
    BY <2>2, <2>3, <2>4
<1> QED
  BY <1>5, <1>6, <1>7

LEMMA StageOfNext == IInv' => StageFits'
  BY StageOf, PTL

\* A step within a stage.
LEMMA SameStage ==
  ASSUME IInv, IInv', pc \notin Ended, pc' \notin Ended, receipt' = receipt,
         Len(evidence') > K' <=> Len(evidence) > K
  PROVE  UNCHANGED <<StageReached, Result>>
<1>1. StageFits /\ StageFits' /\ pc # "initialized" /\ pc' # "initialized"
  BY StageOf, StageOfNext DEF Ended
<1>2. Result' = Result
  BY <1>1 DEF StageFits
<1>3. pc' \notin Ended'
  BY DEF Ended
<1>4. CASE Len(evidence) > K
  BY <1>1, <1>2, <1>3, <1>4 DEF StageFits
<1>5. CASE ~(Len(evidence) > K) /\ receipt # <<>>
  BY <1>1, <1>2, <1>3, <1>5 DEF StageFits
<1>6. CASE ~(Len(evidence) > K) /\ receipt = <<>>
  BY <1>1, <1>2, <1>3, <1>6 DEF StageFits
<1> QED
  BY <1>4, <1>5, <1>6

\* An initialization that ends without a lineage.
LEMMA GivenUp ==
  ASSUME IInv, IInv', pc \notin Ended, pc' \in Ended \ {"initialized"}
  PROVE  Stages!Abandon
<1>1. StageFits /\ StageFits' /\ pc # "initialized" /\ pc' # "initialized"
  BY StageOf, StageOfNext DEF Ended
<1>2. StageReached' = "abandoned" /\ Result' = Result
  BY <1>1 DEF StageFits, Ended
<1>3. StageReached \in {"unproved", "proved", "measured"}
  BY <1>1 DEF StageFits
<1> QED
  BY <1>2, <1>3 DEF Stages!Abandon

LEMMA StepAdvances ==
  IInv /\ IInv' /\ [Next]_vars => [Stages!StagesNext]_<<StageReached, Result>>
<1> SUFFICES ASSUME IInv, IInv', [Next]_vars
             PROVE  [Stages!StagesNext]_<<StageReached, Result>>
  OBVIOUS
<1>1. /\ StageFits /\ StageFits' /\ K \in {1, 4, 7} /\ Len(evidence) \in Nat
      /\ contract \in Contract
  BY StageOf, StageOfNext, RunningFacts
<1>2. contract' = contract
  BY DEF Next, Step, vars, LoadContext, Invoke, Probe, IssueReceipt, Initialize, Prepare,
         Benchmark, ProfileOriginal, Finish, Alter
<1>3. K' = K
  BY <1>2 DEF K, Binary, Asm
<1>4. CASE pc \notin Ended /\ pc' \in Ended \ {"initialized"}
  BY <1>4, GivenUp DEF Stages!StagesNext
<1>5. CASE UNCHANGED vars
  BY <1>5 DEF vars, StageReached, Result, Ran, Ended
<1>6. CASE pc \notin Ended /\ pc' \notin Ended /\ UNCHANGED <<evidence, receipt>>
  BY <1>3, <1>6, SameStage
<1>7. CASE LoadContext \/ Invoke \/ Probe \/ \E f \in Alterable : Alter(f)
  <2>1. /\ pc \notin Ended /\ UNCHANGED <<evidence, receipt>>
        /\ pc' \notin Ended \/ pc' \in Ended \ {"initialized"}
    BY <1>7 DEF LoadContext, Invoke, Probe, Proceed, Alter, Ended
  <2> QED
    BY <1>4, <1>6, <2>1
<1>8. CASE IssueReceipt
  <2>1. /\ pc = "authorizing" /\ pc \notin Ended /\ evidence' = evidence /\ receipt' = evidence
        /\ pc' \in {"ready", "controller_error"}
    BY <1>8 DEF IssueReceipt, Proceed, Ended
  <2>2. CASE pc' = "controller_error"
    BY <1>4, <2>1, <2>2 DEF Ended
  <2>3. CASE pc' = "ready"
    <3>1. receipt = <<>> /\ Len(evidence) = K
      BY <2>1 DEF IInv, ReceiptKept, PlaceKept, Alive
    <3>2. ~(Len(evidence) > K) /\ receipt' # <<>>
      BY <1>1, <2>1, <3>1
    <3>3. StageReached = "unproved" /\ Result = "none"
      BY <1>1, <2>1, <3>1, <3>2 DEF StageFits
    <3>4. StageReached' = "proved" /\ Result' = "none"
      BY <1>1, <1>3, <2>1, <2>3, <3>2 DEF StageFits, Ended
    <3> QED
      BY <3>3, <3>4 DEF Stages!StagesNext, Stages!Prove
  <2> QED
    BY <2>1, <2>2, <2>3
<1>9. CASE Initialize
  <2>1. /\ pc = "sealing" /\ pc \notin Ended /\ pc' \in {"initialized", "refused"}
    BY <1>9 DEF Initialize, Ended
  <2>2. CASE pc' = "refused"
    BY <1>4, <2>1, <2>2 DEF Ended
  <2>3. CASE pc' = "initialized"
    <3>1. Len(evidence) > K
      <4>1. Len(evidence) = Len(Chain)
        BY <2>1 DEF IInv, PlaceKept
      <4>2. Len(Chain) = IF Asm THEN K + 2 ELSE K + 1
        BY RunningFacts
      <4> QED
        BY <1>1, <4>1, <4>2
    <3>2. StageReached = "measured"
      BY <1>1, <2>1, <3>1 DEF StageFits
    <3>3. StageReached' = "judged" /\ Result' = "accepted"
      BY <1>1, <2>3 DEF StageFits
    <3> QED
      BY <3>2, <3>3 DEF Stages!StagesNext, Stages!Judge, Stages!TimingOutcome
  <2> QED
    BY <2>1, <2>2, <2>3
<1>10. ASSUME pc = "running", NEW r \in Results, NEW wellFormed \in BOOLEAN,
              Prepare(r, wellFormed) \/ Benchmark(r) \/ ProfileOriginal(r, wellFormed)
       PROVE  [Stages!StagesNext]_<<StageReached, Result>>
  <2>1. /\ pc \notin Ended /\ receipt' = receipt /\ evidence' = Append(evidence, r)
        /\ pc' \in {"ready", "probing", "sealing", "controller_error"}
    BY <1>10 DEF Prepare, Benchmark, ProfileOriginal, Finish, Proceed, AfterPhase,
                AfterBenchmark, Ended
  <2>2. /\ Len(evidence') = Len(evidence) + 1
        /\ Len(evidence) + 1 \in 1..Len(Chain) /\ Phase = Chain[Len(evidence) + 1]
    BY <1>10, <2>1, RunningFacts, ResultFacts
  <2>3. CASE pc' = "controller_error"
    BY <1>4, <2>1, <2>3 DEF Ended
  <2>4. CASE pc' # "controller_error" /\ Len(evidence) = K
    <3>1. pc' \notin Ended /\ ~(Len(evidence) > K) /\ Len(evidence') > K'
      BY <1>1, <1>3, <2>1, <2>2, <2>4 DEF Ended
    <3>2. receipt # <<>>
      <4>1. receipt = SubSeq(evidence, 1, K)
        BY <1>1, <1>10, <2>4, TimedFacts
      <4>2. Len(receipt) = K
        BY <1>1, <2>4, <4>1, RunningFacts
      <4> QED
        BY <1>1, <4>2
    <3>3. StageReached = "proved" /\ Result = "none"
      BY <1>1, <2>1, <3>1, <3>2 DEF StageFits, Ended
    <3>4. StageReached' = "measured" /\ Result' = "none"
      BY <1>1, <3>1 DEF StageFits, Ended
    <3> QED
      BY <3>3, <3>4 DEF Stages!StagesNext, Stages!Measure
  <2>5. CASE pc' # "controller_error" /\ Len(evidence) # K
    <3>1. pc' \notin Ended
      BY <2>1, <2>5 DEF Ended
    <3>2. Len(evidence') > K' <=> Len(evidence) > K
      BY <1>1, <1>3, <2>2, <2>5
    <3> QED
      BY <2>1, <3>1, <3>2, SameStage
  <2> QED
    BY <2>3, <2>4, <2>5
<1> QED
  BY <1>5, <1>7, <1>8, <1>9, <1>10 DEF Next, Step

\* initialize_run implements EvaluationStages: K0 is timed only once it is
\* proved correct, and a lineage begins only once it was timed.
THEOREM FollowsTheStagesAlways == Spec => FollowsTheStages
<1>1. Init => Stages!StagesInit
  <2> SUFFICES ASSUME Init PROVE Stages!StagesInit
    OBVIOUS
  <2>1. IInv
    BY InitHolds
  <2>2. pc = "starting" /\ pc \notin Ended /\ receipt = <<>> /\ Len(evidence) = 0
    BY DEF Init, Ended
  <2>3. ~(Len(evidence) > K)
    BY <2>1, <2>2, RunningFacts
  <2>4. StageReached = "unproved" /\ Result = "none"
    BY <2>1, <2>2, <2>3, StageOf DEF StageFits
  <2> QED
    BY <2>4 DEF Stages!StagesInit
<1> QED
  BY <1>1, StepAdvances, Invariant, PTL DEF Spec, FollowsTheStages, Stages!StagesSpec
=============================================================================
