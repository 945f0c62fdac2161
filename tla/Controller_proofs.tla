-------------------------- MODULE Controller_proofs --------------------------
(***************************************************************************)
(* The safety of one evaluation, for any files that may be altered and any *)
(* number of them.  The invariant says, for each place the controller can  *)
(* be at, which phases have run, that all but the last one passed, that    *)
(* the checks and the receipt are what these phases gave, and what the     *)
(* gate would answer.                                                      *)
(***************************************************************************)
EXTENDS Controller, TLAPS

Asm == surface = "amdgcn_assembly"

---------------------------------------------------------------------------
(* The chains.                                                             *)

LEMMA ChainFacts ==
  ASSUME surface \in Surface
  PROVE  /\ PrefixLength \in {2, 5}
         /\ Len(Chain) = IF Asm THEN PrefixLength + 2 ELSE PrefixLength + 1
         /\ \A n \in 1..Len(Chain) : Chain[n] \in Operation
<1>1. CASE surface = "source"
  BY <1>1 DEF Chain, FullChain, PrefixLength, Asm, Operation
<1>2. CASE surface = "binary"
  BY <1>2 DEF Chain, FullChain, PrefixLength, Asm, Operation
<1>3. CASE surface = "amdgcn_assembly"
  BY <1>3 DEF Chain, FullChain, PrefixLength, Asm, Operation
<1> QED
  BY <1>1, <1>2, <1>3 DEF Surface

\* An operation stands at one place of a chain.
LEMMA PlaceOf ==
  ASSUME surface \in Surface, NEW n \in 1..Len(Chain)
  PROVE  /\ Chain[n] = Chain[1] => n = 1
         /\ Chain[n] = "disassemble" => Asm /\ n = 2
         /\ Chain[n] = "static_check" => (Asm /\ n = 3) \/ (surface = "binary" /\ n = 2)
         /\ Chain[n] = "native_load" => Asm /\ n = 4
         /\ Chain[n] = "oracle" /\ surface # "binary" => n = PrefixLength
         /\ Chain[n] = "oracle" /\ surface = "binary" => n = 3
         /\ Chain[n] = "replay" => surface = "binary" /\ n = 4
         /\ Chain[n] = "compare" => surface = "binary" /\ n = PrefixLength
         /\ Chain[n] = "benchmark" <=> n = PrefixLength + 1
         /\ Chain[n] = "profile" <=> n = PrefixLength + 2
<1>1. CASE surface = "source"
  BY <1>1 DEF Chain, FullChain, PrefixLength, Asm
<1>2. CASE surface = "binary"
  BY <1>2 DEF Chain, FullChain, PrefixLength, Asm
<1>3. CASE surface = "amdgcn_assembly"
  BY <1>3 DEF Chain, FullChain, PrefixLength, Asm
<1> QED
  BY <1>1, <1>2, <1>3 DEF Surface

---------------------------------------------------------------------------
(* The invariant.                                                          *)

Busy == {"ready", "running"}

OkAt(phases, n) == Len(phases) >= n /\ phases[n].ok

\* The phases that ran are the chain's, in its order; all but the last one
\* passed, and what passed was answered and ended as it must.
ChainKept ==
  /\ \A n \in 1..Len(evidence) : evidence[n].op = Chain[n]
  /\ pc \in Busy => Len(evidence) < Len(Chain)
  /\ \A n \in 1..Len(evidence) :
       evidence[n].ok => evidence[n].reply = "passed" /\ evidence[n].exit = "clean"
  /\ \A n \in 1..Len(evidence) :
       n < Len(evidence) \/ pc \in Busy \cup {"authorizing"} => evidence[n].ok

\* The checks are what the phases said.
ChecksFollow ==
  /\ checks.build <=> OkAt(evidence, 1)
  /\ Asm => checks.static <=> OkAt(evidence, 3) /\ evidence[3].claim = "consistent"
  /\ surface = "binary" => checks.static <=> OkAt(evidence, 2)
  /\ Asm => checks.diff = IF OkAt(evidence, 2) /\ evidence[2].claim # "unclear"
                          THEN evidence[2].claim ELSE "empty"
  /\ Asm => checks.native <=> OkAt(evidence, 4)
  /\ checks.cases = IF OkAt(evidence, PrefixLength) THEN evidence[PrefixLength].claim
                    ELSE "runtime_failure"
  /\ checks.timing = IF OkAt(evidence, PrefixLength + 1) THEN evidence[PrefixLength + 1].claim
                     ELSE "invalid"
  /\ checks.profile = IF Len(evidence) < PrefixLength + 2 THEN "not attempted"
                      ELSE IF OkAt(evidence, PrefixLength + 2) THEN "passed" ELSE "failed"

\* The candidate passed all that is before the benchmark.
Proved ==
  /\ checks.build /\ StaticPassed(surface, checks) /\ AsmProvenancePassed(surface, checks)
  /\ checks.cases = "passed"
  /\ \A n \in 1..PrefixLength : OkAt(evidence, n)

\* There is a receipt exactly from the authorization on.
ReceiptFollows ==
  \/ /\ receipt = NoReceipt
     /\ Len(evidence) <= PrefixLength
     /\ pc \in Busy => Len(evidence) < PrefixLength
  \/ /\ pc \notin {"opened", "gating", "authorizing"}
     /\ Len(evidence) >= PrefixLength
     /\ receipt.phases = SubSeq(evidence, 1, PrefixLength)
     /\ [receipt.checks EXCEPT !.timing = checks.timing, !.profile = checks.profile] = checks
     /\ Proved

\* Where the controller can be with which phases.
PlaceFollows ==
  /\ pc = "opened" => evidence = <<>>
  /\ Asm /\ Len(evidence) >= 3 /\ (pc \in Busy \/ Len(evidence) > 3) => checks.static
  /\ pc = "gating" =>
       \/ Len(evidence) = PrefixLength
       \/ surface = "binary" /\ Len(evidence) \in 3..5 /\ checks.cases = "runtime_failure"
  /\ pc = "authorizing" => Len(evidence) = PrefixLength /\ Proved
  /\ pc \in Busy /\ Len(evidence) > PrefixLength =>
       Asm /\ evidence[PrefixLength + 1].claim \in Fast

\* What lineage is given.
RecordFollows ==
  pc = "recording" =>
    /\ Len(evidence) >= 1
    /\ IF Len(evidence) <= PrefixLength
       THEN receipt = NoReceipt /\ Submitted \in Rejection /\ Len(evidence) \in RejectedLengths
       ELSE Submitted # "profile_required" /\ (Asm => Submitted # "input_invalid")

\* Which altered bytes a phase can have read.
BytesFollow ==
  /\ \A n \in 1..Len(evidence) : evidence[n].saw \subseteq altered
  /\ "asm_inputs" \in altered => Asm
  /\ Asm => windows = "named"
  /\ ~Asm /\ pc = "recording" /\ Len(evidence) > PrefixLength =>
       \A n \in 1..Len(evidence) : "proposal" \notin evidence[n].saw

\* What was decided.
OutcomeFollows ==
  /\ status # "none" => pc = "recorded"
  /\ AcceptanceIsEarned /\ RefusedOnlyForCause

IInv ==
  /\ TypeOK
  /\ ChainKept /\ ChecksFollow /\ ReceiptFollows /\ PlaceFollows /\ RecordFollows
  /\ BytesFollow /\ OutcomeFollows

LEMMA InitHolds == Init => IInv
<1> SUFFICES ASSUME Init PROVE IInv
  OBVIOUS
<1>1. surface \in Surface /\ evidence = <<>> /\ Len(evidence) = 0 /\ PrefixLength \in {2, 5}
  BY ChainFacts DEF Init
<1>2. TypeOK
  <2>1. Len(evidence) <= Len(Chain)
    BY <1>1, ChainFacts
  <2> QED
    <3>1. NoChecks \in Checks
      BY DEF NoChecks, Checks, Diff, CaseFailure, Timing, Profile
    <3>2. <<>> \in Seq(PhaseRecord)
      OBVIOUS
    <3>3. NoReceipt.phases = <<>> /\ NoReceipt.checks = NoChecks
      BY DEF NoReceipt
    <3> QED
      BY <1>1, <2>1, <3>1, <3>2, <3>3 DEF Init, TypeOK
<1>3. ChainKept /\ ChecksFollow /\ ReceiptFollows /\ PlaceFollows /\ RecordFollows
  <2>1. ~OkAt(evidence, 1) /\ ~OkAt(evidence, 2) /\ ~OkAt(evidence, 3) /\ ~OkAt(evidence, 4)
    BY <1>1 DEF OkAt
  <2>2. ~OkAt(evidence, PrefixLength) /\ ~OkAt(evidence, PrefixLength + 1)
    BY <1>1 DEF OkAt
  <2>3. ChecksFollow
    <3>1. /\ checks.build = FALSE /\ checks.static = FALSE /\ checks.diff = "empty"
          /\ checks.native = FALSE /\ checks.cases = "runtime_failure"
          /\ checks.timing = "invalid" /\ checks.profile = "not attempted"
      BY DEF Init, NoChecks
    <3>2. Len(evidence) < PrefixLength + 2
      BY <1>1
    <3> QED
      BY <2>1, <2>2, <3>1, <3>2 DEF ChecksFollow
  <2>4. ChainKept /\ ReceiptFollows /\ PlaceFollows /\ RecordFollows
    BY <1>1 DEF Init, ChainKept, ReceiptFollows, PlaceFollows, RecordFollows, Busy
  <2> QED
    BY <2>3, <2>4
<1>4. BytesFollow /\ OutcomeFollows
  <2>1. BytesFollow
    BY <1>1 DEF Init, BytesFollow, Asm
  <2>2. OutcomeFollows
    BY <1>1 DEF Init, OutcomeFollows, AcceptanceIsEarned, RefusedOnlyForCause
  <2> QED
    BY <2>1, <2>2
<1> QED
  BY <1>2, <1>3, <1>4 DEF IInv

---------------------------------------------------------------------------
(* One phase ends.                                                         *)

LEMMA ResultFacts ==
  ASSUME TypeOK, Len(evidence) < Len(Chain), NEW r \in Results
  PROVE  /\ r \in PhaseRecord
         /\ r.op = Phase /\ r.saw = altered
         /\ r.ok => r.reply = "passed" /\ r.exit = "clean"
         /\ r.ok => r.claim \in Claims(Phase)
<1>1. Phase \in Operation
  BY ChainFacts DEF TypeOK, Phase
<1>2. Claims(Phase) \subseteq Claim
  BY DEF Claims, Claim
<1>3. PICK reply \in Reply, exit \in Exit, claim \in Claims(Phase) :
        r = [op |-> Phase, ok |-> Ok(reply, exit, altered), reply |-> reply, exit |-> exit,
             claim |-> IF Ok(reply, exit, altered) THEN claim ELSE "none", saw |-> altered]
  BY DEF Results
<1>4. Ok(reply, exit, altered) \in BOOLEAN
  BY DEF Ok
<1>5. "none" \in Claim
  BY DEF Claim
<1>6. r \in PhaseRecord
  BY <1>1, <1>2, <1>3, <1>4, <1>5 DEF PhaseRecord, TypeOK
<1> QED
  BY <1>3, <1>6 DEF Ok

\* What every phase does to the evidence.
LEMMA Grown ==
  ASSUME IInv, pc = "running", NEW r \in Results,
         evidence' = Append(evidence, r), UNCHANGED <<surface, windows, receipt, altered, status>>
  PROVE  /\ evidence' \in Seq(PhaseRecord)
         /\ Len(evidence') = Len(evidence) + 1
         /\ Len(evidence) \in Nat /\ Len(evidence) < Len(Chain)
         /\ \A n \in 1..Len(evidence) : evidence'[n] = evidence[n]
         /\ evidence'[Len(evidence) + 1] = r
         /\ Chain' = Chain /\ PrefixLength' = PrefixLength /\ Asm' = Asm
         /\ receipt' = receipt
         /\ \A n \in 1..Len(evidence) : evidence[n].ok
         /\ \A n \in 1..Len(evidence') : evidence'[n].op = Chain[n]
         /\ \A n \in 1..Len(evidence') :
              evidence'[n].ok => evidence'[n].reply = "passed" /\ evidence'[n].exit = "clean"
         /\ \A n \in 1..Len(evidence') : evidence'[n].saw \subseteq altered
<1>1. Len(evidence) < Len(Chain) /\ evidence \in Seq(PhaseRecord)
  BY DEF IInv, ChainKept, Busy, TypeOK
<1>2. /\ r \in PhaseRecord /\ r.op = Phase /\ r.saw = altered
      /\ r.ok => r.reply = "passed" /\ r.exit = "clean"
  BY <1>1, ResultFacts DEF IInv
<1>3. /\ evidence' \in Seq(PhaseRecord)
      /\ Len(evidence') = Len(evidence) + 1 /\ Len(evidence) \in Nat
      /\ \A n \in 1..Len(evidence) : evidence'[n] = evidence[n]
      /\ evidence'[Len(evidence) + 1] = r
  BY <1>1, <1>2
<1>4. Chain' = Chain /\ PrefixLength' = PrefixLength /\ Asm' = Asm
  BY DEF Chain, PrefixLength, Asm
<1>5. \A n \in 1..Len(evidence) :
        /\ evidence[n].ok /\ evidence[n].op = Chain[n] /\ evidence[n].saw \subseteq altered
        /\ evidence[n].reply = "passed" /\ evidence[n].exit = "clean"
  BY DEF IInv, ChainKept, BytesFollow, Busy
<1>6. \A n \in 1..Len(evidence') : n \in 1..Len(evidence) \/ n = Len(evidence) + 1
  BY <1>3
<1> QED
  BY <1>1, <1>2, <1>3, <1>4, <1>5, <1>6 DEF Phase

\* Which phases passed, after one more.
LEMMA OkGrown ==
  ASSUME IInv, pc = "running", NEW r \in Results,
         evidence' = Append(evidence, r), UNCHANGED <<surface, windows, receipt, altered, status>>,
         NEW n \in Nat \ {0}
  PROVE  /\ n = Len(evidence) + 1 =>
              (OkAt(evidence', n) <=> r.ok) /\ evidence'[n] = r /\ ~OkAt(evidence, n)
         /\ n # Len(evidence) + 1 =>
              /\ OkAt(evidence', n) <=> OkAt(evidence, n)
              /\ OkAt(evidence, n) => evidence'[n] = evidence[n]
         /\ n <= Len(evidence) => OkAt(evidence, n)
         /\ n > Len(evidence) => ~OkAt(evidence, n)
<1>1. /\ Len(evidence') = Len(evidence) + 1 /\ Len(evidence) \in Nat
      /\ \A m \in 1..Len(evidence) : evidence'[m] = evidence[m] /\ evidence[m].ok
      /\ evidence'[Len(evidence) + 1] = r
  BY Grown
<1>2. CASE n \in 1..Len(evidence)
  BY <1>1, <1>2 DEF OkAt
<1>3. CASE n = Len(evidence) + 1
  BY <1>1, <1>3 DEF OkAt
<1>4. CASE n > Len(evidence) + 1
  BY <1>1, <1>4 DEF OkAt
<1> QED
  BY <1>1, <1>2, <1>3, <1>4

\* Each phase settles its own check and no other.
Settles(r, n) ==
  /\ IF n = 1 THEN checks'.build <=> r.ok ELSE checks'.build <=> checks.build
  /\ Asm => IF n = 3 THEN checks'.static <=> r.ok /\ r.claim = "consistent"
            ELSE checks'.static <=> checks.static
  /\ surface = "binary" => IF n = 2 THEN checks'.static <=> r.ok
                           ELSE checks'.static <=> checks.static
  /\ Asm => checks'.diff = IF n # 2 THEN checks.diff
                           ELSE IF r.ok /\ r.claim # "unclear" THEN r.claim ELSE "empty"
  /\ Asm => IF n = 4 THEN checks'.native <=> r.ok ELSE checks'.native <=> checks.native
  /\ checks'.cases = IF n # PrefixLength THEN checks.cases
                     ELSE IF r.ok THEN r.claim ELSE "runtime_failure"
  /\ checks'.timing = IF n # PrefixLength + 1 THEN checks.timing
                      ELSE IF r.ok THEN r.claim ELSE "invalid"
  /\ checks'.profile = IF n # PrefixLength + 2 THEN checks.profile
                       ELSE IF r.ok THEN "passed" ELSE "failed"

LEMMA ChecksAfter ==
  ASSUME IInv, pc = "running", NEW r \in Results,
         evidence' = Append(evidence, r), UNCHANGED <<surface, windows, receipt, altered, status>>,
         Settles(r, Len(evidence) + 1)
  PROVE  ChecksFollow'
<1> DEFINE n == Len(evidence) + 1
<1>1. /\ n \in Nat /\ PrefixLength \in {2, 5} /\ PrefixLength' = PrefixLength
      /\ Asm' = Asm /\ surface' = surface
      /\ Len(evidence) = n - 1 /\ Len(evidence') = n /\ n <= PrefixLength + 2
  BY Grown, ChainFacts DEF IInv, TypeOK
<1>2. ChecksFollow /\ Settles(r, n)
  BY DEF IInv
<1> HIDE DEF n
<1>3. ASSUME NEW m \in Nat \ {0}
      PROVE  /\ m = n => (OkAt(evidence', m) <=> r.ok) /\ evidence'[m] = r /\ ~OkAt(evidence, m)
             /\ m # n => (OkAt(evidence', m) <=> OkAt(evidence, m))
             /\ m # n /\ OkAt(evidence, m) => evidence'[m] = evidence[m]
  BY OkGrown DEF n
<1>4. checks'.build <=> OkAt(evidence', 1)
  <2>0. 1 \in Nat \ {0}
    BY <1>1
  <2>1. /\ 1 = n => (OkAt(evidence', 1) <=> r.ok)
        /\ 1 # n => (OkAt(evidence', 1) <=> OkAt(evidence, 1))
    BY <2>0, <1>3, Zenon
  <2>2. checks.build <=> OkAt(evidence, 1)
    BY <1>2 DEF ChecksFollow
  <2>3. CASE n = 1
    <3>1. checks'.build <=> r.ok
      BY <1>2, <2>3 DEF Settles
    <3> QED
      BY <2>1, <2>3, <3>1
  <2>4. CASE n # 1
    <3>1. checks'.build <=> checks.build
      BY <1>2, <2>4 DEF Settles
    <3> QED
      BY <2>1, <2>2, <2>4, <3>1
  <2> QED
    BY <2>3, <2>4
<1>5. Asm => (checks'.static <=> OkAt(evidence', 3) /\ evidence'[3].claim = "consistent")
  <2> SUFFICES ASSUME Asm PROVE checks'.static <=> OkAt(evidence', 3) /\ evidence'[3].claim = "consistent"
    OBVIOUS
  <2>0. 3 \in Nat \ {0}
    BY <1>1
  <2>1. /\ 3 = n => (OkAt(evidence', 3) <=> r.ok) /\ evidence'[3] = r /\ ~OkAt(evidence, 3)
        /\ 3 # n => (OkAt(evidence', 3) <=> OkAt(evidence, 3))
        /\ 3 # n /\ OkAt(evidence, 3) => evidence'[3] = evidence[3]
    BY <2>0, <1>3, Zenon
  <2>2. checks.static <=> OkAt(evidence, 3) /\ evidence[3].claim = "consistent"
    BY <1>2 DEF ChecksFollow
  <2>3. CASE n = 3
    <3>1. checks'.static <=> r.ok /\ r.claim = "consistent"
      BY <1>2, <2>3 DEF Settles
    <3> QED
      BY <1>1, <2>1, <2>3, <3>1
  <2>4. CASE n # 3
    <3>1. checks'.static <=> checks.static
      BY <1>1, <1>2, <2>4 DEF Settles
    <3> QED
      BY <1>1, <2>1, <2>2, <2>4, <3>1
  <2> QED
    BY <2>3, <2>4
<1>6. surface = "binary" => (checks'.static <=> OkAt(evidence', 2))
  <2> SUFFICES ASSUME surface = "binary" PROVE checks'.static <=> OkAt(evidence', 2)
    OBVIOUS
  <2>0. 2 \in Nat \ {0}
    BY <1>1
  <2>1. /\ 2 = n => (OkAt(evidence', 2) <=> r.ok) /\ evidence'[2] = r /\ ~OkAt(evidence, 2)
        /\ 2 # n => (OkAt(evidence', 2) <=> OkAt(evidence, 2))
        /\ 2 # n /\ OkAt(evidence, 2) => evidence'[2] = evidence[2]
    BY <2>0, <1>3, Zenon
  <2>2. checks.static <=> OkAt(evidence, 2)
    BY <1>2 DEF ChecksFollow
  <2>3. CASE n = 2
    <3>1. checks'.static <=> r.ok
      BY <1>2, <2>3 DEF Settles
    <3> QED
      BY <1>1, <2>1, <2>3, <3>1
  <2>4. CASE n # 2
    <3>1. checks'.static <=> checks.static
      BY <1>1, <1>2, <2>4 DEF Settles
    <3> QED
      BY <1>1, <2>1, <2>2, <2>4, <3>1
  <2> QED
    BY <2>3, <2>4
<1>7. Asm => (checks'.diff = IF OkAt(evidence', 2) /\ evidence'[2].claim # "unclear" THEN evidence'[2].claim ELSE "empty")
  <2> SUFFICES ASSUME Asm PROVE checks'.diff = IF OkAt(evidence', 2) /\ evidence'[2].claim # "unclear" THEN evidence'[2].claim ELSE "empty"
    OBVIOUS
  <2>0. 2 \in Nat \ {0}
    BY <1>1
  <2>1. /\ 2 = n => (OkAt(evidence', 2) <=> r.ok) /\ evidence'[2] = r /\ ~OkAt(evidence, 2)
        /\ 2 # n => (OkAt(evidence', 2) <=> OkAt(evidence, 2))
        /\ 2 # n /\ OkAt(evidence, 2) => evidence'[2] = evidence[2]
    BY <2>0, <1>3, Zenon
  <2>2. checks.diff = IF OkAt(evidence, 2) /\ evidence[2].claim # "unclear" THEN evidence[2].claim ELSE "empty"
    BY <1>2 DEF ChecksFollow
  <2>3. CASE n = 2
    <3>1. checks'.diff = IF r.ok /\ r.claim # "unclear" THEN r.claim ELSE "empty"
      BY <1>2, <2>3 DEF Settles
    <3> QED
      BY <1>1, <2>1, <2>3, <3>1
  <2>4. CASE n # 2
    <3>1. checks'.diff = checks.diff
      BY <1>1, <1>2, <2>4 DEF Settles
    <3> QED
      BY <1>1, <2>1, <2>2, <2>4, <3>1
  <2> QED
    BY <2>3, <2>4
<1>8. Asm => (checks'.native <=> OkAt(evidence', 4))
  <2> SUFFICES ASSUME Asm PROVE checks'.native <=> OkAt(evidence', 4)
    OBVIOUS
  <2>0. 4 \in Nat \ {0}
    BY <1>1
  <2>1. /\ 4 = n => (OkAt(evidence', 4) <=> r.ok) /\ evidence'[4] = r /\ ~OkAt(evidence, 4)
        /\ 4 # n => (OkAt(evidence', 4) <=> OkAt(evidence, 4))
        /\ 4 # n /\ OkAt(evidence, 4) => evidence'[4] = evidence[4]
    BY <2>0, <1>3, Zenon
  <2>2. checks.native <=> OkAt(evidence, 4)
    BY <1>2 DEF ChecksFollow
  <2>3. CASE n = 4
    <3>1. checks'.native <=> r.ok
      BY <1>2, <2>3 DEF Settles
    <3> QED
      BY <1>1, <2>1, <2>3, <3>1
  <2>4. CASE n # 4
    <3>1. checks'.native <=> checks.native
      BY <1>1, <1>2, <2>4 DEF Settles
    <3> QED
      BY <1>1, <2>1, <2>2, <2>4, <3>1
  <2> QED
    BY <2>3, <2>4
<1>9. checks'.cases = IF OkAt(evidence', PrefixLength) THEN evidence'[PrefixLength].claim ELSE "runtime_failure"
  <2>0. PrefixLength \in Nat \ {0}
    BY <1>1
  <2>1. /\ PrefixLength = n => (OkAt(evidence', PrefixLength) <=> r.ok) /\ evidence'[PrefixLength] = r /\ ~OkAt(evidence, PrefixLength)
        /\ PrefixLength # n => (OkAt(evidence', PrefixLength) <=> OkAt(evidence, PrefixLength))
        /\ PrefixLength # n /\ OkAt(evidence, PrefixLength) => evidence'[PrefixLength] = evidence[PrefixLength]
    BY <2>0, <1>3, Zenon
  <2>2. checks.cases = IF OkAt(evidence, PrefixLength) THEN evidence[PrefixLength].claim ELSE "runtime_failure"
    BY <1>2 DEF ChecksFollow
  <2>3. CASE n = PrefixLength
    <3>1. checks'.cases = IF r.ok THEN r.claim ELSE "runtime_failure"
      BY <1>2, <2>3 DEF Settles
    <3> QED
      BY <1>1, <2>1, <2>3, <3>1
  <2>4. CASE n # PrefixLength
    <3>1. checks'.cases = checks.cases
      BY <1>1, <1>2, <2>4 DEF Settles
    <3> QED
      BY <1>1, <2>1, <2>2, <2>4, <3>1
  <2> QED
    BY <2>3, <2>4
<1>10. checks'.timing = IF OkAt(evidence', PrefixLength + 1) THEN evidence'[PrefixLength + 1].claim ELSE "invalid"
  <2>0. PrefixLength + 1 \in Nat \ {0}
    BY <1>1
  <2>1. /\ PrefixLength + 1 = n => (OkAt(evidence', PrefixLength + 1) <=> r.ok) /\ evidence'[PrefixLength + 1] = r /\ ~OkAt(evidence, PrefixLength + 1)
        /\ PrefixLength + 1 # n => (OkAt(evidence', PrefixLength + 1) <=> OkAt(evidence, PrefixLength + 1))
        /\ PrefixLength + 1 # n /\ OkAt(evidence, PrefixLength + 1) => evidence'[PrefixLength + 1] = evidence[PrefixLength + 1]
    BY <2>0, <1>3, Zenon
  <2>2. checks.timing = IF OkAt(evidence, PrefixLength + 1) THEN evidence[PrefixLength + 1].claim ELSE "invalid"
    BY <1>2 DEF ChecksFollow
  <2>3. CASE n = PrefixLength + 1
    <3>1. checks'.timing = IF r.ok THEN r.claim ELSE "invalid"
      BY <1>2, <2>3 DEF Settles
    <3> QED
      BY <1>1, <2>1, <2>3, <3>1
  <2>4. CASE n # PrefixLength + 1
    <3>1. checks'.timing = checks.timing
      BY <1>1, <1>2, <2>4 DEF Settles
    <3> QED
      BY <1>1, <2>1, <2>2, <2>4, <3>1
  <2> QED
    BY <2>3, <2>4
<1>11. checks'.profile = IF Len(evidence') < PrefixLength + 2 THEN "not attempted" ELSE IF OkAt(evidence', PrefixLength + 2) THEN "passed" ELSE "failed"
  <2>0. PrefixLength + 2 \in Nat \ {0}
    BY <1>1
  <2>1. /\ PrefixLength + 2 = n => (OkAt(evidence', PrefixLength + 2) <=> r.ok) /\ evidence'[PrefixLength + 2] = r /\ ~OkAt(evidence, PrefixLength + 2)
        /\ PrefixLength + 2 # n => (OkAt(evidence', PrefixLength + 2) <=> OkAt(evidence, PrefixLength + 2))
        /\ PrefixLength + 2 # n /\ OkAt(evidence, PrefixLength + 2) => evidence'[PrefixLength + 2] = evidence[PrefixLength + 2]
    BY <2>0, <1>3, Zenon
  <2>2. checks.profile = IF Len(evidence) < PrefixLength + 2 THEN "not attempted" ELSE IF OkAt(evidence, PrefixLength + 2) THEN "passed" ELSE "failed"
    BY <1>2 DEF ChecksFollow
  <2>3. CASE n = PrefixLength + 2
    <3>1. checks'.profile = IF r.ok THEN "passed" ELSE "failed"
      BY <1>2, <2>3 DEF Settles
    <3> QED
      <4>1. ~(Len(evidence') < PrefixLength + 2)
        BY <1>1, <2>3
      <4> QED
        BY <2>1, <2>3, <3>1, <4>1
  <2>4. CASE n # PrefixLength + 2
    <3>1. checks'.profile = checks.profile
      BY <1>1, <1>2, <2>4 DEF Settles
    <3> QED
      <4>1. Len(evidence') < PrefixLength + 2 /\ Len(evidence) < PrefixLength + 2
        BY <1>1, <2>4
      <4> QED
        BY <2>2, <3>1, <4>1
  <2> QED
    BY <2>3, <2>4
<1> QED
  BY <1>1, <1>4, <1>5, <1>6, <1>7, <1>8, <1>9, <1>10, <1>11 DEF ChecksFollow

\* What does not depend on the phase.
LEMMA PhaseEnds ==
  ASSUME IInv, pc = "running", NEW r \in Results,
         evidence' = Append(evidence, r), UNCHANGED <<surface, windows, receipt, altered, status>>,
         checks' \in Checks,
         pc' \in {"ready", "gating", "recording", "controller_error"},
         pc' = "ready" => r.ok /\ Len(evidence) + 1 < Len(Chain),
         pc' = "recording" /\ ~Asm /\ Len(evidence) >= PrefixLength => "proposal" \notin altered
  PROVE  TypeOK' /\ ChainKept' /\ BytesFollow' /\ OutcomeFollows'
<1> USE Grown
<1>1. TypeOK'
  BY DEF IInv, TypeOK, Ended
<1>2. ChainKept'
  <2>1. \A n \in 1..Len(evidence') : n \in 1..Len(evidence) \/ n = Len(evidence')
    OBVIOUS
  <2>2. \A n \in 1..Len(evidence') :
          (n < Len(evidence') \/ pc' \in Busy \cup {"authorizing"}) => evidence'[n].ok
    BY <2>1 DEF Busy
  <2>3. pc' \in Busy => Len(evidence') < Len(Chain')
    BY DEF Busy
  <2> QED
    BY <2>2, <2>3 DEF ChainKept, Busy
<1>3. BytesFollow'
  <2>1. ("asm_inputs" \in altered => Asm) /\ (Asm => windows = "named")
    BY DEF IInv, BytesFollow
  <2>2. ~Asm /\ pc' = "recording" /\ Len(evidence') > PrefixLength => "proposal" \notin altered
    BY ChainFacts DEF IInv, TypeOK
  <2>3. Asm' = Asm /\ windows' = windows
    BY DEF Asm
  <2> QED
    BY <2>1, <2>2, <2>3 DEF BytesFollow
<1>4. OutcomeFollows'
  <2>1. status' = "none"
    BY DEF IInv, OutcomeFollows
  <2> QED
    BY <2>1 DEF OutcomeFollows, AcceptanceIsEarned, RefusedOnlyForCause
<1> QED
  BY <1>1, <1>2, <1>3, <1>4

\* Before the benchmark there is no receipt.
LEMMA NoReceiptYet ==
  ASSUME IInv, pc = "running", Len(evidence) < PrefixLength
  PROVE  /\ receipt = NoReceipt
         /\ checks.timing = "invalid" /\ checks.profile = "not attempted"
         /\ checks.cases = "runtime_failure"
<1>1. PrefixLength \in {2, 5} /\ Len(evidence) \in Nat
  BY ChainFacts DEF IInv, TypeOK
<1>2. ~OkAt(evidence, PrefixLength) /\ ~OkAt(evidence, PrefixLength + 1) /\ Len(evidence) < PrefixLength + 2
  BY <1>1 DEF OkAt
<1>3. receipt = NoReceipt
  BY <1>1 DEF IInv, ReceiptFollows
<1>4. ChecksFollow
  BY DEF IInv
<1> QED
  BY <1>2, <1>3, <1>4 DEF ChecksFollow

\* Which phase is running tells how many have run.
LEMMA RunningAt ==
  ASSUME IInv, pc = "running"
  PROVE  /\ Len(evidence) \in Nat /\ Len(evidence) < Len(Chain)
         /\ surface \in Surface /\ checks \in Checks
         /\ PrefixLength \in {2, 5} /\ (surface # "source" => PrefixLength = 5)
         /\ (surface = "source" => PrefixLength = 2)
         /\ Len(Chain) = IF Asm THEN PrefixLength + 2 ELSE PrefixLength + 1
         /\ Phase = Chain[1] => Len(evidence) = 0
         /\ Phase = "disassemble" <=> Asm /\ Len(evidence) = 1
         /\ Phase = "static_check" => (Asm /\ Len(evidence) = 2)
                                        \/ (surface = "binary" /\ Len(evidence) = 1)
         /\ Phase = "native_load" => Asm /\ Len(evidence) = 3
         /\ Phase = "oracle" /\ surface # "binary" => Len(evidence) + 1 = PrefixLength
         /\ Phase = "oracle" /\ surface = "binary" => Len(evidence) = 2
         /\ Phase = "replay" => surface = "binary" /\ Len(evidence) = 3
         /\ Phase = "compare" => surface = "binary" /\ Len(evidence) + 1 = PrefixLength
         /\ Phase = "benchmark" <=> Len(evidence) = PrefixLength
         /\ Phase = "profile" <=> Len(evidence) = PrefixLength + 1
<1>1. /\ Len(evidence) \in Nat /\ Len(evidence) < Len(Chain)
      /\ surface \in Surface /\ checks \in Checks
  BY DEF IInv, ChainKept, Busy, TypeOK
<1>2. /\ PrefixLength \in {2, 5} /\ Len(Chain) = IF Asm THEN PrefixLength + 2 ELSE PrefixLength + 1
      /\ (surface # "source" => PrefixLength = 5) /\ (surface = "source" => PrefixLength = 2)
  BY <1>1, ChainFacts DEF PrefixLength
<1> DEFINE n == Len(evidence) + 1
<1>3. n \in 1..Len(Chain) /\ Phase = Chain[n] /\ n = Len(evidence) + 1
  BY <1>1, <1>2 DEF Phase
<1>4. Asm /\ n = 2 => Chain[n] = "disassemble"
  BY DEF Chain, FullChain, Asm
<1> HIDE DEF n
<1>5. /\ Chain[n] = Chain[1] => n = 1
      /\ Chain[n] = "disassemble" => Asm /\ n = 2
      /\ Chain[n] = "static_check" => (Asm /\ n = 3) \/ (surface = "binary" /\ n = 2)
      /\ Chain[n] = "native_load" => Asm /\ n = 4
      /\ Chain[n] = "oracle" /\ surface # "binary" => n = PrefixLength
      /\ Chain[n] = "oracle" /\ surface = "binary" => n = 3
      /\ Chain[n] = "replay" => surface = "binary" /\ n = 4
      /\ Chain[n] = "compare" => surface = "binary" /\ n = PrefixLength
      /\ Chain[n] = "benchmark" <=> n = PrefixLength + 1
      /\ Chain[n] = "profile" <=> n = PrefixLength + 2
  BY <1>1, <1>3, PlaceOf
<1>6. /\ Phase = Chain[1] => n = 1
      /\ Phase = "disassemble" <=> Asm /\ n = 2
      /\ Phase = "static_check" => (Asm /\ n = 3) \/ (surface = "binary" /\ n = 2)
      /\ Phase = "native_load" => Asm /\ n = 4
      /\ Phase = "oracle" /\ surface # "binary" => n = PrefixLength
      /\ Phase = "oracle" /\ surface = "binary" => n = 3
      /\ Phase = "replay" => surface = "binary" /\ n = 4
      /\ Phase = "compare" => surface = "binary" /\ n = PrefixLength
      /\ Phase = "benchmark" <=> n = PrefixLength + 1
      /\ Phase = "profile" <=> n = PrefixLength + 2
  BY <1>3, <1>4, <1>5, Zenon
<1>7. /\ PrefixLength \in Nat /\ n = Len(evidence) + 1 /\ Len(evidence) \in Nat
      /\ n \in Nat /\ Len(evidence) = n - 1
  BY <1>1, <1>2, <1>3
<1>8. /\ n = 1 => Len(evidence) = 0
      /\ n = 2 <=> Len(evidence) = 1
      /\ n = 3 => Len(evidence) = 2
      /\ n = 4 => Len(evidence) = 3
      /\ n = PrefixLength => Len(evidence) + 1 = PrefixLength
      /\ n = PrefixLength + 1 <=> Len(evidence) = PrefixLength
      /\ n = PrefixLength + 2 <=> Len(evidence) = PrefixLength + 1
  <2>1. n = 1 => Len(evidence) = 0
    BY <1>7
  <2>2. n = 2 => Len(evidence) = 1
    BY <1>7
  <2>3. Len(evidence) = 1 => n = 2
    BY <1>3
  <2>4. n = 3 => Len(evidence) = 2
    BY <1>7
  <2>5. n = 4 => Len(evidence) = 3
    BY <1>7
  <2>6. n = PrefixLength => Len(evidence) + 1 = PrefixLength
    BY <1>7
  <2>7. /\ n = PrefixLength + 1 => Len(evidence) = PrefixLength
        /\ n = PrefixLength + 2 => Len(evidence) = PrefixLength + 1
    <3>1. PrefixLength \in Nat /\ Len(evidence) \in Nat /\ n = Len(evidence) + 1
      BY <1>7
    <3> QED
      BY <3>1
  <2>8. /\ Len(evidence) = PrefixLength => n = PrefixLength + 1
        /\ Len(evidence) = PrefixLength + 1 => n = PrefixLength + 2
    <3>1. PrefixLength \in Nat /\ n = Len(evidence) + 1
      BY <1>7
    <3> QED
      BY <3>1
  <2> QED
    BY <2>1, <2>2, <2>3, <2>4, <2>5, <2>6, <2>7, <2>8, Zenon
<1> QED
  BY <1>1, <1>2, <1>6, <1>8, Zenon

\* What a phase that passed can say.
LEMMA ClaimFacts ==
  ASSUME IInv, pc = "running", NEW r \in Results
  PROVE  /\ r.ok \in BOOLEAN
         /\ Asm /\ Len(evidence) = 1 /\ r.ok => r.claim \in Diff \cup {"unclear"}
         /\ Len(evidence) + 1 = PrefixLength /\ r.ok => r.claim \in {"passed"} \cup CaseFailure
         /\ Len(evidence) = PrefixLength /\ r.ok => r.claim \in Timing
<1>1. r.ok \in BOOLEAN /\ (r.ok => r.claim \in Claims(Phase))
  BY RunningAt, ResultFacts DEF IInv, PhaseRecord
<1>2. Asm /\ Len(evidence) = 1 => Claims(Phase) = Diff \cup {"unclear"}
  <2> SUFFICES ASSUME Asm, Len(evidence) = 1 PROVE Claims(Phase) = Diff \cup {"unclear"}
    OBVIOUS
  <2>1. Phase = "disassemble"
    BY RunningAt
  <2>2. Chain[PrefixLength] = "oracle"
    BY DEF Chain, FullChain, PrefixLength, Asm
  <2> QED
    BY <2>1, <2>2 DEF Claims
<1>3. Len(evidence) + 1 = PrefixLength => Claims(Phase) = {"passed"} \cup CaseFailure
  <2> SUFFICES ASSUME Len(evidence) + 1 = PrefixLength
               PROVE  Claims(Phase) = {"passed"} \cup CaseFailure
    OBVIOUS
  <2>1. Phase = Chain[PrefixLength]
    BY DEF Phase
  <2>2. Chain[PrefixLength] \in {"oracle", "compare"}
    BY RunningAt DEF Chain, FullChain, PrefixLength, Surface
  <2> QED
    BY <2>1, <2>2 DEF Claims
<1>4. Len(evidence) = PrefixLength => Claims(Phase) = Timing
  <2> SUFFICES ASSUME Len(evidence) = PrefixLength PROVE Claims(Phase) = Timing
    OBVIOUS
  <2>1. Phase = "benchmark"
    BY RunningAt
  <2>2. Chain[PrefixLength] \in {"oracle", "compare"}
    BY RunningAt DEF Chain, FullChain, PrefixLength, Surface
  <2> QED
    BY <2>1, <2>2 DEF Claims
<1> QED
  BY <1>1, <1>2, <1>3, <1>4

\* What the phases so far imply while the next one runs.
LEMMA SoFar ==
  ASSUME IInv, pc = "running"
  PROVE  /\ Len(evidence) >= 1 => checks.build
         /\ Asm /\ Len(evidence) >= 3 => checks.static
         /\ Asm /\ Len(evidence) >= 4 => checks.native
         /\ surface = "binary" /\ Len(evidence) >= 2 => checks.static
<1>1. \A n \in Nat \ {0} : n <= Len(evidence) => OkAt(evidence, n)
  BY RunningAt DEF OkAt, IInv, ChainKept, Busy
<1>2. /\ Len(evidence) >= 1 => OkAt(evidence, 1)
      /\ Len(evidence) >= 2 => OkAt(evidence, 2)
      /\ Len(evidence) >= 4 => OkAt(evidence, 4)
  BY <1>1
<1>3. ChecksFollow /\ PlaceFollows
  BY DEF IInv
<1> QED
  BY <1>2, <1>3 DEF ChecksFollow, PlaceFollows, Busy

---------------------------------------------------------------------------
(* The phases.                                                             *)

LEMMA BuildStep ==
  ASSUME IInv, pc = "running", NEW r \in Results, NEW wellFormed \in BOOLEAN,
         Build(r, wellFormed)
  PROVE  IInv'
<1>1. /\ evidence' = Append(evidence, r) /\ UNCHANGED <<surface, windows, receipt, altered, status>>
      /\ checks' = [checks EXCEPT !.build = r.ok]
      /\ pc' \in {"ready", "recording", "controller_error"}
      /\ pc' = "ready" => r.ok
      /\ pc' = "recording" => ~r.ok
  BY DEF Build, Finish, Proceed
<1>2. Len(evidence) = 0 /\ PrefixLength \in {2, 5} /\ 1 < Len(Chain)
  <2>1. Phase = Chain[1]
    BY DEF Build, Finish
  <2>2. Len(evidence) + 1 \in 1..Len(Chain) /\ surface \in Surface /\ Len(evidence) \in Nat
    BY <1>1, Grown DEF IInv, TypeOK
  <2> QED
    BY <2>1, <2>2, PlaceOf, ChainFacts DEF Phase
<1>3. r.ok \in BOOLEAN /\ checks \in Checks /\ checks' \in Checks
  BY <1>1, <1>2, ResultFacts, ChainFacts DEF IInv, TypeOK, PhaseRecord, Checks
<1>4. Len(evidence') = 1
  BY <1>1, <1>2, Grown
<1>5. TypeOK' /\ ChainKept' /\ BytesFollow' /\ OutcomeFollows'
  BY <1>1, <1>2, <1>3, PhaseEnds
<1>6. PrefixLength' = PrefixLength /\ Asm' = Asm /\ Chain' = Chain /\ receipt' = NoReceipt
  <2>1. Len(evidence) < PrefixLength
    BY <1>2
  <2>2. receipt = NoReceipt
    BY <2>1, NoReceiptYet
  <2> QED
    BY <1>1, <2>2, Grown
<1>7. ChecksFollow'
  <2>1. /\ checks'.build = r.ok /\ checks'.static = checks.static /\ checks'.diff = checks.diff
        /\ checks'.native = checks.native /\ checks'.cases = checks.cases
        /\ checks'.timing = checks.timing /\ checks'.profile = checks.profile
    BY <1>1, <1>3 DEF Checks
  <2>2. Settles(r, Len(evidence) + 1)
    BY <1>2, <2>1 DEF Settles
  <2> QED
    BY <1>1, <2>2, ChecksAfter
<1>8. ReceiptFollows' /\ PlaceFollows'
  BY <1>1, <1>2, <1>4, <1>6 DEF ReceiptFollows, PlaceFollows, Busy
<1>9. RecordFollows'
  <2> SUFFICES ASSUME pc' = "recording" PROVE RecordFollows'
    BY DEF RecordFollows
  <2>1. ~checks'.build
    BY <1>1, <1>3 DEF Checks
  <2>2. Submitted' = "build_invalid"
    BY <2>1 DEF Submitted, GateStatus
  <2> QED
    <3>1. RejectedLengths' = {1} /\ Submitted' \in Rejection
      BY <2>2 DEF RejectedLengths, Rejection, CaseFailure
    <3> QED
      BY <1>2, <1>4, <1>6, <3>1 DEF RecordFollows
<1> QED
  BY <1>5, <1>7, <1>8, <1>9 DEF IInv

LEMMA DisassembleStep ==
  ASSUME IInv, pc = "running", NEW r \in Results, NEW wellFormed \in BOOLEAN,
         Disassemble(r, wellFormed)
  PROVE  IInv'
<1> DEFINE d == IF r.ok /\ r.claim # "unclear" THEN r.claim ELSE "empty"
<1>1. /\ evidence' = Append(evidence, r) /\ UNCHANGED <<surface, windows, receipt, altered, status>>
      /\ checks' = [checks EXCEPT !.diff = d]
      /\ pc' \in {"ready", "controller_error"}
      /\ pc' = "ready" => r.ok
  BY DEF Disassemble, Finish, Proceed
<1>2. Asm /\ Len(evidence) = 1 /\ PrefixLength = 5 /\ Len(Chain) = 7
  <2>1. Phase = "disassemble"
    BY DEF Disassemble, Finish
  <2> QED
    BY <2>1, RunningAt DEF Asm
<1>3. d \in Diff
  BY <1>2, ClaimFacts DEF Diff
<1> HIDE DEF d
<1>4. checks' \in Checks
  BY <1>1, <1>3, RunningAt DEF Checks
<1>5. TypeOK' /\ ChainKept' /\ BytesFollow' /\ OutcomeFollows'
  BY <1>1, <1>2, <1>4, PhaseEnds
<1>6. /\ PrefixLength' = PrefixLength /\ Asm' = Asm /\ Chain' = Chain /\ receipt' = NoReceipt
      /\ Len(evidence') = 2
  <2>1. Len(evidence) < PrefixLength
    BY <1>2
  <2>2. receipt = NoReceipt
    BY <2>1, NoReceiptYet
  <2>3. /\ PrefixLength' = PrefixLength /\ Asm' = Asm /\ Chain' = Chain /\ receipt' = receipt
        /\ Len(evidence') = Len(evidence) + 1
    BY <1>1, Grown
  <2> QED
    BY <1>2, <2>2, <2>3
<1>7. ChecksFollow'
  <2>1. /\ checks'.diff = d /\ checks'.static = checks.static /\ checks'.build = checks.build
        /\ checks'.native = checks.native /\ checks'.cases = checks.cases
        /\ checks'.timing = checks.timing /\ checks'.profile = checks.profile
    BY <1>1, RunningAt DEF Checks
  <2>2. Settles(r, Len(evidence) + 1)
    BY <1>2, <2>1 DEF Settles, Asm, d
  <2> QED
    BY <1>1, <2>2, ChecksAfter
<1>8. ReceiptFollows' /\ PlaceFollows' /\ RecordFollows'
  BY <1>1, <1>2, <1>6 DEF ReceiptFollows, PlaceFollows, RecordFollows, Busy
<1> QED
  BY <1>5, <1>7, <1>8 DEF IInv

LEMMA StaticCheckStep ==
  ASSUME IInv, pc = "running", NEW r \in Results, StaticCheck(r)
  PROVE  IInv'
<1> DEFINE passed == r.ok /\ (Asm => r.claim = "consistent")
<1>1. /\ evidence' = Append(evidence, r) /\ UNCHANGED <<surface, windows, receipt, altered, status>>
      /\ checks' = [checks EXCEPT !.static = passed]
      /\ pc' \in {"ready", "recording", "controller_error"}
      /\ pc' = "ready" => passed
      /\ pc' = "recording" => ~passed
  BY DEF StaticCheck, Finish, Proceed, Asm
<1>2. /\ (Asm /\ Len(evidence) = 2) \/ (surface = "binary" /\ Len(evidence) = 1)
      /\ PrefixLength = 5 /\ Len(Chain) >= 6 /\ surface # "source"
      /\ Len(evidence) \in {1, 2} /\ Len(evidence) < PrefixLength
  <2>1. Phase = "static_check"
    BY DEF StaticCheck, Finish
  <2>2. /\ (Asm /\ Len(evidence) = 2) \/ (surface = "binary" /\ Len(evidence) = 1)
        /\ PrefixLength = 5 /\ Len(Chain) >= 6 /\ surface # "source"
    BY <2>1, RunningAt DEF Asm
  <2>3. CASE Len(evidence) = 2
    BY <2>2, <2>3
  <2>4. CASE Len(evidence) = 1
    BY <2>2, <2>4
  <2> QED
    BY <2>2, <2>3, <2>4
<1>3. passed \in BOOLEAN
  OBVIOUS
<1>4. checks' \in Checks
  <2> HIDE DEF passed
  <2> QED
    BY <1>1, <1>3, RunningAt DEF Checks
<1>5. TypeOK' /\ ChainKept' /\ BytesFollow' /\ OutcomeFollows'
  BY <1>1, <1>2, <1>4, PhaseEnds
<1>6. /\ PrefixLength' = PrefixLength /\ Asm' = Asm /\ Chain' = Chain /\ receipt' = NoReceipt
      /\ Len(evidence') = Len(evidence) + 1
  <2>1. receipt = NoReceipt
    BY <1>2, NoReceiptYet
  <2> QED
    BY <1>1, <2>1, Grown
<1>7. /\ checks'.static = passed /\ checks'.diff = checks.diff /\ checks'.build = checks.build
      /\ checks'.native = checks.native /\ checks'.cases = checks.cases
      /\ checks'.timing = checks.timing /\ checks'.profile = checks.profile
  <2> HIDE DEF passed
  <2> QED
    BY <1>1, RunningAt DEF Checks
<1>8. ChecksFollow'
  <2>1. CASE Asm /\ Len(evidence) = 2
    <3>1. surface # "binary" /\ Len(evidence) + 1 = 3
      BY <2>1 DEF Asm
    <3>2. PrefixLength = 5 /\ (checks'.static <=> r.ok /\ r.claim = "consistent")
      BY <1>2, <1>7, <2>1
    <3>3. Settles(r, 3)
      BY <1>7, <3>1, <3>2 DEF Settles
    <3> QED
      BY <1>1, <3>1, <3>3, ChecksAfter
  <2>2. CASE surface = "binary" /\ Len(evidence) = 1
    <3>1. ~Asm /\ Len(evidence) + 1 = 2
      BY <2>2 DEF Asm
    <3>2. PrefixLength = 5 /\ checks'.static = r.ok
      BY <1>2, <1>7, <3>1, ClaimFacts
    <3>3. Settles(r, 2)
      BY <1>7, <3>1, <3>2 DEF Settles
    <3> QED
      BY <1>1, <3>1, <3>3, ChecksAfter
  <2> QED
    BY <1>2, <2>1, <2>2
<1> HIDE DEF passed
<1>9. ReceiptFollows' /\ PlaceFollows'
  BY <1>1, <1>2, <1>6, <1>7 DEF ReceiptFollows, PlaceFollows, Busy, Asm
<1>10. RecordFollows'
  <2> SUFFICES ASSUME pc' = "recording" PROVE RecordFollows'
    BY DEF RecordFollows
  <2>1. ~checks'.static /\ checks'.build
    BY <1>1, <1>2, <1>7, SoFar
  <2>2. surface' = surface /\ surface # "source"
    BY <1>1, <1>2
  <2>3. Submitted' = "static_invalid"
    BY <2>1, <2>2 DEF Submitted, GateStatus, StaticPassed
  <2>4. RejectedLengths' = IF Asm THEN {3} ELSE {2}
    BY <2>2, <2>3 DEF RejectedLengths, Asm
  <2>5. Len(evidence') \in RejectedLengths' /\ Len(evidence') \in {2, 3}
    <3>1. CASE Asm
      <4>1. Len(evidence) = 2
        BY <1>2, <3>1 DEF Asm
      <4>2. Len(evidence') = 3
        BY <1>6, <4>1
      <4> QED
        BY <2>4, <3>1, <4>2
    <3>2. CASE ~Asm
      <4>1. Len(evidence) = 1
        BY <1>2, <3>2
      <4>2. Len(evidence') = 2
        BY <1>6, <4>1
      <4> QED
        BY <2>4, <3>2, <4>2
    <3> QED
      BY <3>1, <3>2
  <2>6. Submitted' \in Rejection'
    BY <2>3 DEF Rejection
  <2>7. Len(evidence') >= 1 /\ Len(evidence') <= PrefixLength'
    BY <1>2, <1>6, <2>5
  <2> QED
    BY <1>6, <2>5, <2>6, <2>7 DEF RecordFollows
<1> QED
  BY <1>5, <1>8, <1>9, <1>10 DEF IInv

LEMMA NativeLoadStep ==
  ASSUME IInv, pc = "running", NEW r \in Results, NativeLoad(r)
  PROVE  IInv'
<1>1. /\ evidence' = Append(evidence, r) /\ UNCHANGED <<surface, windows, receipt, altered, status>>
      /\ checks' = [checks EXCEPT !.native = r.ok]
      /\ pc' \in {"ready", "recording", "controller_error"}
      /\ pc' = "ready" => r.ok
      /\ pc' = "recording" => ~r.ok
  BY DEF NativeLoad, Finish, Proceed
<1>2. Asm /\ Len(evidence) = 3 /\ PrefixLength = 5 /\ Len(Chain) = 7
  <2>1. Phase = "native_load"
    BY DEF NativeLoad, Finish
  <2> QED
    BY <2>1, RunningAt DEF Asm
<1>3. r.ok \in BOOLEAN
  BY ClaimFacts
<1>4. checks' \in Checks
  BY <1>1, <1>3, RunningAt DEF Checks
<1>5. TypeOK' /\ ChainKept' /\ BytesFollow' /\ OutcomeFollows'
  BY <1>1, <1>2, <1>4, PhaseEnds
<1>6. /\ PrefixLength' = PrefixLength /\ Asm' = Asm /\ Chain' = Chain /\ receipt' = NoReceipt
      /\ Len(evidence') = 4
  <2>1. Len(evidence) < PrefixLength
    BY <1>2
  <2>2. receipt = NoReceipt
    BY <2>1, NoReceiptYet
  <2>3. /\ PrefixLength' = PrefixLength /\ Asm' = Asm /\ Chain' = Chain /\ receipt' = receipt
        /\ Len(evidence') = Len(evidence) + 1
    BY <1>1, Grown
  <2> QED
    BY <1>2, <2>2, <2>3
<1>7. /\ checks'.native = r.ok /\ checks'.static = checks.static /\ checks'.build = checks.build
      /\ checks'.diff = checks.diff /\ checks'.cases = checks.cases
      /\ checks'.timing = checks.timing /\ checks'.profile = checks.profile
  BY <1>1, RunningAt DEF Checks
<1>8. ChecksFollow'
  <2>1. Settles(r, Len(evidence) + 1)
    BY <1>2, <1>7 DEF Settles, Asm
  <2> QED
    BY <1>1, <2>1, ChecksAfter
<1>9. ReceiptFollows' /\ PlaceFollows'
  BY <1>1, <1>2, <1>6, <1>7, SoFar DEF ReceiptFollows, PlaceFollows, Busy
<1>10. RecordFollows'
  <2> SUFFICES ASSUME pc' = "recording" PROVE RecordFollows'
    BY DEF RecordFollows
  <2>1. ~checks'.native /\ checks'.build /\ checks'.static
    BY <1>1, <1>2, <1>7, SoFar
  <2>2. surface' = "amdgcn_assembly"
    BY <1>1, <1>2 DEF Asm
  <2>3. Submitted' = "asm_provenance_invalid"
    BY <2>1, <2>2 DEF Submitted, GateStatus, StaticPassed, AsmProvenancePassed
  <2>4. RejectedLengths' = 2..6 /\ Submitted' \in Rejection
    BY <2>3 DEF RejectedLengths, Rejection, CaseFailure
  <2> QED
    BY <1>2, <1>6, <2>4 DEF RecordFollows
<1> QED
  BY <1>5, <1>8, <1>9, <1>10 DEF IInv
\* The checks differ at most in what comes after the cases.
SamePrefix(c, d) ==
  /\ c.build = d.build /\ c.static = d.static /\ c.diff = d.diff
  /\ c.native = d.native /\ c.cases = d.cases

\* Oracle and comparison: the phase that gives the cases.
LEMMA CasesGiven ==
  ASSUME IInv, pc = "running", NEW r \in Results,
         evidence' = Append(evidence, r), UNCHANGED <<surface, windows, receipt, altered, status>>,
         Len(evidence) + 1 = PrefixLength,
         checks' = [checks EXCEPT !.cases = CasesOf(r)],
         pc' \in {"gating", "controller_error"}
  PROVE  IInv'
<1>1. /\ Len(evidence) \in Nat /\ checks \in Checks /\ surface \in Surface
      /\ PrefixLength \in {2, 5} /\ Len(evidence) < PrefixLength
      /\ (surface # "source" => PrefixLength = 5)
  <2>1. /\ Len(evidence) \in Nat /\ checks \in Checks /\ surface \in Surface
        /\ PrefixLength \in {2, 5} /\ (surface # "source" => PrefixLength = 5)
    BY RunningAt
  <2> QED
    BY <2>1
<1>2. CasesOf(r) \in {"passed"} \cup CaseFailure
  BY ClaimFacts DEF CasesOf, CaseFailure
<1>3. checks' \in Checks
  BY <1>1, <1>2 DEF Checks
<1>4. TypeOK' /\ ChainKept' /\ BytesFollow' /\ OutcomeFollows'
  <2>1. /\ pc' \in {"ready", "gating", "recording", "controller_error"}
        /\ pc' # "ready" /\ pc' # "recording"
    OBVIOUS
  <2> QED
    BY <1>3, <2>1, PhaseEnds
<1>5. /\ PrefixLength' = PrefixLength /\ Asm' = Asm /\ Chain' = Chain /\ receipt' = NoReceipt
      /\ Len(evidence') = PrefixLength
  <2>1. receipt = NoReceipt
    BY <1>1, NoReceiptYet
  <2>2. /\ PrefixLength' = PrefixLength /\ Asm' = Asm /\ Chain' = Chain /\ receipt' = receipt
        /\ Len(evidence') = Len(evidence) + 1
    BY Grown
  <2> QED
    BY <2>1, <2>2
<1>6. /\ checks'.cases = CasesOf(r) /\ checks'.static = checks.static
      /\ checks'.build = checks.build /\ checks'.diff = checks.diff
      /\ checks'.native = checks.native
      /\ checks'.timing = checks.timing /\ checks'.profile = checks.profile
  BY <1>1 DEF Checks
<1>7. ChecksFollow'
  <2>1. /\ PrefixLength # 1 /\ PrefixLength # 3 /\ PrefixLength # 4
        /\ PrefixLength # PrefixLength + 1 /\ PrefixLength # PrefixLength + 2
        /\ (Asm => PrefixLength # 2) /\ (surface = "binary" => PrefixLength # 2)
    BY <1>1 DEF Asm
  <2>2. Settles(r, PrefixLength)
    BY <1>6, <2>1 DEF Settles, CasesOf
  <2> QED
    BY <2>2, ChecksAfter
<1>8. ReceiptFollows' /\ PlaceFollows' /\ RecordFollows'
  <2>1. Asm => checks'.static
    <3> SUFFICES ASSUME Asm PROVE checks.static
      BY <1>6
    <3>1. PrefixLength = 5
      BY <1>1 DEF Asm
    <3>2. Len(evidence) >= 3
      BY <1>1, <3>1
    <3> QED
      BY <3>2, SoFar
  <2>2. PrefixLength' \in Nat /\ Len(evidence') <= PrefixLength'
    BY <1>1, <1>5
  <2>3. pc' \notin Busy /\ pc' \notin {"opened", "authorizing", "recording"}
    BY DEF Busy
  <2> QED
    BY <1>5, <2>1, <2>2, <2>3 DEF ReceiptFollows, PlaceFollows, RecordFollows
<1> QED
  BY <1>4, <1>7, <1>8 DEF IInv

LEMMA OracleStep ==
  ASSUME IInv, pc = "running", NEW r \in Results, NEW wellFormed \in BOOLEAN,
         Oracle(r, wellFormed)
  PROVE  IInv'
<1>1. /\ evidence' = Append(evidence, r) /\ UNCHANGED <<surface, windows, receipt, altered, status>>
      /\ checks' = [checks EXCEPT !.cases = CasesOf(r)]
      /\ pc' \in {"gating", "controller_error"}
  BY DEF Oracle, Finish, Proceed
<1>2. Len(evidence) + 1 = PrefixLength
  BY RunningAt DEF Oracle, Finish
<1> QED
  BY <1>1, <1>2, CasesGiven

LEMMA CompareStep ==
  ASSUME IInv, pc = "running", NEW r \in Results, NEW wellFormed \in BOOLEAN,
         Compare(r, wellFormed)
  PROVE  IInv'
<1>1. /\ evidence' = Append(evidence, r) /\ UNCHANGED <<surface, windows, receipt, altered, status>>
      /\ checks' = [checks EXCEPT !.cases = CasesOf(r)]
      /\ pc' \in {"gating", "controller_error"}
  BY DEF Compare, Finish, Proceed
<1>2. Len(evidence) + 1 = PrefixLength
  BY RunningAt DEF Compare, Finish
<1> QED
  BY <1>1, <1>2, CasesGiven

LEMMA ObserveStep ==
  ASSUME IInv, pc = "running", NEW r \in Results, NEW wellFormed \in BOOLEAN,
         Observe(r, wellFormed)
  PROVE  IInv'
<1>1. /\ evidence' = Append(evidence, r) /\ UNCHANGED <<surface, windows, receipt, altered, status>>
      /\ checks' = checks
      /\ pc' \in {"ready", "gating", "controller_error"}
      /\ pc' = "ready" => r.ok
      /\ pc' = "gating" => ~r.ok
  BY DEF Observe, Finish, Proceed
<1>2. /\ surface = "binary" /\ ~Asm /\ Len(evidence) \in {2, 3}
      /\ PrefixLength = 5 /\ Len(Chain) = 6
  <2>1. surface = "binary" /\ Phase \in {"oracle", "replay"}
    BY DEF Observe, Finish
  <2>2. ~Asm
    BY <2>1 DEF Asm
  <2> QED
    BY <2>1, <2>2, RunningAt
<1>3. Len(evidence) < PrefixLength /\ Len(evidence) + 1 < Len(Chain)
  <2>1. CASE Len(evidence) = 2
    BY <1>2, <2>1
  <2>2. CASE Len(evidence) = 3
    BY <1>2, <2>2
  <2> QED
    BY <1>2, <2>1, <2>2
<1>4. checks' \in Checks
  BY <1>1, RunningAt
<1>5. TypeOK' /\ ChainKept' /\ BytesFollow' /\ OutcomeFollows'
  <2>1. pc' \in {"ready", "gating", "recording", "controller_error"} /\ pc' # "recording"
    BY <1>1
  <2> QED
    BY <1>1, <1>3, <1>4, <2>1, PhaseEnds
<1>6. /\ PrefixLength' = PrefixLength /\ Asm' = Asm /\ Chain' = Chain /\ receipt' = NoReceipt
      /\ Len(evidence') = Len(evidence) + 1
  <2>1. receipt = NoReceipt
    BY <1>3, NoReceiptYet
  <2> QED
    BY <1>1, <2>1, Grown
<1>7. ChecksFollow'
  <2>1. CASE Len(evidence) = 2
    <3>1. Len(evidence) + 1 = 3
      BY <2>1
    <3>2. Settles(r, 3)
      BY <1>1, <1>2 DEF Settles
    <3> QED
      BY <1>1, <3>1, <3>2, ChecksAfter
  <2>2. CASE Len(evidence) = 3
    <3>1. Len(evidence) + 1 = 4
      BY <2>2
    <3>2. Settles(r, 4)
      BY <1>1, <1>2 DEF Settles
    <3> QED
      BY <1>1, <3>1, <3>2, ChecksAfter
  <2> QED
    BY <1>2, <2>1, <2>2
<1>8. ReceiptFollows' /\ PlaceFollows' /\ RecordFollows'
  <2>1. Len(evidence') \in {3, 4}
    <3>1. CASE Len(evidence) = 2
      BY <1>6, <3>1
    <3>2. CASE Len(evidence) = 3
      BY <1>6, <3>2
    <3> QED
      BY <1>2, <3>1, <3>2
  <2>2. checks'.cases = "runtime_failure"
    BY <1>1, <1>3, NoReceiptYet
  <2>3. ~Asm' /\ PrefixLength' = 5 /\ surface' = "binary"
    BY <1>1, <1>2, <1>6
  <2>4. pc' \notin {"opened", "authorizing", "recording"}
    BY <1>1
  <2>5. /\ Len(evidence') < PrefixLength' /\ Len(evidence') <= PrefixLength'
        /\ ~(Len(evidence') > PrefixLength') /\ Len(evidence') \in 3..5
    BY <2>1, <2>3
  <2> QED
    BY <1>6, <2>2, <2>3, <2>4, <2>5 DEF ReceiptFollows, PlaceFollows, RecordFollows
<1> QED
  BY <1>5, <1>7, <1>8 DEF IInv
---------------------------------------------------------------------------
(* The benchmark and the profile.                                          *)

LEMMA CheckFields ==
  ASSUME NEW c \in Checks, NEW d \in Checks
  PROVE  [c EXCEPT !.timing = d.timing, !.profile = d.profile] = d <=> SamePrefix(c, d)
<1> DEFINE e == [c EXCEPT !.timing = d.timing, !.profile = d.profile]
<1>1. e \in Checks
  BY DEF Checks
<1>2. /\ e.build = c.build /\ e.static = c.static /\ e.diff = c.diff /\ e.native = c.native
      /\ e.cases = c.cases /\ e.timing = d.timing /\ e.profile = d.profile
  BY DEF Checks
<1> HIDE DEF e
<1>3. e = d <=> /\ e.build = d.build /\ e.static = d.static /\ e.diff = d.diff
                /\ e.native = d.native /\ e.cases = d.cases
                /\ e.timing = d.timing /\ e.profile = d.profile
  BY <1>1 DEF Checks
<1>4. e = d <=> SamePrefix(c, d)
  BY <1>2, <1>3 DEF SamePrefix
<1> QED
  BY <1>4 DEF e

\* The gate can judge a fast timing.
LEMMA FastIsJudged ==
  ASSUME NEW s \in Surface, NEW c \in Checks, c.timing \in Fast
  PROVE  GateStatus(s, c) # "input_invalid"
<1>1. c.cases \in {"passed"} \cup CaseFailure /\ c.profile \in Profile
  BY DEF Checks
<1>2. ProfileStatus(s, c) # "input_invalid"
  BY <1>1 DEF ProfileStatus, Profile
<1> QED
  BY <1>1, <1>2 DEF GateStatus, CaseFailure

\* When the gate asks for a profile.
LEMMA ProfileRequired ==
  ASSUME NEW s \in Surface, NEW c \in Checks
  PROVE  GateStatus(s, c) = "profile_required" =>
           s = "amdgcn_assembly" /\ c.timing \in Fast /\ c.profile = "not attempted"
<1> SUFFICES ASSUME GateStatus(s, c) = "profile_required"
             PROVE  s = "amdgcn_assembly" /\ c.timing \in Fast /\ c.profile = "not attempted"
  OBVIOUS
<1>1. c.cases \in {"passed"} \cup CaseFailure /\ c.timing \in Timing /\ c.profile \in Profile
  BY DEF Checks
<1>2. c.timing \in Fast
  BY <1>1 DEF GateStatus, CaseFailure, Timing, TimingStatus, Fast
<1>3. ProfileStatus(s, c) = "profile_required"
  BY <1>1, <1>2 DEF GateStatus, CaseFailure
<1>4. c.profile # "passed" /\ s = "amdgcn_assembly"
  BY <1>1, <1>3 DEF ProfileStatus, Profile
<1>5. c.profile # "failed"
  BY <1>3, <1>4 DEF ProfileStatus
<1> QED
  BY <1>1, <1>2, <1>4, <1>5 DEF Profile

\* From the benchmark on, the receipt is there to stay.
LEMMA ReceiptKept ==
  ASSUME IInv, pc = "running", NEW r \in Results,
         evidence' = Append(evidence, r), UNCHANGED <<surface, windows, receipt, altered, status>>,
         Len(evidence) >= PrefixLength,
         checks' \in Checks, SamePrefix(checks, checks'),
         pc' \in {"ready", "recording", "controller_error"}
  PROVE  /\ ReceiptFollows' /\ checks.cases = "passed"
         /\ Asm => checks.static
<1>1. /\ Len(evidence) \in Nat /\ checks \in Checks /\ surface \in Surface
      /\ PrefixLength \in {2, 5}
  BY RunningAt
<1>2. /\ receipt.phases = SubSeq(evidence, 1, PrefixLength)
      /\ [receipt.checks EXCEPT !.timing = checks.timing, !.profile = checks.profile] = checks
      /\ Proved
  <2>1. ~(Len(evidence) < PrefixLength)
    BY <1>1
  <2> QED
    BY <2>1 DEF IInv, ReceiptFollows, Busy
<1>3. /\ Len(evidence') = Len(evidence) + 1 /\ PrefixLength' = PrefixLength
      /\ evidence \in Seq(PhaseRecord) /\ evidence' \in Seq(PhaseRecord)
      /\ \A n \in 1..Len(evidence) : evidence'[n] = evidence[n]
  BY Grown DEF IInv, TypeOK
<1>4. SubSeq(evidence', 1, PrefixLength) = SubSeq(evidence, 1, PrefixLength)
  BY <1>1, <1>3
<1>5. /\ receipt.checks \in Checks
      /\ [receipt.checks EXCEPT !.timing = checks'.timing, !.profile = checks'.profile] = checks'
  <2>1. receipt.checks \in Checks
    BY DEF IInv, TypeOK
  <2>2. SamePrefix(receipt.checks, checks)
    BY <1>1, <1>2, <2>1, CheckFields
  <2>3. SamePrefix(receipt.checks, checks')
    BY <2>2 DEF SamePrefix
  <2> QED
    BY <2>1, <2>3, CheckFields
<1>6. Proved'
  <2>1. \A n \in 1..PrefixLength : OkAt(evidence', n)
    <3> SUFFICES ASSUME NEW n \in 1..PrefixLength PROVE OkAt(evidence', n)
      OBVIOUS
    <3>1. n \in 1..Len(evidence) /\ OkAt(evidence, n)
      BY <1>1, <1>2 DEF Proved
    <3> QED
      BY <1>1, <1>3, <3>1 DEF OkAt
  <2>2. /\ checks'.build /\ checks'.cases = "passed"
        /\ StaticPassed(surface', checks') /\ AsmProvenancePassed(surface', checks')
    BY <1>2 DEF Proved, SamePrefix, StaticPassed, AsmProvenancePassed
  <2> QED
    BY <1>3, <2>1, <2>2 DEF Proved
<1>7. Asm => checks.static
  BY <1>2 DEF Proved, StaticPassed, Asm
<1>8. receipt' = receipt /\ Len(evidence') >= PrefixLength'
  BY <1>1, <1>3
<1> QED
  <2>1. ReceiptFollows'
    BY <1>2, <1>3, <1>4, <1>5, <1>6, <1>8 DEF ReceiptFollows
  <2> QED
    BY <1>2, <1>7, <2>1 DEF Proved

LEMMA BenchmarkStep ==
  ASSUME IInv, pc = "running", NEW r \in Results, NEW wellFormed \in BOOLEAN,
         Benchmark(r, wellFormed)
  PROVE  IInv'
<1> DEFINE t == IF r.ok THEN r.claim ELSE "invalid"
<1>1. /\ evidence' = Append(evidence, r) /\ UNCHANGED <<surface, windows, receipt, altered, status>>
      /\ checks' = [checks EXCEPT !.timing = t]
      /\ pc' \in {"ready", "recording", "controller_error"}
      /\ pc' # "controller_error" => Unaltered(Reverified)
      /\ pc' = "ready" => GateStatus(surface, checks') = "profile_required"
      /\ pc' = "recording" => GateStatus(surface, checks') # "profile_required"
      /\ pc' = "recording" /\ Asm => GateStatus(surface, checks') # "input_invalid"
  BY DEF Asm, Benchmark, Finish, Proceed
<1>2. /\ Len(evidence) = PrefixLength /\ PrefixLength \in {2, 5} /\ surface \in Surface
      /\ checks \in Checks /\ (surface # "source" => PrefixLength = 5)
      /\ Len(Chain) = IF Asm THEN PrefixLength + 2 ELSE PrefixLength + 1
  <2>1. Phase = "benchmark"
    BY DEF Benchmark, Finish
  <2> QED
    BY <2>1, RunningAt
<1>3. t \in Timing
  BY <1>2, ClaimFacts DEF Timing
<1>4. r.ok \in BOOLEAN
  BY ClaimFacts
<1> HIDE DEF t
<1>5. checks' \in Checks
  BY <1>1, <1>2, <1>3 DEF Checks
<1>6. /\ checks'.timing = t /\ checks'.static = checks.static
      /\ checks'.build = checks.build /\ checks'.diff = checks.diff
      /\ checks'.native = checks.native /\ checks'.cases = checks.cases
      /\ checks'.profile = checks.profile
  BY <1>1, <1>2 DEF Checks
<1>7. pc' = "ready" => Asm /\ r.ok /\ r.claim \in Fast
  <2> SUFFICES ASSUME pc' = "ready" PROVE Asm /\ r.ok /\ r.claim \in Fast
    OBVIOUS
  <2>1. surface = "amdgcn_assembly" /\ checks'.timing \in Fast
    BY <1>1, <1>2, <1>5, ProfileRequired
  <2>2. t \in Fast
    BY <1>6, <2>1
  <2> QED
    BY <2>1, <2>2 DEF Asm, Fast, t
<1>8. TypeOK' /\ ChainKept' /\ BytesFollow' /\ OutcomeFollows'
  <2>1. pc' = "ready" => r.ok /\ Len(evidence) + 1 < Len(Chain)
    BY <1>2, <1>7
  <2>2. pc' = "recording" /\ ~Asm /\ Len(evidence) >= PrefixLength => "proposal" \notin altered
    BY <1>1 DEF Unaltered, Reverified, FrozenContext
  <2>3. pc' \in {"ready", "gating", "recording", "controller_error"}
    BY <1>1
  <2> QED
    BY <1>1, <1>5, <2>1, <2>2, <2>3, PhaseEnds
<1>9. /\ PrefixLength' = PrefixLength /\ Asm' = Asm /\ Chain' = Chain
      /\ Len(evidence') = PrefixLength + 1 /\ evidence'[PrefixLength + 1] = r
  BY <1>1, <1>2, Grown
<1>10. ChecksFollow'
  <2>1. /\ PrefixLength + 1 # 1 /\ PrefixLength + 1 # 4 /\ PrefixLength + 1 # 2
        /\ (surface # "source" => PrefixLength + 1 # 3)
        /\ PrefixLength + 1 # PrefixLength /\ PrefixLength + 1 # PrefixLength + 2
    BY <1>2
  <2>2. Settles(r, PrefixLength + 1)
    BY <1>6, <2>1 DEF Settles, t, Asm
  <2>3. Settles(r, Len(evidence) + 1)
    BY <1>2, <2>2
  <2> QED
    BY <1>1, <2>3, ChecksAfter
<1>11. ReceiptFollows' /\ (Asm => checks.static)
  <2>1. SamePrefix(checks, checks')
    BY <1>6 DEF SamePrefix
  <2>2. Len(evidence) >= PrefixLength
    BY <1>2
  <2> QED
    BY <1>1, <1>5, <2>1, <2>2, ReceiptKept
<1>12. PlaceFollows'
  <2>1. pc' = "ready" => Asm' /\ evidence'[PrefixLength' + 1].claim \in Fast
    BY <1>7, <1>9
  <2>2. Asm' => checks'.static
    BY <1>6, <1>9, <1>11
  <2>3. pc' \notin {"opened", "gating", "authorizing", "running"}
    BY <1>1
  <2> QED
    BY <2>1, <2>2, <2>3 DEF PlaceFollows, Busy
<1>13. RecordFollows'
  <2> SUFFICES ASSUME pc' = "recording" PROVE RecordFollows'
    BY DEF RecordFollows
  <2>1. Submitted' # "profile_required" /\ (Asm' => Submitted' # "input_invalid")
    BY <1>1, <1>9 DEF Submitted
  <2>2. Len(evidence') >= 1 /\ ~(Len(evidence') <= PrefixLength')
    BY <1>2, <1>9
  <2> QED
    BY <2>1, <2>2 DEF RecordFollows
<1> QED
  BY <1>8, <1>10, <1>11, <1>12, <1>13 DEF IInv

LEMMA ProfileStep ==
  ASSUME IInv, pc = "running", NEW r \in Results, NEW wellFormed \in BOOLEAN,
         ProfileCandidate(r, wellFormed)
  PROVE  IInv'
<1> DEFINE p == IF r.ok THEN "passed" ELSE "failed"
<1>1. /\ evidence' = Append(evidence, r) /\ UNCHANGED <<surface, windows, receipt, altered, status>>
      /\ checks' = [checks EXCEPT !.profile = p]
      /\ pc' \in {"recording", "controller_error"}
  BY DEF ProfileCandidate, Finish, Proceed
<1>2. /\ Len(evidence) = PrefixLength + 1 /\ PrefixLength \in {2, 5} /\ surface \in Surface
      /\ checks \in Checks /\ (surface # "source" => PrefixLength = 5)
      /\ Len(Chain) = IF Asm THEN PrefixLength + 2 ELSE PrefixLength + 1
      /\ Len(evidence) < Len(Chain)
  <2>1. Phase = "profile"
    BY DEF ProfileCandidate, Finish
  <2> QED
    BY <2>1, RunningAt
<1>3. Asm /\ PrefixLength = 5 /\ Len(evidence) = 6
  <2>1. Asm
    BY <1>2
  <2> QED
    BY <1>2, <2>1 DEF Asm
<1>4. p \in {"passed", "failed"}
  OBVIOUS
<1> HIDE DEF p
<1>5. checks' \in Checks
  BY <1>1, <1>2, <1>4 DEF Checks, Profile
<1>6. /\ checks'.profile = p /\ checks'.static = checks.static
      /\ checks'.build = checks.build /\ checks'.diff = checks.diff
      /\ checks'.native = checks.native /\ checks'.cases = checks.cases
      /\ checks'.timing = checks.timing
  BY <1>1, <1>2 DEF Checks
<1>7. TypeOK' /\ ChainKept' /\ BytesFollow' /\ OutcomeFollows'
  <2>1. pc' \in {"ready", "gating", "recording", "controller_error"} /\ pc' # "ready"
    BY <1>1
  <2> QED
    BY <1>1, <1>3, <1>5, <2>1, PhaseEnds
<1>8. /\ PrefixLength' = PrefixLength /\ Asm' = Asm /\ Chain' = Chain
      /\ Len(evidence') = Len(evidence) + 1
  BY <1>1, Grown
<1>9. ChecksFollow'
  <2>1. surface # "binary" /\ Len(evidence) + 1 = 7
    BY <1>3 DEF Asm
  <2>2. Settles(r, 7)
    BY <1>3, <1>6, <2>1 DEF Settles, p
  <2> QED
    BY <1>1, <2>1, <2>2, ChecksAfter
<1>10. ReceiptFollows' /\ (Asm => checks.static)
  <2>1. SamePrefix(checks, checks')
    BY <1>6 DEF SamePrefix
  <2>2. Len(evidence) >= PrefixLength
    BY <1>3
  <2>3. pc' \in {"ready", "recording", "controller_error"}
    BY <1>1
  <2> QED
    BY <1>1, <1>5, <2>1, <2>2, <2>3, ReceiptKept
<1>11. PlaceFollows'
  <2>1. Asm' => checks'.static
    BY <1>6, <1>8, <1>10
  <2>2. pc' \notin {"opened", "gating", "authorizing", "running", "ready"}
    BY <1>1
  <2> QED
    BY <2>1, <2>2 DEF PlaceFollows, Busy
<1>12. RecordFollows'
  <2>1. checks'.profile # "not attempted"
    BY <1>4, <1>6
  <2>2. Submitted' # "profile_required"
    BY <1>1, <1>2, <1>5, <2>1, ProfileRequired DEF Submitted
  <2>3. Len(evidence') = 7 /\ PrefixLength' = 5
    BY <1>3, <1>8
  <2>4. Submitted' # "input_invalid"
    <3>1. evidence[6].claim \in Fast /\ evidence[6].ok
      BY <1>1, <1>3 DEF IInv, PlaceFollows, ChainKept, Busy
    <3>2. PrefixLength + 1 = 6 /\ OkAt(evidence, PrefixLength + 1)
      BY <1>3, <3>1 DEF OkAt
    <3>3. checks.timing = evidence[PrefixLength + 1].claim
      BY <3>2 DEF IInv, ChecksFollow
    <3>4. checks.timing \in Fast
      BY <3>1, <3>2, <3>3
    <3> QED
      BY <1>1, <1>2, <1>5, <1>6, <3>4, FastIsJudged DEF Submitted
  <2> QED
    BY <2>2, <2>3, <2>4 DEF RecordFollows
<1> QED
  BY <1>7, <1>9, <1>10, <1>11, <1>12 DEF IInv
---------------------------------------------------------------------------
(* What is between the phases.                                             *)

\* What holds of a step that only moves the controller on.
LEMMA Moved ==
  ASSUME IInv, UNCHANGED <<surface, windows, evidence, checks, altered, status>>,
         pc \notin Ended, pc' \notin {"recorded", "refused"}
  PROVE  /\ ChecksFollow' /\ OutcomeFollows'
         /\ Chain' = Chain /\ PrefixLength' = PrefixLength /\ Asm' = Asm /\ Submitted' = Submitted
         /\ Len(evidence) \in Nat /\ surface \in Surface /\ checks \in Checks
         /\ PrefixLength \in {2, 5} /\ (surface # "source" => PrefixLength = 5)
         /\ (surface = "source" => PrefixLength = 2)
         /\ Len(Chain) = IF Asm THEN PrefixLength + 2 ELSE PrefixLength + 1
<1>1. Chain' = Chain /\ PrefixLength' = PrefixLength /\ Asm' = Asm /\ Submitted' = Submitted
  BY DEF Chain, PrefixLength, Asm, Submitted
<1>2. /\ Len(evidence) \in Nat /\ surface \in Surface /\ checks \in Checks
      /\ PrefixLength \in {2, 5} /\ (surface # "source" => PrefixLength = 5)
      /\ (surface = "source" => PrefixLength = 2)
      /\ Len(Chain) = IF Asm THEN PrefixLength + 2 ELSE PrefixLength + 1
  BY ChainFacts DEF IInv, TypeOK, PrefixLength
<1>3. ChecksFollow'
  BY <1>1 DEF IInv, ChecksFollow, OkAt
<1>4. OutcomeFollows'
  <2>1. status' = "none"
    BY DEF IInv, OutcomeFollows, Ended
  <2> QED
    BY <2>1 DEF OutcomeFollows, AcceptanceIsEarned, RefusedOnlyForCause
<1> QED
  BY <1>1, <1>2, <1>3, <1>4

LEMMA StartStep == ASSUME IInv, Start PROVE IInv'
<1>1. /\ pc = "opened" /\ pc' \in {"ready", "controller_error"}
      /\ UNCHANGED <<surface, windows, evidence, checks, receipt, altered, status>>
  BY DEF Start, Proceed
<1>2. /\ ChecksFollow' /\ OutcomeFollows'
      /\ Chain' = Chain /\ PrefixLength' = PrefixLength /\ Asm' = Asm
      /\ PrefixLength \in {2, 5}
      /\ Len(Chain) = IF Asm THEN PrefixLength + 2 ELSE PrefixLength + 1
  BY <1>1, Moved DEF Ended
<1>3. evidence = <<>> /\ Len(evidence) = 0 /\ receipt = NoReceipt
  <2>1. evidence = <<>>
    BY <1>1 DEF IInv, PlaceFollows
  <2>2. receipt = NoReceipt
    BY <1>1 DEF IInv, ReceiptFollows
  <2> QED
    BY <2>1, <2>2
<1>4. Len(evidence) < Len(Chain) /\ Len(evidence) < PrefixLength
  BY <1>2, <1>3
<1>5. TypeOK' /\ ChainKept' /\ BytesFollow'
  <2>1. TypeOK'
    BY <1>1, <1>2 DEF IInv, TypeOK, Ended
  <2>2. ChainKept' /\ BytesFollow'
    BY <1>1, <1>2, <1>3, <1>4 DEF IInv, ChainKept, BytesFollow
  <2> QED
    BY <2>1, <2>2
<1>6. ReceiptFollows' /\ PlaceFollows' /\ RecordFollows'
  BY <1>1, <1>2, <1>3, <1>4 DEF ReceiptFollows, PlaceFollows, RecordFollows
<1> QED
  BY <1>2, <1>5, <1>6 DEF IInv

LEMMA InvokeStep == ASSUME IInv, Invoke PROVE IInv'
<1>1. /\ pc = "ready" /\ pc' \in {"running", "controller_error"}
      /\ UNCHANGED <<surface, windows, evidence, checks, receipt, altered, status>>
  BY DEF Invoke, Proceed
<1>2. /\ ChecksFollow' /\ OutcomeFollows'
      /\ Chain' = Chain /\ PrefixLength' = PrefixLength /\ Asm' = Asm
  BY <1>1, Moved DEF Ended
<1>3. TypeOK'
  BY <1>1, <1>2 DEF IInv, TypeOK, Ended
<1>4. ChainKept' /\ BytesFollow'
  BY <1>1, <1>2 DEF IInv, ChainKept, BytesFollow, Busy
<1>5. ReceiptFollows'
  <2>1. Proved' = Proved
    BY <1>1, <1>2 DEF Proved, StaticPassed, AsmProvenancePassed, OkAt
  <2> QED
    BY <1>1, <1>2, <2>1 DEF IInv, ReceiptFollows, Busy
<1>6. PlaceFollows' /\ RecordFollows'
  BY <1>1, <1>2 DEF IInv, PlaceFollows, RecordFollows, Busy
<1> QED
  BY <1>2, <1>3, <1>4, <1>5, <1>6 DEF IInv

\* A prefix that the gate stops at anything but the timing is a rejection
\* that lineage expects of as many phases.
LEMMA Stopped ==
  ASSUME IInv, pc = "gating", Submitted # "timing_invalid"
  PROVE  /\ Submitted \in Rejection /\ Len(evidence) \in RejectedLengths
         /\ Len(evidence) >= 1 /\ Len(evidence) <= PrefixLength
<1>1. /\ surface \in Surface /\ checks \in Checks /\ Len(evidence) \in Nat
      /\ PrefixLength \in {2, 5} /\ (surface # "source" => PrefixLength = 5)
      /\ (surface = "source" => PrefixLength = 2)
  BY ChainFacts DEF IInv, TypeOK, PrefixLength
<1>2. ChainKept /\ ChecksFollow /\ PlaceFollows
  BY DEF IInv
<1>3. \/ Len(evidence) = PrefixLength
      \/ surface = "binary" /\ Len(evidence) \in 3..5 /\ checks.cases = "runtime_failure"
  BY <1>2 DEF PlaceFollows
<1>4. Len(evidence) >= 2 /\ Len(evidence) <= PrefixLength /\ (surface # "source" => Len(evidence) >= 3)
  <2>1. CASE Len(evidence) = PrefixLength
    BY <1>1, <2>1
  <2>2. CASE surface = "binary" /\ Len(evidence) \in 3..5
    <3>1. PrefixLength = 5
      BY <1>1, <2>2
    <3>2. Len(evidence) >= 3 /\ Len(evidence) <= 5
      <4>1. \A n \in 3..5 : n >= 3 /\ n <= 5
        OBVIOUS
      <4>2. Len(evidence) \in 3..5
        BY <2>2
      <4> QED
        BY <4>1, <4>2
    <3>3. Len(evidence) >= 2
      BY <1>1, <3>2
    <3> QED
      BY <3>1, <3>2, <3>3
  <2> QED
    BY <1>3, <2>1, <2>2
<1>5. checks.build
  <2>1. 1 \in 1..Len(evidence) /\ 1 < Len(evidence)
    BY <1>1, <1>4
  <2>2. OkAt(evidence, 1)
    BY <1>2, <2>1 DEF ChainKept, OkAt
  <2> QED
    BY <1>2, <2>2 DEF ChecksFollow
<1>6. StaticPassed(surface, checks)
  <2>1. CASE surface = "source"
    BY <2>1 DEF StaticPassed
  <2>2. CASE surface = "binary"
    <3>1. Len(evidence) >= 3
      BY <1>4, <2>2
    <3>2. OkAt(evidence, 2)
      BY <1>2, <3>1 DEF ChainKept, OkAt
    <3> QED
      BY <1>2, <2>2, <3>2 DEF ChecksFollow, StaticPassed
  <2>3. CASE surface = "amdgcn_assembly"
    <3>1. Len(evidence) = 5
      BY <1>1, <1>3, <2>3
    <3> QED
      BY <1>2, <2>3, <3>1 DEF PlaceFollows, StaticPassed, Asm
  <2> QED
    BY <1>1, <2>1, <2>2, <2>3 DEF Surface
<1>7. CASE ~AsmProvenancePassed(surface, checks)
  <2>1. surface = "amdgcn_assembly"
    BY <1>7 DEF AsmProvenancePassed
  <2>2. Submitted = "asm_provenance_invalid"
    BY <1>5, <1>6, <1>7 DEF Submitted, GateStatus
  <2>3. Len(evidence) = 5
    BY <1>1, <1>3, <2>1
  <2>4. RejectedLengths = 2..6 /\ Submitted \in Rejection
    <3>1. RejectedLengths = 2..6
      BY <2>2 DEF RejectedLengths, CaseFailure
    <3> QED
      BY <2>2, <3>1 DEF Rejection
  <2> QED
    BY <1>4, <2>3, <2>4
<1>8. CASE AsmProvenancePassed(surface, checks) /\ checks.cases # "passed"
  <2>1. Submitted = checks.cases /\ Submitted \in CaseFailure
    BY <1>1, <1>5, <1>6, <1>8 DEF Submitted, GateStatus, Checks
  <2>2. Submitted \in Rejection
    BY <2>1 DEF Rejection
  <2>3. Submitted \notin {"build_invalid", "asm_provenance_invalid", "static_invalid"}
    BY <2>1 DEF CaseFailure
  <2>4. Len(evidence) \in RejectedLengths
    <3>1. CASE surface = "source"
      <4>1. RejectedLengths = {2}
        BY <2>1, <2>3, <3>1 DEF RejectedLengths, CaseFailure
      <4>2. Len(evidence) = 2
        BY <1>1, <1>3, <3>1
      <4> QED
        BY <4>1, <4>2
    <3>2. CASE surface # "source" /\ Submitted = "runtime_failure"
      <4>1. RejectedLengths = {3, 4, 5}
        BY <2>1, <3>2 DEF RejectedLengths, CaseFailure
      <4>2. Len(evidence) \in 3..5
        BY <1>1, <1>3, <3>2
      <4> QED
        BY <4>1, <4>2
    <3>3. CASE surface # "source" /\ Submitted # "runtime_failure"
      <4>1. RejectedLengths = {5}
        BY <2>1, <3>3 DEF RejectedLengths, CaseFailure
      <4>2. Len(evidence) = 5
        BY <1>1, <1>3, <2>1, <3>3
      <4> QED
        BY <4>1, <4>2
    <3> QED
      BY <3>1, <3>2, <3>3
  <2> QED
    BY <1>4, <2>2, <2>4
<1>9. CASE AsmProvenancePassed(surface, checks) /\ checks.cases = "passed"
  <2>1. ~OkAt(evidence, PrefixLength + 1)
    BY <1>1, <1>4 DEF OkAt
  <2>2. checks.timing = "invalid"
    BY <1>2, <2>1 DEF ChecksFollow
  <2>3. Submitted = "timing_invalid"
    BY <1>5, <1>6, <1>9, <2>2 DEF Submitted, GateStatus, TimingStatus, Fast
  <2> QED
    BY <2>3
<1> QED
  BY <1>7, <1>8, <1>9

LEMMA GatePrefixStep ==
  ASSUME IInv, NEW wellFormed \in BOOLEAN, GatePrefix(wellFormed)
  PROVE  IInv'
<1>1. /\ pc = "gating" /\ pc' \in {"authorizing", "recording", "controller_error"}
      /\ UNCHANGED <<surface, windows, evidence, checks, receipt, altered, status>>
      /\ pc' = "authorizing" => Submitted = "timing_invalid"
      /\ pc' = "recording" => Submitted # "timing_invalid"
  BY DEF GatePrefix, Proceed, PassesPrefix, Submitted
<1>2. /\ ChecksFollow' /\ OutcomeFollows'
      /\ Chain' = Chain /\ PrefixLength' = PrefixLength /\ Asm' = Asm /\ Submitted' = Submitted
      /\ surface \in Surface /\ checks \in Checks /\ PrefixLength \in {2, 5}
      /\ Len(evidence) \in Nat
  BY <1>1, Moved DEF Ended
<1>3. receipt = NoReceipt /\ Len(evidence) <= PrefixLength
  BY <1>1 DEF IInv, ReceiptFollows
<1>4. ReceiptFollows'
  BY <1>1, <1>2, <1>3 DEF ReceiptFollows, Busy
<1>5. TypeOK'
  BY <1>1, <1>2 DEF IInv, TypeOK, Ended
<1>6. pc' = "authorizing" => Len(evidence) = PrefixLength /\ Proved
  <2> SUFFICES ASSUME pc' = "authorizing" PROVE Len(evidence) = PrefixLength /\ Proved
    OBVIOUS
  <2>1. GateStatus(surface, checks) = "timing_invalid"
    BY <1>1 DEF Submitted
  <2>2. /\ checks.build /\ StaticPassed(surface, checks) /\ AsmProvenancePassed(surface, checks)
        /\ checks.cases = "passed"
    BY <1>2, <2>1 DEF GateStatus, Checks, CaseFailure
  <2>3. Len(evidence) = PrefixLength
    BY <1>1, <2>2 DEF IInv, PlaceFollows
  <2>4. OkAt(evidence, PrefixLength)
    BY <2>2 DEF IInv, ChecksFollow
  <2>5. \A n \in 1..PrefixLength : OkAt(evidence, n)
    <3> SUFFICES ASSUME NEW n \in 1..PrefixLength PROVE OkAt(evidence, n)
      OBVIOUS
    <3>1. CASE n = PrefixLength
      BY <2>4, <3>1
    <3>2. CASE n # PrefixLength
      <4>1. n \in 1..Len(evidence) /\ n < Len(evidence)
        BY <1>2, <2>3, <3>2
      <4> QED
        BY <4>1 DEF IInv, ChainKept, OkAt
    <3> QED
      BY <3>1, <3>2
  <2> QED
    BY <2>2, <2>3, <2>5 DEF Proved
<1>7. ChainKept'
  <2>1. pc' = "authorizing" => \A n \in 1..Len(evidence) : evidence[n].ok
    BY <1>6 DEF Proved, OkAt
  <2> QED
    BY <1>1, <1>2, <2>1 DEF IInv, ChainKept, Busy
<1>8. BytesFollow'
  BY <1>1, <1>2, <1>3 DEF IInv, BytesFollow
<1>9. PlaceFollows'
  <2>1. Proved' = Proved
    BY <1>1, <1>2 DEF Proved, StaticPassed, AsmProvenancePassed, OkAt
  <2> QED
    BY <1>1, <1>2, <1>6, <2>1 DEF IInv, PlaceFollows, Busy
<1>10. RecordFollows'
  <2> SUFFICES ASSUME pc' = "recording" PROVE RecordFollows'
    BY DEF RecordFollows
  <2>1. /\ Submitted \in Rejection /\ Len(evidence) \in RejectedLengths
        /\ Len(evidence) >= 1 /\ Len(evidence) <= PrefixLength
    BY <1>1, Stopped
  <2>2. RejectedLengths' = RejectedLengths /\ Rejection' = Rejection
    BY <1>1, <1>2 DEF RejectedLengths, Rejection
  <2> QED
    BY <1>1, <1>2, <1>3, <2>1, <2>2 DEF RecordFollows
<1> QED
  BY <1>2, <1>4, <1>5, <1>7, <1>8, <1>9, <1>10 DEF IInv

LEMMA IssueReceiptStep == ASSUME IInv, IssueReceipt PROVE IInv'
<1>1. /\ pc = "authorizing" /\ pc' \in {"ready", "controller_error"}
      /\ receipt' = [phases |-> evidence, checks |-> checks]
      /\ UNCHANGED <<surface, windows, evidence, checks, altered, status>>
  BY DEF IssueReceipt, Proceed
<1>2. /\ ChecksFollow' /\ OutcomeFollows'
      /\ Chain' = Chain /\ PrefixLength' = PrefixLength /\ Asm' = Asm
      /\ surface \in Surface /\ checks \in Checks /\ PrefixLength \in {2, 5}
      /\ Len(Chain) = IF Asm THEN PrefixLength + 2 ELSE PrefixLength + 1
  BY <1>1, Moved DEF Ended
<1>3. Len(evidence) = PrefixLength /\ Proved
  BY <1>1 DEF IInv, PlaceFollows
<1>4. TypeOK'
  <2>1. evidence \in Seq(PhaseRecord) /\ receipt'.phases = evidence /\ receipt'.checks = checks
    BY <1>1 DEF IInv, TypeOK
  <2> QED
    BY <1>1, <1>2, <2>1 DEF IInv, TypeOK, Ended
<1>5. ChainKept' /\ BytesFollow'
  <2>1. Len(evidence) < Len(Chain)
    BY <1>2, <1>3
  <2> QED
    BY <1>1, <1>2, <2>1 DEF IInv, ChainKept, BytesFollow, Busy
<1>6. ReceiptFollows'
  <2>1. Proved' = Proved
    BY <1>1, <1>2 DEF Proved, StaticPassed, AsmProvenancePassed, OkAt
  <2>2. evidence \in Seq(PhaseRecord) /\ PrefixLength \in Nat
    BY <1>2 DEF IInv, TypeOK
  <2>3. receipt'.phases = SubSeq(evidence, 1, PrefixLength)
    BY <1>1, <1>3, <2>2
  <2>4. [receipt'.checks EXCEPT !.timing = checks.timing, !.profile = checks.profile] = checks
    BY <1>1, <1>2, CheckFields DEF SamePrefix
  <2>5. Len(evidence) >= PrefixLength
    BY <1>3, <2>2
  <2> QED
    BY <1>1, <1>2, <1>3, <2>1, <2>3, <2>4, <2>5 DEF ReceiptFollows
<1>7. PlaceFollows' /\ RecordFollows'
  <2>1. Asm => checks.static
    BY <1>3 DEF Proved, StaticPassed, Asm
  <2>2. ~(Len(evidence) > PrefixLength)
    BY <1>2, <1>3
  <2> QED
    BY <1>1, <1>2, <2>1, <2>2 DEF PlaceFollows, RecordFollows
<1> QED
  BY <1>2, <1>4, <1>5, <1>6, <1>7 DEF IInv

LEMMA AlterStep == ASSUME IInv, NEW f \in Alterable, Alter(f) PROVE IInv'
<1>1. /\ pc \notin Ended /\ Present(f) /\ altered' = altered \cup {f} /\ f \in File
      /\ UNCHANGED <<surface, windows, pc, evidence, checks, receipt, status>>
  BY AlterableAssumption DEF Alter
<1>2. /\ ChecksFollow' /\ OutcomeFollows'
  <2>1. status' = "none" /\ pc' \notin Ended
    BY <1>1 DEF IInv, OutcomeFollows, Ended
  <2>2. OutcomeFollows'
    BY <2>1 DEF OutcomeFollows, AcceptanceIsEarned, RefusedOnlyForCause, Ended
  <2>3. ChecksFollow'
    BY <1>1 DEF IInv, ChecksFollow, OkAt, Asm, PrefixLength
  <2> QED
    BY <2>2, <2>3
<1>3. Chain' = Chain /\ PrefixLength' = PrefixLength /\ Asm' = Asm
  BY <1>1 DEF Chain, PrefixLength, Asm
<1>4. TypeOK' /\ ChainKept'
  BY <1>1, <1>3 DEF IInv, TypeOK, ChainKept
<1>5. ReceiptFollows' /\ PlaceFollows' /\ RecordFollows'
  <2>1. Proved' = Proved
    BY <1>1, <1>3 DEF Proved, StaticPassed, AsmProvenancePassed, OkAt
  <2>2. Submitted' = Submitted /\ RejectedLengths' = RejectedLengths
    BY <1>1, <1>3 DEF Submitted, RejectedLengths
  <2>3. ReceiptFollows'
    BY <1>1, <1>3, <2>1 DEF IInv, ReceiptFollows
  <2>4. PlaceFollows' /\ RecordFollows'
    BY <1>1, <1>3, <2>1, <2>2 DEF IInv, PlaceFollows, RecordFollows
  <2> QED
    BY <2>3, <2>4
<1>6. BytesFollow'
  <2>1. f = "asm_inputs" => Asm
    BY <1>1 DEF Present, Asm
  <2> QED
    BY <1>1, <1>3, <2>1 DEF IInv, BytesFollow
<1> QED
  BY <1>2, <1>4, <1>5, <1>6 DEF IInv
---------------------------------------------------------------------------
(* What lineage makes of it.                                               *)

\* What a candidate must have shown to be accepted.
LEMMA AcceptedFacts ==
  ASSUME NEW s \in Surface, NEW c \in Checks, GateStatus(s, c) = "accepted"
  PROVE  /\ c.cases = "passed" /\ c.timing \in Fast /\ c.build
         /\ s = "amdgcn_assembly" => c.profile = "passed"
<1>1. c.cases \in {"passed"} \cup CaseFailure /\ c.timing \in Timing /\ c.profile \in Profile
  BY DEF Checks
<1>2. c.cases = "passed" /\ c.build
  BY <1>1 DEF GateStatus, CaseFailure
<1>3. c.timing \in Fast
  BY <1>1 DEF GateStatus, CaseFailure, Timing, TimingStatus, Fast
<1>4. ProfileStatus(s, c) = "accepted"
  BY <1>1, <1>2, <1>3 DEF GateStatus, CaseFailure
<1>5. s = "amdgcn_assembly" => c.profile = "passed"
  BY <1>1, <1>4 DEF ProfileStatus, Profile
<1> QED
  BY <1>2, <1>3, <1>5

\* Which evaluations have been timed.
LEMMA BenchmarkedAt ==
  IInv => /\ Benchmarked <=> Len(evidence) > PrefixLength
          /\ Len(evidence) \in Nat /\ PrefixLength \in {2, 5} /\ surface \in Surface
<1> SUFFICES ASSUME IInv
             PROVE  /\ Benchmarked <=> Len(evidence) > PrefixLength
                    /\ Len(evidence) \in Nat /\ PrefixLength \in {2, 5} /\ surface \in Surface
  OBVIOUS
<1>1. /\ Len(evidence) \in Nat /\ surface \in Surface /\ PrefixLength \in {2, 5}
      /\ Len(evidence) <= Len(Chain) /\ Len(Chain) \in Nat
      /\ evidence \in Seq(PhaseRecord) /\ DOMAIN evidence = 1..Len(evidence)
  BY ChainFacts DEF IInv, TypeOK, PrefixLength
<1>2. \A n \in 1..Len(evidence) : n \in 1..Len(Chain) /\ evidence[n].op = Chain[n]
  BY <1>1 DEF IInv, ChainKept
<1>3. \A n \in 1..Len(Chain) : Chain[n] = "benchmark" <=> n = PrefixLength + 1
  BY <1>1, PlaceOf
<1>4. ASSUME NEW n \in 1..Len(evidence), evidence[n].op = "benchmark"
      PROVE  Len(evidence) > PrefixLength
  <2>1. n = PrefixLength + 1
    BY <1>2, <1>3, <1>4
  <2> QED
    BY <1>1, <2>1
<1>5. ASSUME Len(evidence) > PrefixLength
      PROVE  \E n \in 1..Len(evidence) : evidence[n].op = "benchmark"
  <2>1. PrefixLength + 1 \in 1..Len(evidence)
    BY <1>1, <1>5
  <2>2. Chain[PrefixLength + 1] = "benchmark"
    BY <1>2, <1>3, <2>1
  <2> QED
    BY <1>2, <2>1, <2>2
<1> QED
  BY <1>1, <1>4, <1>5 DEF Benchmarked

\* What the invariant says of an evaluation that is submitted.
LEMMA Submission ==
  ASSUME IInv, pc = "recording"
  PROVE  /\ Len(evidence) \in Nat /\ surface \in Surface /\ checks \in Checks
         /\ PrefixLength \in {2, 5} /\ (surface # "source" => PrefixLength = 5)
         /\ Len(Chain) = IF Asm THEN PrefixLength + 2 ELSE PrefixLength + 1
         /\ Len(evidence) <= Len(Chain) /\ Len(evidence) >= 1
         /\ DOMAIN evidence = 1..Len(evidence)
         /\ \A n \in 1..Len(evidence) : evidence[n] \in PhaseRecord /\ n \in 1..Len(Chain)
         /\ Benchmarked <=> Len(evidence) > PrefixLength
<1>1. /\ Len(evidence) \in Nat /\ surface \in Surface /\ checks \in Checks
      /\ PrefixLength \in {2, 5} /\ (surface # "source" => PrefixLength = 5)
      /\ Len(Chain) = IF Asm THEN PrefixLength + 2 ELSE PrefixLength + 1
      /\ Len(evidence) <= Len(Chain) /\ Len(evidence) >= 1
      /\ evidence \in Seq(PhaseRecord) /\ DOMAIN evidence = 1..Len(evidence)
  BY ChainFacts DEF IInv, TypeOK, PrefixLength, RecordFollows
<1>2. \A n \in 1..Len(evidence) : evidence[n] \in PhaseRecord /\ n \in 1..Len(Chain)
  BY <1>1
<1> QED
  BY <1>1, <1>2, BenchmarkedAt

LEMMA AcceptanceEarned ==
  ASSUME IInv, pc = "recording", Accepts, Submitted = "accepted"
  PROVE  /\ [i \in DOMAIN evidence |-> evidence[i].op] = Chain
         /\ \A i \in DOMAIN evidence : evidence[i].ok /\ evidence[i].saw = {}
         /\ evidence[PrefixLength].claim = "passed"
         /\ evidence[PrefixLength + 1].claim = "fast"
<1>1. /\ Len(evidence) \in Nat /\ surface \in Surface /\ checks \in Checks
      /\ PrefixLength \in {2, 5}
      /\ Len(Chain) = IF Asm THEN PrefixLength + 2 ELSE PrefixLength + 1
      /\ Len(evidence) <= Len(Chain) /\ DOMAIN evidence = 1..Len(evidence)
      /\ \A n \in 1..Len(evidence) : evidence[n] \in PhaseRecord
  BY Submission
<1>2. /\ checks.cases = "passed" /\ checks.timing = "fast" /\ checks.build
      /\ Asm => checks.profile = "passed"
  BY <1>1, AcceptedFacts DEF Submitted, Asm, Accepts, Recordable, Fast
<1>3. ChecksFollow
  BY DEF IInv
<1>4. OkAt(evidence, PrefixLength) /\ evidence[PrefixLength].claim = "passed"
  BY <1>2, <1>3 DEF ChecksFollow
<1>5. OkAt(evidence, PrefixLength + 1) /\ evidence[PrefixLength + 1].claim = "fast"
  BY <1>2, <1>3 DEF ChecksFollow
<1>6. Len(evidence) = Len(Chain) /\ evidence[Len(evidence)].ok
  <2>1. CASE ~Asm
    <3>1. Len(evidence) = PrefixLength + 1 /\ Len(Chain) = PrefixLength + 1
      <4>1. Len(Chain) = PrefixLength + 1
        BY <1>1, <2>1
      <4>2. /\ Len(evidence) <= PrefixLength + 1 /\ Len(evidence) >= PrefixLength + 1
            /\ Len(evidence) \in Nat /\ PrefixLength \in Nat
        BY <1>1, <1>5, <4>1 DEF OkAt
      <4> QED
        BY <4>1, <4>2
    <3> QED
      BY <1>5, <3>1 DEF OkAt
  <2>2. CASE Asm
    <3>1. ~(Len(evidence) < PrefixLength + 2) /\ OkAt(evidence, PrefixLength + 2)
      BY <1>2, <1>3, <2>2 DEF ChecksFollow
    <3>2. Len(evidence) = PrefixLength + 2 /\ Len(Chain) = PrefixLength + 2
      <4>1. Len(Chain) = PrefixLength + 2
        BY <1>1, <2>2
      <4>2. /\ Len(evidence) <= PrefixLength + 2 /\ Len(evidence) >= PrefixLength + 2
            /\ Len(evidence) \in Nat /\ PrefixLength \in Nat
        BY <1>1, <3>1, <4>1 DEF OkAt
      <4> QED
        BY <4>1, <4>2
    <3> QED
      BY <3>1, <3>2 DEF OkAt
  <2> QED
    BY <2>1, <2>2
<1>7. \A n \in 1..Len(evidence) : evidence[n].ok
  <2>1. \A n \in 1..Len(evidence) : n < Len(evidence) => evidence[n].ok
    BY DEF IInv, ChainKept
  <2> QED
    BY <1>1, <1>6, <2>1
<1>8. [i \in DOMAIN evidence |-> evidence[i].op] = Chain
  <2>1. \A n \in 1..Len(evidence) : evidence[n].op = Chain[n]
    BY DEF IInv, ChainKept
  <2>2. Chain = [n \in 1..Len(Chain) |-> Chain[n]]
    BY <1>1 DEF Chain, FullChain, Surface
  <2> QED
    BY <1>1, <1>6, <2>1, <2>2
<1>9. \A n \in 1..Len(evidence) : evidence[n].saw = {}
  <2> SUFFICES ASSUME NEW n \in 1..Len(evidence), NEW f \in evidence[n].saw PROVE FALSE
    OBVIOUS
  <2>1. f \in altered /\ f \in File
    BY DEF IInv, BytesFollow, TypeOK
  <2>2. /\ f \notin {"frozen", "adapter", "output", "evidence", "candidate"}
        /\ Asm => f \notin {"proposal", "asm_inputs"}
    BY <1>2, <2>1 DEF Accepts, Unaltered, Rehashed, Asm
  <2>3. ~Asm => f # "asm_inputs" /\ f # "proposal"
    <3>1. Len(evidence) > PrefixLength
      BY <1>1, <1>5 DEF OkAt
    <3>2. ~Asm => "asm_inputs" \notin altered
      BY DEF IInv, BytesFollow
    <3>3. ~Asm => "proposal" \notin evidence[n].saw
      BY <3>1 DEF IInv, BytesFollow
    <3> QED
      BY <2>1, <3>2, <3>3
  <2> QED
    BY <2>1, <2>2, <2>3 DEF File
<1> QED
  BY <1>1, <1>4, <1>5, <1>7, <1>8, <1>9

\* Without a cause lineage accepts what it is given.
NoCause ==
  /\ altered = {} /\ ~Disagreeing(evidence[Len(evidence)])
  /\ evidence[Len(evidence)].reply # "garbled"
  /\ ~(Submitted = "accepted" /\ checks.timing = "infinite")
  /\ ~Asm => windows # "blank" /\ Submitted # "input_invalid"
  /\ \A i \in DOMAIN evidence : evidence[i].claim # "unclear"

LEMMA RejectionOrTimed ==
  ASSUME IInv, pc = "recording"
  PROVE  \/ /\ Len(evidence) <= PrefixLength /\ RejectedBefore
            /\ receipt = NoReceipt /\ Len(evidence) \in RejectedLengths
         \/ /\ Len(evidence) > PrefixLength /\ ~RejectedBefore
            /\ Submitted # "profile_required" /\ receipt # NoReceipt
            /\ receipt.phases = SubSeq(evidence, 1, PrefixLength)
            /\ [receipt.checks EXCEPT !.timing = checks.timing,
                                      !.profile = checks.profile] = checks
<1>1. /\ Len(evidence) \in Nat /\ PrefixLength \in {2, 5}
      /\ Benchmarked <=> Len(evidence) > PrefixLength
  BY Submission
<1>2. CASE Len(evidence) <= PrefixLength
  <2>1. receipt = NoReceipt /\ Submitted \in Rejection /\ Len(evidence) \in RejectedLengths
    BY <1>2 DEF IInv, RecordFollows
  <2>2. RejectedBefore
    BY <1>1, <1>2, <2>1 DEF RejectedBefore
  <2> QED
    BY <1>2, <2>1, <2>2
<1>3. CASE Len(evidence) > PrefixLength
  <2>1. ~(Len(evidence) <= PrefixLength)
    BY <1>1, <1>3
  <2>2. Submitted # "profile_required"
    BY <2>1 DEF IInv, RecordFollows
  <2>3. ~RejectedBefore
    BY <1>1, <1>3 DEF RejectedBefore
  <2>4. /\ receipt.phases = SubSeq(evidence, 1, PrefixLength)
        /\ [receipt.checks EXCEPT !.timing = checks.timing, !.profile = checks.profile] = checks
    BY <2>1 DEF IInv, ReceiptFollows
  <2>5. receipt # NoReceipt
    <3>1. evidence \in Seq(PhaseRecord) /\ 1 \in 1..PrefixLength
      BY <1>1 DEF IInv, TypeOK
    <3>2. Len(SubSeq(evidence, 1, PrefixLength)) = PrefixLength
      BY <1>1, <1>3, <3>1
    <3>3. Len(NoReceipt.phases) = 0
      BY DEF NoReceipt
    <3> QED
      BY <1>1, <2>4, <3>2, <3>3
  <2> QED
    BY <1>3, <2>2, <2>3, <2>4, <2>5
<1> QED
  BY <1>1, <1>2, <1>3

LEMMA NoCauseAccepted == ASSUME IInv, pc = "recording", NoCause PROVE Accepts
<1>1. /\ Len(evidence) \in Nat /\ surface \in Surface /\ checks \in Checks
      /\ PrefixLength \in {2, 5} /\ (surface # "source" => PrefixLength = 5)
      /\ Len(Chain) = IF Asm THEN PrefixLength + 2 ELSE PrefixLength + 1
      /\ Len(evidence) <= Len(Chain) /\ DOMAIN evidence = 1..Len(evidence)
      /\ \A n \in 1..Len(evidence) : evidence[n] \in PhaseRecord /\ n \in 1..Len(Chain)
  BY Submission
<1>2. ChainKept /\ ChecksFollow
  BY DEF IInv
<1>3. ChainFits
  <2>1. \A n \in 1..Len(evidence) : evidence[n].op = Chain[n]
    BY <1>2 DEF ChainKept
  <2>2. CASE Len(evidence) <= PrefixLength
    <3>1. RejectedBefore /\ receipt = NoReceipt /\ Len(evidence) \in RejectedLengths
      BY <1>1, <2>2, RejectionOrTimed
    <3> QED
      BY <1>1, <2>1, <3>1 DEF ChainFits, Stage
  <2>3. CASE Len(evidence) > PrefixLength
    <3>1. ~RejectedBefore /\ receipt # NoReceipt /\ Submitted # "profile_required"
      BY <1>1, <2>3, RejectionOrTimed
    <3>2. Len(evidence) \in TimedLengths
      <4>1. CASE Asm
        <5>1. Len(evidence) = Len(Chain) \/ Len(evidence) = Len(Chain) - 1
          <6>1. Len(Chain) = PrefixLength + 2
            BY <1>1, <4>1
          <6>2. /\ Len(evidence) <= PrefixLength + 2 /\ Len(evidence) > PrefixLength
                /\ Len(evidence) \in Nat /\ PrefixLength \in Nat
            BY <1>1, <2>3, <6>1
          <6> QED
            BY <6>1, <6>2
        <5> QED
          BY <4>1, <5>1 DEF TimedLengths, Asm
      <4>2. CASE ~Asm
        <5>1. Len(evidence) = Len(Chain)
          <6>1. Len(Chain) = PrefixLength + 1
            BY <1>1, <4>2
          <6>2. /\ Len(evidence) <= PrefixLength + 1 /\ Len(evidence) > PrefixLength
                /\ Len(evidence) \in Nat /\ PrefixLength \in Nat
            BY <1>1, <2>3, <6>1
          <6> QED
            BY <6>1, <6>2
        <5> QED
          BY <5>1 DEF TimedLengths
      <4> QED
        BY <4>1, <4>2
    <3> QED
      BY <1>1, <2>1, <3>1, <3>2 DEF ChainFits, Stage
  <2> QED
    BY <1>1, <2>2, <2>3
<1>4. EvidenceHolds
  <2>1. \A n \in 1..Len(evidence) : n < Len(evidence) => evidence[n].ok
    BY <1>2 DEF ChainKept
  <2>2. ASSUME NEW n \in 1..Len(evidence) PROVE Agrees(evidence[n])
    <3>1. evidence[n].ok \in BOOLEAN /\ evidence[n].reply \in Reply
      BY <1>1 DEF PhaseRecord
    <3>2. CASE evidence[n].ok
      <4>1. evidence[n].reply = "passed" /\ evidence[n].exit = "clean"
        BY <1>2, <3>2 DEF ChainKept
      <4> QED
        BY <3>2, <4>1 DEF Agrees
    <3>3. CASE ~evidence[n].ok
      <4>1. n = Len(evidence)
        <5>1. ~(n < Len(evidence)) /\ Len(evidence) \in Nat
          BY <1>1, <2>1, <3>3
        <5> QED
          BY <5>1
      <4>2. evidence[n].reply \notin {"garbled", "stale", "passed"}
        BY <3>3, <4>1 DEF NoCause, Disagreeing
      <4> QED
        BY <3>3, <4>2 DEF Agrees
    <3> QED
      BY <3>1, <3>2, <3>3
  <2> QED
    BY <1>1, <2>1, <2>2 DEF EvidenceHolds
<1>5. ChecksBound
  <2>1. \A n \in 1..Len(evidence) : evidence[n].op = Chain[n] /\ evidence[n].claim # "unclear"
    BY <1>1, <1>2 DEF ChainKept, NoCause
  <2>2. Asm => Claimed("disassemble", checks.diff)
    <3> SUFFICES ASSUME Asm, NEW n \in 1..Len(evidence),
                        evidence[n].op = "disassemble", evidence[n].ok
                 PROVE  evidence[n].claim = checks.diff
      BY <1>1 DEF Claimed
    <3>1. n = 2
      BY <1>1, <2>1, PlaceOf
    <3>2. OkAt(evidence, 2) /\ evidence[2].claim # "unclear"
      BY <1>1, <2>1, <3>1 DEF OkAt
    <3> QED
      BY <1>2, <3>1, <3>2 DEF ChecksFollow
  <2>3. Asm /\ Len(evidence) >= 3 =>
          (checks.static <=> evidence[3].ok /\ evidence[3].claim = "consistent")
    BY <1>2 DEF ChecksFollow, OkAt
  <2>4. Asm /\ Len(evidence) >= 4 => (checks.native <=> evidence[4].ok)
    BY <1>2 DEF ChecksFollow, OkAt
  <2>5. Claimed(Chain[PrefixLength], checks.cases)
    <3> SUFFICES ASSUME NEW n \in 1..Len(evidence),
                        evidence[n].op = Chain[PrefixLength], evidence[n].ok
                 PROVE  evidence[n].claim = checks.cases
      BY <1>1 DEF Claimed
    <3>1. Chain[n] = Chain[PrefixLength] /\ n \in 1..Len(Chain)
      BY <1>1, <2>1
    <3>2. n = PrefixLength
      <4>1. \/ surface # "binary" /\ Chain[PrefixLength] = "oracle"
            \/ surface = "binary" /\ Chain[PrefixLength] = "compare"
        BY <1>1 DEF Chain, FullChain, PrefixLength, Surface
      <4> QED
        BY <1>1, <3>1, <4>1, PlaceOf
    <3>3. OkAt(evidence, PrefixLength)
      BY <1>1, <3>2 DEF OkAt
    <3> QED
      BY <1>2, <3>2, <3>3 DEF ChecksFollow
  <2> QED
    BY <2>2, <2>3, <2>4, <2>5 DEF ChecksBound, Asm
<1>6. ReceiptBound
  <2>1. CASE Len(evidence) <= PrefixLength
    <3>1. RejectedBefore
      BY <1>1, <2>1, RejectionOrTimed
    <3> QED
      BY <3>1 DEF ReceiptBound
  <2>2. CASE Len(evidence) > PrefixLength
    <3>1. /\ receipt.phases = SubSeq(evidence, 1, PrefixLength)
          /\ [receipt.checks EXCEPT !.timing = checks.timing, !.profile = checks.profile] = checks
      BY <1>1, <2>2, RejectionOrTimed
    <3>2. Len(evidence) >= PrefixLength + 1
      BY <1>1, <2>2
    <3>3. OkAt(evidence, PrefixLength + 1) <=> evidence[PrefixLength + 1].ok
      BY <3>2 DEF OkAt
    <3>4. checks.timing = IF evidence[PrefixLength + 1].ok
                          THEN evidence[PrefixLength + 1].claim ELSE "invalid"
      BY <1>2, <3>3 DEF ChecksFollow
    <3> QED
      BY <3>1, <3>4 DEF ReceiptBound
  <2> QED
    BY <1>1, <2>1, <2>2
<1>7. Unaltered(Rehashed)
  BY DEF NoCause, Unaltered
<1>8. Recordable
  <2>1. windows = "named"
    BY DEF IInv, TypeOK, BytesFollow, NoCause, Asm
  <2>2. Submitted # "input_invalid"
    <3>1. CASE Asm
      <4>1. CASE Len(evidence) <= PrefixLength
        BY <1>1, <4>1, RejectionOrTimed DEF RejectedBefore, Rejection, CaseFailure
      <4>2. CASE ~(Len(evidence) <= PrefixLength)
        BY <3>1, <4>2 DEF IInv, RecordFollows
      <4> QED
        BY <4>1, <4>2
    <3>2. CASE ~Asm
      BY <3>2 DEF NoCause, Asm
    <3> QED
      BY <3>1, <3>2
  <2> QED
    BY <2>1, <2>2 DEF Recordable, NoCause
<1> QED
  BY <1>3, <1>4, <1>5, <1>6, <1>7, <1>8 DEF Accepts

LEMMA RecordStep == ASSUME IInv, RecordEvaluation PROVE IInv'
<1>1. /\ pc = "recording" /\ pc' \in {"recorded", "refused"}
      /\ UNCHANGED <<surface, windows, evidence, checks, receipt, altered>>
      /\ pc' = "recorded" => Accepts /\ status' = Submitted
      /\ pc' = "refused" => ~Accepts /\ status' = status
  BY DEF RecordEvaluation
<1>2. Chain' = Chain /\ PrefixLength' = PrefixLength /\ Asm' = Asm
  BY <1>1 DEF Chain, PrefixLength, Asm
<1>3. status = "none"
  BY <1>1 DEF IInv, OutcomeFollows
<1>4. surface \in Surface /\ checks \in Checks
  BY DEF IInv, TypeOK
<1>5. Submitted \in Status \cup {"input_invalid"}
  BY <1>4 DEF Submitted, GateStatus, Status, TimingStatus, ProfileStatus, Checks, Timing, Fast,
              CaseFailure, Profile
<1>6. TypeOK'
  <2>1. status' \in Status \cup {"none"} /\ pc' \in Ended
    BY <1>1, <1>3, <1>5 DEF Ended, Accepts, Recordable
  <2> QED
    BY <1>1, <1>2, <2>1 DEF IInv, TypeOK
<1>7. ChainKept' /\ ChecksFollow' /\ BytesFollow'
  <2>1. ChecksFollow'
    BY <1>1, <1>2 DEF IInv, ChecksFollow, OkAt
  <2>2. ChainKept' /\ BytesFollow'
    BY <1>1, <1>2 DEF IInv, ChainKept, BytesFollow, Busy
  <2> QED
    BY <2>1, <2>2
<1>8. ReceiptFollows'
  <2>1. Proved' = Proved
    BY <1>1, <1>2 DEF Proved, StaticPassed, AsmProvenancePassed, OkAt
  <2> QED
    BY <1>1, <1>2, <2>1 DEF IInv, ReceiptFollows, Busy
<1>9. PlaceFollows' /\ RecordFollows'
  BY <1>1, <1>2 DEF IInv, PlaceFollows, RecordFollows, Busy
<1>10. OutcomeFollows'
  <2>1. status' # "none" => pc' = "recorded"
    BY <1>1, <1>3
  <2>2. AcceptanceIsEarned'
    <3> SUFFICES ASSUME status' = "accepted" PROVE AcceptanceIsEarned'
      BY DEF AcceptanceIsEarned
    <3>1. Accepts /\ Submitted = "accepted"
      BY <1>1, <1>3
    <3> QED
      BY <1>1, <1>2, <3>1, AcceptanceEarned DEF AcceptanceIsEarned
  <2>3. RefusedOnlyForCause'
    <3> SUFFICES ASSUME pc' = "refused" PROVE RefusedOnlyForCause'
      BY DEF RefusedOnlyForCause
    <3>1. ~NoCause
      BY <1>1, NoCauseAccepted
    <3>2. RefusedOnlyForCause' <=> (pc' = "refused" => ~NoCause)
      <4>1. Submitted' = Submitted
        BY <1>1 DEF Submitted
      <4> QED
        BY <1>1, <4>1 DEF RefusedOnlyForCause, NoCause, Disagreeing, Asm
    <3> QED
      BY <3>1, <3>2
  <2> QED
    BY <2>1, <2>2, <2>3 DEF OutcomeFollows
<1> QED
  BY <1>6, <1>7, <1>8, <1>9, <1>10 DEF IInv
---------------------------------------------------------------------------
(* The invariant holds, and what follows from it.                          *)

LEMMA PhaseStep ==
  ASSUME IInv, pc = "running", NEW r \in Results, NEW wellFormed \in BOOLEAN,
         FinishPhase(r, wellFormed)
  PROVE  IInv'
<1>1. CASE Build(r, wellFormed)
  BY <1>1, BuildStep
<1>2. CASE Disassemble(r, wellFormed)
  BY <1>2, DisassembleStep
<1>3. CASE StaticCheck(r)
  BY <1>3, StaticCheckStep
<1>4. CASE NativeLoad(r)
  BY <1>4, NativeLoadStep
<1>5. CASE Oracle(r, wellFormed)
  BY <1>5, OracleStep
<1>6. CASE Observe(r, wellFormed)
  BY <1>6, ObserveStep
<1>7. CASE Compare(r, wellFormed)
  BY <1>7, CompareStep
<1>8. CASE Benchmark(r, wellFormed)
  BY <1>8, BenchmarkStep
<1>9. CASE ProfileCandidate(r, wellFormed)
  BY <1>9, ProfileStep
<1> QED
  BY <1>1, <1>2, <1>3, <1>4, <1>5, <1>6, <1>7, <1>8, <1>9 DEF FinishPhase

LEMMA StutterStep == ASSUME IInv, UNCHANGED vars PROVE IInv'
<1>1. Chain' = Chain /\ PrefixLength' = PrefixLength /\ Asm' = Asm
  BY DEF vars, Chain, PrefixLength, Asm
<1>2. TypeOK' /\ ChainKept' /\ BytesFollow'
  BY <1>1 DEF IInv, vars, TypeOK, ChainKept, BytesFollow
<1>3. ChecksFollow'
  BY <1>1 DEF IInv, vars, ChecksFollow, OkAt
<1>4. Proved' = Proved
  BY <1>1 DEF vars, Proved, StaticPassed, AsmProvenancePassed, OkAt
<1>5. ReceiptFollows' /\ PlaceFollows'
  BY <1>1, <1>4 DEF IInv, vars, ReceiptFollows, PlaceFollows
<1>6. RecordFollows'
  <2>1. Submitted' = Submitted /\ RejectedLengths' = RejectedLengths
    BY <1>1 DEF vars, Submitted, RejectedLengths
  <2> QED
    BY <1>1, <2>1 DEF IInv, vars, RecordFollows
<1>7. OutcomeFollows'
  BY <1>1 DEF IInv, vars, OutcomeFollows, AcceptanceIsEarned, RefusedOnlyForCause, Submitted
<1> QED
  BY <1>2, <1>3, <1>5, <1>6, <1>7 DEF IInv

LEMMA StepKeeps == IInv /\ [Next]_vars => IInv'
<1> SUFFICES ASSUME IInv, [Next]_vars PROVE IInv'
  OBVIOUS
<1>1. CASE Start
  BY <1>1, StartStep
<1>2. CASE Invoke
  BY <1>2, InvokeStep
<1>3. CASE IssueReceipt
  BY <1>3, IssueReceiptStep
<1>4. CASE RecordEvaluation
  BY <1>4, RecordStep
<1>5. CASE \E wellFormed \in BOOLEAN : GatePrefix(wellFormed)
  BY <1>5, GatePrefixStep
<1>6. CASE pc = "running" /\ \E r \in Results, wellFormed \in BOOLEAN : FinishPhase(r, wellFormed)
  BY <1>6, PhaseStep
<1>7. CASE \E f \in Alterable : Alter(f)
  BY <1>7, AlterStep
<1>8. CASE UNCHANGED vars
  BY <1>8, StutterStep
<1> QED
  BY <1>1, <1>2, <1>3, <1>4, <1>5, <1>6, <1>7, <1>8 DEF Next, Step

LEMMA Invariant == Spec => []IInv
<1> QED
  BY InitHolds, StepKeeps, PTL DEF Spec

\* The evaluation in evaluate_candidate stays within its types, and no more
\* phases run than the surface's chain has.
THEOREM TypeCorrect == Spec => []TypeOK
<1>1. IInv => TypeOK
  BY DEF IInv
<1> QED
  BY <1>1, Invariant, PTL

LEMMA LastPhase == IInv => FailedPhaseIsLast
<1> SUFFICES ASSUME IInv, NEW i \in DOMAIN evidence,
                    i < Len(evidence) \/ pc \in {"ready", "running", "authorizing"}
             PROVE  evidence[i].reply = "passed" /\ evidence[i].exit = "clean"
  BY DEF FailedPhaseIsLast
<1>1. i \in 1..Len(evidence)
  BY DEF IInv, TypeOK
<1>2. evidence[i].ok
  BY <1>1 DEF IInv, ChainKept, Busy
<1> QED
  BY <1>1, <1>2 DEF IInv, ChainKept

\* Whatever the adapters print and however they end, no phase runs after one
\* that did not both answer as asked and end cleanly (_invoke_adapter and the
\* chain of evaluate_candidate).
THEOREM FailedPhaseIsLastAlways == Spec => []FailedPhaseIsLast
<1> QED
  BY LastPhase, Invariant, PTL

LEMMA Authorized == IInv => BenchmarkIsAuthorized
<1> SUFFICES ASSUME IInv, Running("benchmark") \/ Benchmarked
             PROVE  /\ receipt.phases = SubSeq(evidence, 1, PrefixLength)
                    /\ \A i \in 1..PrefixLength : evidence[i].ok /\ evidence[i].op = Chain[i]
                    /\ evidence[PrefixLength].claim = "passed"
                    /\ surface = "amdgcn_assembly" =>
                         evidence[2].claim = "inside" /\ evidence[3].claim = "consistent"
  BY DEF BenchmarkIsAuthorized
<1>1. Len(evidence) \in Nat /\ PrefixLength \in {2, 5} /\ surface \in Surface
  BY BenchmarkedAt
<1>2. receipt.phases = SubSeq(evidence, 1, PrefixLength) /\ Proved
  <2>1. CASE Benchmarked
    <3>1. ~(Len(evidence) <= PrefixLength)
      BY <1>1, <2>1, BenchmarkedAt
    <3> QED
      BY <3>1 DEF IInv, ReceiptFollows
  <2>2. CASE Running("benchmark")
    <3>1. pc = "running" /\ Phase = "benchmark"
      BY <2>2 DEF Running
    <3>2. Len(evidence) = PrefixLength
      BY <3>1, RunningAt
    <3>3. ~(Len(evidence) < PrefixLength)
      BY <1>1, <3>2
    <3> QED
      BY <3>1, <3>3 DEF IInv, ReceiptFollows, Busy
  <2> QED
    BY <2>1, <2>2
<1>3. \A i \in 1..PrefixLength : evidence[i].ok /\ evidence[i].op = Chain[i]
  <2> SUFFICES ASSUME NEW i \in 1..PrefixLength PROVE evidence[i].ok /\ evidence[i].op = Chain[i]
    OBVIOUS
  <2>1. Len(evidence) >= i /\ evidence[i].ok
    BY <1>2 DEF Proved, OkAt
  <2>2. i \in 1..Len(evidence)
    BY <1>1, <2>1
  <2> QED
    BY <2>1, <2>2 DEF IInv, ChainKept
<1>4. ChecksFollow /\ checks.cases = "passed"
  BY <1>2 DEF IInv, Proved
<1>5. evidence[PrefixLength].claim = "passed"
  BY <1>4 DEF ChecksFollow
<1>6. surface = "amdgcn_assembly" => evidence[2].claim = "inside" /\ evidence[3].claim = "consistent"
  <2> SUFFICES ASSUME surface = "amdgcn_assembly"
               PROVE  evidence[2].claim = "inside" /\ evidence[3].claim = "consistent"
    OBVIOUS
  <2>1. checks.static /\ checks.diff = "inside" /\ Asm
    BY <1>2 DEF Proved, StaticPassed, AsmProvenancePassed, Asm
  <2> QED
    BY <1>4, <2>1 DEF ChecksFollow
<1> QED
  BY <1>2, <1>3, <1>5, <1>6

\* No benchmark runs, and none is in the evidence, but after every phase of
\* the correctness prefix passed with passing cases, and under a receipt of
\* exactly these phases (evaluate_candidate, the receipt and the benchmark).
THEOREM BenchmarkIsAuthorizedAlways == Spec => []BenchmarkIsAuthorized
<1> QED
  BY Authorized, Invariant, PTL

LEMMA Earned == IInv => ProfileIsEarned
<1> SUFFICES ASSUME IInv, pc = "running", Phase = "profile"
             PROVE  evidence[PrefixLength + 1].claim \in Fast
  BY DEF ProfileIsEarned, Running
<1>1. Len(evidence) = PrefixLength + 1 /\ PrefixLength \in {2, 5}
  BY RunningAt
<1>2. Len(evidence) > PrefixLength
  BY <1>1
<1> QED
  BY <1>2 DEF IInv, PlaceFollows, Busy

\* A profile is taken only of a candidate whose benchmark was fast enough
\* (evaluate_candidate, the preliminary gate).
THEOREM ProfileIsEarnedAlways == Spec => []ProfileIsEarned
<1> QED
  BY Earned, Invariant, PTL

\* A recorded acceptance rests on the whole chain of phases, on passing cases
\* and a fast timing, and on no byte that any adapter can have read altered,
\* whatever files are altered and however many (evaluate_candidate and
\* lineage.py's _record_locked).
THEOREM AcceptanceIsEarnedAlways == Spec => []AcceptanceIsEarned
<1>1. IInv => AcceptanceIsEarned
  BY DEF IInv, OutcomeFollows
<1> QED
  BY <1>1, Invariant, PTL

\* lineage.py's reading of the evidence refuses nothing that the controller
\* submits, but for an altered file, an adapter whose output disagrees with
\* its end, or a diff that is not clear (_validate_controller_provenance).
THEOREM RefusedOnlyForCauseAlways == Spec => []RefusedOnlyForCause
<1>1. IInv => RefusedOnlyForCause
  BY DEF IInv, OutcomeFollows
<1> QED
  BY <1>1, Invariant, PTL
---------------------------------------------------------------------------
(* The evaluation goes through the stages of EvaluationStages.             *)

\* The stage is how many phases have run and whether there is a receipt.
StageFits ==
  /\ pc = "recorded" => StageReached = "judged"
  /\ pc \in {"refused", "controller_error"} => StageReached = "abandoned"
  /\ pc \notin Ended /\ Len(evidence) > PrefixLength => StageReached = "measured"
  /\ pc \notin Ended /\ ~(Len(evidence) > PrefixLength) /\ receipt # NoReceipt =>
       StageReached = "proved"
  /\ pc \notin Ended /\ ~(Len(evidence) > PrefixLength) /\ receipt = NoReceipt =>
       StageReached = "unproved"

LEMMA StageOf == IInv => StageFits
<1> SUFFICES ASSUME IInv PROVE StageFits
  OBVIOUS
<1>1. Benchmarked <=> Len(evidence) > PrefixLength
  BY BenchmarkedAt
<1>2. pc = "recorded" => StageReached = "judged"
  BY DEF StageReached, Ended
<1>3. pc \in {"refused", "controller_error"} => StageReached = "abandoned"
  BY DEF StageReached, Ended
<1>4. pc \notin Ended => pc # "recorded"
  BY DEF Ended
<1>5. pc \notin Ended /\ Benchmarked => StageReached = "measured"
  BY <1>4 DEF StageReached
<1>6. pc \notin Ended /\ ~Benchmarked /\ receipt # NoReceipt => StageReached = "proved"
  BY <1>4 DEF StageReached
<1>7. pc \notin Ended /\ ~Benchmarked /\ receipt = NoReceipt => StageReached = "unproved"
  BY <1>4 DEF StageReached
<1> QED
  BY <1>1, <1>2, <1>3, <1>5, <1>6, <1>7 DEF StageFits

LEMMA StageOfNext == IInv' => StageFits'
<1> QED
  BY StageOf, PTL

\* A step that neither ends the evaluation, nor issues the receipt, nor is
\* the benchmark leaves the stage as it is.
LEMMA SameStage ==
  ASSUME IInv, IInv', pc \notin Ended, pc' \notin Ended, UNCHANGED status,
         receipt' = NoReceipt <=> receipt = NoReceipt,
         Len(evidence') > PrefixLength' <=> Len(evidence) > PrefixLength
  PROVE  UNCHANGED <<StageReached, status>>
<1>1. StageFits /\ StageFits'
  BY StageOf, StageOfNext
<1>2. NoReceipt' = NoReceipt /\ Ended' = Ended
  BY DEF NoReceipt, NoChecks, Ended
<1>3. CASE Len(evidence) > PrefixLength
  BY <1>1, <1>2, <1>3 DEF StageFits
<1>4. CASE ~(Len(evidence) > PrefixLength) /\ receipt # NoReceipt
  BY <1>1, <1>2, <1>4 DEF StageFits
<1>5. CASE ~(Len(evidence) > PrefixLength) /\ receipt = NoReceipt
  BY <1>1, <1>2, <1>5 DEF StageFits
<1> QED
  BY <1>3, <1>4, <1>5

LEMMA GivenUp ==
  ASSUME IInv, IInv', pc \notin Ended, pc' \in {"refused", "controller_error"},
         UNCHANGED status
  PROVE  Stages!Abandon
<1>1. StageReached' = "abandoned"
  BY StageOfNext DEF StageFits
<1>2. StageReached \in {"unproved", "proved", "measured"}
  BY StageOf DEF StageFits
<1> QED
  BY <1>1, <1>2 DEF Stages!Abandon

LEMMA PhaseAdvances ==
  ASSUME IInv, IInv', pc = "running", NEW r \in Results, NEW wellFormed \in BOOLEAN,
         FinishPhase(r, wellFormed)
  PROVE  [Stages!StagesNext]_<<StageReached, status>>
<1>1. /\ evidence' = Append(evidence, r) /\ UNCHANGED <<surface, windows, receipt, altered, status>>
      /\ pc' \in {"ready", "gating", "recording", "controller_error"}
  BY DEF FinishPhase, Build, Disassemble, StaticCheck, NativeLoad, Oracle, Observe, Compare,
         Benchmark, ProfileCandidate, Finish, Proceed
<1>2. /\ Len(evidence') = Len(evidence) + 1 /\ PrefixLength' = PrefixLength
      /\ Len(evidence) \in Nat /\ PrefixLength \in Nat
  <2>1. PrefixLength \in Nat
    BY RunningAt
  <2> QED
    BY <1>1, <2>1, Grown
<1>3. pc \notin Ended
  BY DEF Ended
<1>4. CASE pc' = "controller_error"
  BY <1>1, <1>3, <1>4, GivenUp DEF Stages!StagesNext
<1>5. CASE pc' # "controller_error" /\ Len(evidence) # PrefixLength
  <2>1. Len(evidence') > PrefixLength' <=> Len(evidence) > PrefixLength
    BY <1>2, <1>5
  <2>2. pc' \notin Ended
    BY <1>1, <1>5 DEF Ended
  <2> QED
    BY <1>1, <1>3, <2>1, <2>2, SameStage
<1>6. CASE pc' # "controller_error" /\ Len(evidence) = PrefixLength
  <2>1. Len(evidence') > PrefixLength' /\ ~(Len(evidence) > PrefixLength)
        /\ ~(Len(evidence) < PrefixLength)
    BY <1>2, <1>6
  <2>2. pc' \notin Ended
    BY <1>1, <1>6 DEF Ended
  <2>3. receipt # NoReceipt
    <3>1. receipt.phases = SubSeq(evidence, 1, PrefixLength)
      BY <2>1 DEF IInv, ReceiptFollows, Busy
    <3>2. evidence \in Seq(PhaseRecord) /\ PrefixLength \in {2, 5}
      BY RunningAt DEF IInv, TypeOK
    <3>3. Len(SubSeq(evidence, 1, PrefixLength)) = PrefixLength
      BY <1>6, <3>2
    <3>4. Len(NoReceipt.phases) = 0
      BY DEF NoReceipt
    <3> QED
      BY <3>1, <3>2, <3>3, <3>4
  <2>4. StageReached = "proved"
    BY <1>3, <2>1, <2>3, StageOf DEF StageFits
  <2>5. StageReached' = "measured"
    BY <2>1, <2>2, StageOfNext DEF StageFits, Ended
  <2> QED
    BY <1>1, <2>4, <2>5 DEF Stages!StagesNext, Stages!Measure
<1> QED
  BY <1>4, <1>5, <1>6

LEMMA RecordJudges ==
  ASSUME IInv, IInv', RecordEvaluation
  PROVE  Stages!StagesNext
<1>1. /\ pc = "recording" /\ pc \notin Ended
      /\ \/ pc' = "recorded" /\ status' = Submitted
         \/ pc' = "refused" /\ status' = status
  BY DEF RecordEvaluation, Ended
<1>2. CASE pc' = "refused"
  BY <1>1, <1>2, GivenUp DEF Stages!StagesNext
<1>3. CASE pc' = "recorded"
  <2>1. StageReached' = "judged" /\ status' = Submitted
    BY <1>1, <1>3, StageOfNext DEF StageFits
  <2>2. /\ Len(evidence) \in Nat /\ PrefixLength \in {2, 5}
        /\ surface \in Surface /\ checks \in Checks
    BY <1>1, Submission
  <2>3. CASE Len(evidence) <= PrefixLength
    <3>1. receipt = NoReceipt /\ RejectedBefore /\ ~(Len(evidence) > PrefixLength)
      BY <1>1, <2>2, <2>3, RejectionOrTimed
    <3>2. StageReached = "unproved"
      BY <1>1, <3>1, StageOf DEF StageFits
    <3>3. Submitted \in Stages!CorrectnessStatus
      BY <3>1 DEF RejectedBefore, Rejection, Stages!CorrectnessStatus, CaseFailure,
                  Stages!CaseFailure
    <3> QED
      BY <2>1, <3>2, <3>3 DEF Stages!StagesNext, Stages!Judge
  <2>4. CASE Len(evidence) > PrefixLength
    <3>1. Submitted # "profile_required"
      BY <1>1, <2>2, <2>4, RejectionOrTimed
    <3>2. StageReached = "measured"
      BY <1>1, <2>4, StageOf DEF StageFits
    <3>3. Proved
      <4>1. ~(Len(evidence) <= PrefixLength)
        BY <2>2, <2>4
      <4> QED
        BY <4>1 DEF IInv, ReceiptFollows
    <3>4. Submitted # "input_invalid"
      BY <1>3 DEF RecordEvaluation, Accepts, Recordable
    <3>5. Submitted \in Stages!TimingOutcome
      BY <2>2, <3>1, <3>3, <3>4 DEF Submitted, GateStatus, TimingStatus, ProfileStatus, Proved,
                                    Checks, Timing, Fast, Profile, Stages!TimingOutcome
    <3> QED
      BY <2>1, <3>2, <3>5 DEF Stages!StagesNext, Stages!Judge
  <2> QED
    BY <2>2, <2>3, <2>4
<1> QED
  BY <1>1, <1>2, <1>3

LEMMA StepAdvances == IInv /\ IInv' /\ [Next]_vars => [Stages!StagesNext]_<<StageReached, status>>
<1> SUFFICES ASSUME IInv, IInv', [Next]_vars
             PROVE  [Stages!StagesNext]_<<StageReached, status>>
  OBVIOUS
<1>1. CASE Start \/ Invoke \/ (\E wellFormed \in BOOLEAN : GatePrefix(wellFormed))
  <2>1. /\ pc \notin Ended /\ UNCHANGED <<surface, windows, evidence, receipt, status>>
        /\ pc' \notin Ended \/ pc' = "controller_error"
    BY <1>1 DEF Start, Invoke, GatePrefix, Proceed, Ended
  <2>2. PrefixLength' = PrefixLength
    BY <2>1 DEF PrefixLength
  <2>3. CASE pc' = "controller_error"
    BY <2>1, <2>3, GivenUp DEF Stages!StagesNext
  <2>4. CASE pc' \notin Ended
    BY <2>1, <2>2, <2>4, SameStage
  <2> QED
    BY <2>1, <2>3, <2>4
<1>2. CASE IssueReceipt
  <2>1. /\ pc = "authorizing" /\ pc \notin Ended /\ UNCHANGED <<surface, windows, evidence, status>>
        /\ pc' = "ready" \/ pc' = "controller_error"
        /\ receipt' = [phases |-> evidence, checks |-> checks]
    BY <1>2 DEF IssueReceipt, Proceed, Ended
  <2>2. CASE pc' = "controller_error"
    BY <2>1, <2>2, GivenUp DEF Stages!StagesNext
  <2>3. CASE pc' = "ready"
    <3>1. PrefixLength' = PrefixLength
      BY <2>1 DEF PrefixLength
    <3>2. Len(evidence) = PrefixLength /\ receipt = NoReceipt /\ PrefixLength \in {2, 5}
      BY <2>1, BenchmarkedAt DEF IInv, PlaceFollows, ReceiptFollows
    <3>3. ~(Len(evidence) > PrefixLength) /\ ~(Len(evidence') > PrefixLength')
      BY <2>1, <3>1, <3>2
    <3>4. receipt' # NoReceipt
      <4>1. Len(receipt'.phases) = PrefixLength /\ Len(NoReceipt.phases) = 0
        BY <2>1, <3>2 DEF NoReceipt
      <4> QED
        BY <3>2, <4>1
    <3>5. StageReached = "unproved"
      BY <2>1, <3>2, <3>3, StageOf DEF StageFits
    <3>6. StageReached' = "proved"
      BY <2>3, <3>3, <3>4, StageOfNext DEF StageFits, Ended, NoReceipt, NoChecks
    <3> QED
      BY <2>1, <3>5, <3>6 DEF Stages!StagesNext, Stages!Prove
  <2> QED
    BY <2>1, <2>2, <2>3
<1>3. CASE RecordEvaluation
  BY <1>3, RecordJudges
<1>4. CASE pc = "running" /\ \E r \in Results, wellFormed \in BOOLEAN : FinishPhase(r, wellFormed)
  BY <1>4, PhaseAdvances
<1>5. CASE \E f \in Alterable : Alter(f)
  <2>1. pc \notin Ended /\ pc' \notin Ended /\ UNCHANGED <<surface, windows, evidence, receipt, status>>
    BY <1>5 DEF Alter, Ended
  <2>2. PrefixLength' = PrefixLength
    BY <2>1 DEF PrefixLength
  <2> QED
    BY <2>1, <2>2, SameStage
<1>6. CASE UNCHANGED vars
  BY <1>6 DEF vars, StageReached, Benchmarked, Ended, NoReceipt, NoChecks
<1> QED
  BY <1>1, <1>2, <1>3, <1>4, <1>5, <1>6 DEF Next, Step

\* evaluate_candidate and _record_locked implement EvaluationStages: nothing
\* is measured before it is proved correct and under a receipt, a status is
\* recorded once, and it is one that the stage can justify.
THEOREM FollowsTheStagesAlways == Spec => FollowsTheStages
<1>1. Init => Stages!StagesInit
  <2> SUFFICES ASSUME Init PROVE Stages!StagesInit
    OBVIOUS
  <2>1. IInv
    BY InitHolds
  <2>2. pc \notin Ended /\ receipt = NoReceipt /\ Len(evidence) = 0 /\ status = "none"
    BY DEF Init, Ended
  <2>3. ~(Len(evidence) > PrefixLength)
    BY <2>1, <2>2, BenchmarkedAt
  <2>4. StageReached = "unproved"
    BY <2>1, <2>2, <2>3, StageOf DEF StageFits
  <2> QED
    BY <2>2, <2>4 DEF Stages!StagesInit
<1> QED
  BY <1>1, StepAdvances, Invariant, PTL DEF Spec, FollowsTheStages, Stages!StagesSpec
=============================================================================
