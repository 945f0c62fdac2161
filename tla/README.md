# AsmEvo: TLA+ models, model checking and proofs

AsmEvo lets an agent evolve a GPU kernel: each *candidate* is built, checked,
compared with a frozen original (`K0`), benchmarked and, if it is faster,
recorded as a verified node of a *lineage*. The programs under
`src/asmevo/scripts` are what makes a recorded result trustworthy. This
directory models them, checks the models with TLC and proves the most important
properties with TLAPS.

## 1. Inventory

| Component | State it keeps | Operations | Interacts with |
|---|---|---|---|
| `lineage.py` | `state.json` (nodes, attempts, best), `state.json.lock` | `initialize`, `record`, `summary`; every one replays the whole document first | called by the controller, in its process; calls the gate |
| `controller.py` `init` | a `baseline-<id>` directory with evidence and receipts | recover/roundtrip or build chain of K0, baseline benchmark, `lineage.initialize` | adapters as subprocesses, gate, lineage |
| `controller.py` `evaluate` | an `attempts/<id>` directory: snapshots, one directory per phase, receipt, `evaluation.json`, `decision.json`; a deep copy of the lineage in memory | load context, open attempt, build, static check, load, oracle, replay, compare, gate, receipt, benchmark, profile, record | adapters, gate, lineage |
| adapter runner (`_run_bounded_process`) | a process group, two pipes, two output files, a deadline | select, read, cap, kill, reap | the adapter and its descendants |
| `gate.py` | none | `validate_contract`, `evaluate`: one status per evaluation | controller and lineage |
| `preflight.py`, `capability_probe.py` | a report file | collect identities of adapters and tools | read again by controller and lineage |
| `code_object_diff.py`, `assemble.py`, `disassemble.py`, `profile.py`, `resource_check.py` | none | wrappers that adapters call | external tools |
| `target_context.py`, `backends/` | none | registry lookup, validation of JSON documents | everything |

What is hard in this system:

* **Concurrency.** Several controllers work on one lineage. `evaluate` reads the
  document under a shared flock, lets it go for the hours its phases take, and
  commits under an exclusive flock. Everything it checked at the start is stale
  by then.
* **Failure.** A controller may die between any two steps; a `ControllerError`
  may end it anywhere; `decision.json` is written after the commit, without the
  lock, and may not be written at all.
* **Untrusted timing of other programs.** An adapter may print anything, end in
  any way, at any time around its deadline, leave descendants, and rewrite files
  that later phases depend on.
* **Logic written twice.** The controller writes documents that `lineage.py`
  replays with code of its own: phase chains, best-node selection, receipts. If
  the two disagree the lineage refuses to be read, for good.

What makes each component correct:

* lineage: what is committed always passes the replay; nothing is lost or
  rewritten; each proposal, artifact and id is judged once; the best node only
  gets faster; no lock outlives its command.
* controller: no phase runs after a failed one; no benchmark without a receipt of
  exactly the phases that ran; an acceptance rests on unaltered files; lineage
  takes what the controller submits.
* runner: outputs are exact prefixes, a run without failure is complete, a
  failure leaves no process, the run returns.
* gate: one status, the first failing check's, and never an acceptance with a
  failing check; a threshold that is the documented predicate at every tie.
* baseline and preflight: K0 is the root of a lineage only after its own whole,
  unaltered chain; a report that says ready is taken, and suffices for every phase
  of every later evaluation.
* file replacement: no reader ever finds a torn document, documents appear in their
  order, a commit that was reported is not lost, and no temporary file is left.
* instruction diff: a change is never missed, and a diff that keeps to its windows
  keeps what is outside them.

## 2. Modules

| Module | Models |
|---|---|
| `LineageDocument` | the document, what `_record_locked` appends, what `_verify_controller_attempts` replays |
| `LineageLog` | abstract specification: one atomic append-only log |
| `Lineage` | concurrent `init`/`evaluate` processes, the flock, directories, crashes |
| `Gate` | `gate.evaluate`: the precedence of the statuses |
| `Phases` | what evaluations and baselines share: chains, adapter answers, when a phase passed, what lineage asks of its evidence |
| `EvaluationStages` | abstract specification of one evaluation, and of one baseline |
| `Controller` | `evaluate_candidate` and `_validate_controller_provenance`, one evaluation |
| `Preflight` | `inspect`'s report, and `_validate_preflight`'s reading of it |
| `Baseline` | `initialize_run` and `_validate_baseline_receipt`, one initialization |
| `AdapterProcess` | `_run_bounded_process` and the adapter's process group |
| `OrderedDocuments` | abstract specification of the documents one evaluation writes |
| `DurableCommit` | `_atomic_write` and `_atomic_write_json` call by call, with failing calls, death and power failure |
| `InstructionDiff` | `code_object_diff.compare`, with difflib's alignment |
| `SpeedupThreshold` | the comparison of a timing with its policy in `gate.evaluate` |
| `MCLineage`, `MCController`, `MCAdapterProcess`, `MCDurableCommit`, `MCBaseline`, `MCAlgorithms` | instances for TLC |
| `Lineage_proofs`, `Controller_proofs`, `Baseline_proofs`, `AdapterProcess_proofs`, `DurableCommit_proofs`, `InstructionDiff_proofs`, `SpeedupThreshold_proofs` | theorems about the module each is named after |
| `NumberFacts` | the least number of a set, which other proofs use in place of induction |

How they fit together. `Baseline` and `Controller` use `Phases`, which uses `Gate`;
both implement `EvaluationStages`. `Lineage` takes each of them as one step
(`RunBaseline`, `Evaluate`), and each `_atomic_write` as one step, which
`DurableCommit` justifies by implementing `OrderedDocuments`. `AdapterProcess` is one
`Invoke` of a phase, with the exits that `Phases` enumerates. `SpeedupThreshold`
decides which of `Gate`'s timings one has.

### Lineage

`doc` is `state.json`; `writer` and `readers` are the holders of the flock;
`dirs`, `evaluation` and `decision` are what is in the attempt directories; for
each process `pc`, `req` (its command line), `snap` (the document it has in
memory) and `reply` (what `lineage.record` returned).

| Action | Code |
|---|---|
| `BeginInit`, `RunBaseline`, `LockExclusive`, `Initialize` | `initialize_run`, `lineage.initialize` |
| `BeginEvaluate`, `LockShared`, `LoadContext` | `evaluate_candidate`, `_load_candidate_context` |
| `OpenAttempt` | the id check, `_new_attempt_directory`, the proposal snapshot and its check |
| `Evaluate`, `AbortEvaluation` | the phases, up to `evaluation.json`; or a `ControllerError` |
| `LockExclusive`, `ReadDocument`, `Record` | `lineage.record`, `_record_locked` |
| `WriteDecision` | the derived `decision.json` in `_record_candidate` |
| `Crash` | the process dies; the kernel drops its flock |

`ReadDocument` and `Record` are two steps so that a model with a broken lock shows
the lost update; with the lock, nothing can come between them. A command ends as `failed`
when it is turned down for the document or the directory that it found, and as `refused`
when `lineage` turns it down for what it brings itself, a file that changed, or an
`OSError` of `_atomic_write`, which may come before the new document is in place or after. `Evaluate`
concludes anything the gate can: how it gets there is module `Controller`. A
command line may name any parent, any of the run directories, the original's own
bytes as a proposal. Digests do not collide, and speeds are finite: `record` writes an infinite
quotient as `Infinity`, which its own reader refuses, and a model of JSON's numbers is not here. The replacement of `state.json` by
`os.replace` is one step. What `init` and `evaluate` do with contract, environment
and preflight files is left to `Controller` (the files it calls `frozen`).

Once a document exists `BeginInit` fails, and `Initialize` looks again under the
lock. A directory is made by one `mkdir`, which fails if it exists; a leftover
directory of a crashed controller therefore stays and its id can be used in
another run directory only.

### Controller

`surface` is `source` (schema v1 source mode and the source surfaces of v2),
`binary` (v1 binary mode and `hsaco_binary`) or `amdgcn_assembly`. `windows` tells whether the
command line's `--changed-window`s are blank, which the controller checks on the ASM surface only. `evidence` is
the list of phase records, `checks` the parts of `evaluation.json` that the gate
tells apart, `receipt` the correctness receipt, `altered` the files that no
longer are what was first hashed.

A phase is two steps: `Invoke` (`_adapter_entry`, start) and the phase's own action
(`Build`, `Disassemble`, `StaticCheck`, `NativeLoad`, `Oracle`, `Observe`, `Compare`,
`Benchmark`, `ProfileCandidate`), which takes any record that `_invoke_adapter` can make of any adapter
reply and exit, does the phase's checks and decides how the evaluation goes on.
`wellFormed` is a nondeterministic choice: a response that lacks what the phase
needs, or names other bytes than are in the output file, is a `ControllerError`.
`GatePrefix` and `IssueReceipt` are the gate between correctness and timing.
`RecordEvaluation` is lineage's own reading: `ChainFits`, `EvidenceHolds`,
`ChecksBound`, `ReceiptBound` and the files hashed again (`Rehashed`) are each
translated from `lineage.py` and not from the controller, so that
`RefusedOnlyForCause` compares two programs. They agree up to what `Recordable` and `Agrees` tell apart,
which the controller lets pass to the end and `lineage.record` then refuses: a timing that the gate
cannot judge, and a blank window, on the surfaces where the controller asks about neither; a
speedup that overflows; a failed phase's output that is no UTF-8 (the one kind of unreadable output that
lineage's reader does not handle) or contradicts how the phase ended; a diff whose flags are no booleans.

`Alter` changes a file for good at any step. A file that is changed and changed back
between two hashings can be seen by neither the code nor the model. Each member
of `File` stands for all files that the code hashes at the same places. An
alteration that the controller notices is a `ControllerError` and ends the
evaluation; `saw` (not in the code) is what a phase may have read altered.

### Preflight and Baseline

`contract` is what a contract is about (mode and surface), `report` the preflight
report of any request made in any installation: an installation is told by what is
absent from it. `ReportFits` is lineage's reading, translated apart from
`Ready`, which is preflight's verdict. `evidence`, `receipt` and `altered` are as in
`Controller`.

| Action | Code |
|---|---|
| `LoadContext` | `_load_initial_context`, `_validate_preflight` |
| `Invoke`, `Prepare` | the phases before the timing; a failed one ends the command |
| `Probe`, `IssueReceipt` | the gate on K0 against itself, and the receipt before the benchmark |
| `Benchmark`, `ProfileOriginal` | the baseline timing, and the ASM profile |
| `Initialize` | the baseline receipt and `lineage.initialize`'s reading of it: `ReceiptHolds`, `Rehashed` |

`hsaco_binary` is never ready (`preflight.py:236` adds a failure of its own), so the
binary baseline that gets past `LoadContext` is schema v1's. The bytes of
`baseline-receipt.json` itself, between its writing and lineage's reading in the same
call, cannot be altered here.

### DurableCommit

The four documents are the receipt, `evaluation.json`, `state.json` and
`decision.json`. `content` tells for each what a reader sees of it (`cached`) and what
is on the disk (`disk`): nothing, a part or all. A call is one action. `CallFails` sends
an exception to the `finally` clause; `CreateFails` and `UnlinkFails` are the two calls
outside the `try`. `PowerFails` undoes any rename whose directory was not fsynced and
leaves of a file anything from what is on the disk to what is in the cache.

Directories made by `mkdir` are assumed to be on the disk with the first file that is
fsynced in them. Journaling file systems do so and POSIX does not promise it:
the code fsyncs `attempts/<id>` but never the directory that `attempts/<id>` is an
entry of.

### InstructionDiff and SpeedupThreshold

`before` and `after` are instruction texts; addresses follow from the sizes of the
instructions. `Align` is one round of difflib's loop: it takes a region that is still open,
matches the longest run of equal instructions in it, with difflib's tie breaking, and opens
what is left on either side. difflib takes the last one it opened; here any of them may be the next,
and `OneAlignmentAlways` proves that the matches do not depend on it. The two codes are any two.
`OutsideIsKept` and `OneWindowConfines` say what a diff within its windows is worth, and
they are as strong as the code allows (addresses in the model start at 0 in both codes and are sums of sizes
that depend on the text alone; the code compares the addresses that the disassembler prints,
`code_object_diff.py:93-94`, so that a kernel that moved, or an instruction whose
encoding changed its size but not its text, is outside the model):

* the window test looks at an instruction's first address only; a long one may
  spill over a window's end, hence "whose end is the same place in both";
* with several windows, or one that shrinks, an instruction that an edit moved
  into a window is accepted there, hence `OutsideIsKept` speaks of order and not of
  addresses;
* difflib may align an edit inside a window with an equal instruction outside it,
  so that an innocent edit is rejected. Nothing here says that it is not.

`SpeedupThreshold` takes median and CV of each measurement as inputs and the code's
floats as exact rationals.

### AdapterProcess

The group is an adapter and at most one descendant. They write, close, inherit
and exit freely; the clock ticks up to the deadline. The controller's loop is
modelled call by call, since its races are between those calls: the check of the deadline,
`select`, one read per ready stream, the end of a stream, `wait`, `finally`. `Raise`
is an exception while a file is opened, or a stream is read or what was read is written: the bytes are
gone from the pipe and any part of them may be in the file. `Finish` may raise too, when a file
cannot be flushed. Bytes are counted, one read
takes at most `Chunk` of them. One more descendant would behave like the first.

## 3. Runs

| Run | Module, cfg | Bounds | Shows |
|---|---|---|---|
| `lineage` | `MCLineage.cfg` | 2 processes, 2 ids, 2 run directories, 3 proposals and artifacts of which one is the original's, speeds under, at and over each other | `TypeOK`, `AlwaysVerifiable`, `JudgedOnce`, `NoLostCommit`, `OneAttemptPerId`, `RootedInOriginal`, `BestOnlyImproves`, `OthersTurnNoneDown` |
| `lineage_refines` | `MCLineageRefines.cfg` | 3 processes, 2 ids, 2 run directories, one proposal, 2 artifacts, 2 speeds | `LockIsInUse`, `HistoryOnlyGrows`, `ImplementsLog`, also with two `init` commands around an evaluation |
| `lineage_live` | `MCLineageLive.cfg` | 3 processes, one of everything else | `EveryCommandEnds`, under `FairSpec` |
| `lineage_rerun` | `MCLineageRerun.cfg` | 2 processes | finding: `UnstableMayRerun` is violated |
| `controller` | `MCController.cfg` | all surfaces, replies and exits; any 2 of 7 files altered | `TypeOK`, `FailedPhaseIsLast`, `BenchmarkIsAuthorized`, `ProfileIsEarned`, `AcceptanceIsEarned`, `RefusedOnlyForCause`, `FollowsTheStages` |
| `controller_stops` | `MCControllerStops.cfg` | nothing altered | finding: `StopsAtFirstFailure` is violated |
| `controller_timeout` | `MCControllerTimeout.cfg` | nothing altered | finding: `TimeoutIsControllerError` is violated |
| `adapter_process` | `MCAdapterProcess.cfg` | cap 2, chunk 2, deadline 2 ticks, 3 bytes per stream | `TypeOK`, `StoredIsAPrefix`, `CleanRunIsComplete`, `FailureLeavesNobody`, `FailureIsTrue`, `RunReturns`, under `FairSpec` |
| `commit` | `MCDurableCommit.cfg` | 2 failing calls, death and power failure anywhere | `TypeOK`, `NeverTorn`, `NoLitter`, `AppearInOrder` |
| `commit_error` | `MCDurableCommitError.cfg` | 1 failing call | finding: `ErrorPromotesNothing` is violated |
| `baseline` | `MCBaseline.cfg` | all contracts, requests, replies and exits; any one thing absent; any 2 of 7 files altered | `TypeOK`, `AdaptersSuffice`, `ReadyReportIsTaken`, `BaselineIsEarned`, `RefusedOnlyForCause`, `FollowsTheStages` |
| `algorithms` | `MCAlgorithms.cfg` | kernels of up to 4 instructions of 3 texts and 2 sizes, all windows up to address 6, one or two at a time; medians 1..4, CVs 0..2, 36 policies | `ChangeIsSeen`, `OutsideIsKept`, `OneWindowConfines`, `MeetsThePredicate`, `PromotionIsOneWay` |

Why the bounds are enough. In `lineage` a race needs two processes and each runs
one command; two ids, run directories, proposals and artifacts suffice for every
pair to agree on some and differ on others, and the original's bytes can be
resubmitted. Attempts are bounded by the number of processes, not by a guard.
Three processes (`lineage_refines`, `lineage_live`) add an attempt whose parent is
another's, and a third in the queue for the lock; and two `init` commands that both
saw no document (their run directories differ, since the baseline directory of one
would stop the other) with an evaluation that commits between them. The theorems of section 4 cover every number
of them. Symmetry is used only for invariants and action properties, not with
fairness. In `controller` an evaluation has at most seven phases and ends, so
nothing in it is bounded but the number of altered files: two, so that an alteration that is
caught cannot hide one that is not. In `adapter_process` three bytes against a cap of
two and chunks of two reach output below, at and over the cap, in one chunk and
across two; two ticks give a time before, at and past the last check. In `commit` two failures
reach a call that fails and then the `unlink` in its `finally`. In `baseline` one absent thing
is enough to tell any two of the lists of requirements apart, since each is a conjunction over
things. In `algorithms` four instructions let an edit in a window move instructions on both of its
sides and give difflib two runs of equal length to choose from; small numbers contain every
tie and both sides of it.

Deadlock is checked in every run; the systems stop only where their processes have
ended, and those states have an explicit stuttering step.

Fairness. `Lineage!FairSpec` is weak fairness of each started process: adapters
end within their timeouts (`AdapterProcess!RunReturns`), and the operating system
schedules a process and eventually grants a lock that is free. Nobody has to start, and a
process may still die. Writers cannot starve because each process runs one
command. `AdapterProcess!FairSpec` is weak fairness of the controller and of the clock; nothing at all is
assumed of the adapter and its descendant.

Each property of a passing run has a mutant of the code in `PROJECT.json`: an
operator next to the original (`DirFreeExistOk`, `OkIgnoringExit`, `LeaderKilled`
and so on) with which TLC finds the property violated.

### Findings

Four statements of the repository's documents that the code does not keep:

1. `references/failure-taxonomy.md:14` answers `timing_unstable` with "stabilize
   clocks/load and rerun". The controller refuses a proposal that any earlier
   attempt had, so the same proposal cannot be run again (`lineage_rerun`).
2. `references/controller-contract.md:63`: "The controller stops at the first failure."
   An empty or out-of-window instruction diff is found by the second ASM phase,
   and up to three more adapters run before it is rejected (`controller_stops`). The next
   sentence, that no benchmark starts, holds (`BenchmarkIsAuthorized`).
3. `references/failure-taxonomy.md:18` makes an adapter that timed out a
   `controller_error`, which by its line 30 means that there is no normal gate decision. Except for the disassembly, a timeout is
   recorded as a rejection of the candidate (`controller_timeout`), which then
   also burns its proposal.
4. The same line tells the reader of a `controller_error` "do not benchmark or promote", and
   line 30 that it means "no normal gate decision could be produced safely". If the directory's fsync fails after
   `state.json` was renamed, the command ends in `controller_error` with its candidate recorded,
   perhaps as the best node (`commit_error`).

## 4. Proofs

Each theorem is for every value of the constants, where the runs are for one. In each
module the wanted properties are not inductive; `IInv` is the strengthening, one lemma per
action shows that it is kept, `Invariant` (in `Lineage_proofs`: `Invariance`) is the temporal
step, and the theorems follow.

### Lineage

`Lineage_proofs` proves, for every set of processes, ids, run directories,
digests, speeds and rejections:

| Theorem | Statement |
|---|---|
| `TypeCorrect` | `Spec => []TypeOK` |
| `VerifiableAlways` | `Spec => []AlwaysVerifiable` |
| `JudgedOnceAlways` | `Spec => []JudgedOnce` |
| `NoLostCommitAlways` | `Spec => []NoLostCommit` |
| `OneAttemptPerIdAlways` | `Spec => []OneAttemptPerId` |
| `RootedAlways` | `Spec => []RootedInOriginal` |
| `OthersTurnNoneDownAlways` | `Spec => OthersTurnNoneDown` |
| `LockIsInUseAlways` | `Spec => []LockIsInUse` |
| `HistoryOnlyGrowsAlways` | `Spec => HistoryOnlyGrows` |
| `BestOnlyImprovesAlways` | `Spec => BestOnlyImproves` |
| `Refinement` | `Spec => ImplementsLog` |
| `ReplayedIsRooted` | a document that the replay accepts, whoever wrote it, is rooted in the original |
| `ReplayDetermines` | two documents with the same attempts that the replay accepts have the same candidates' nodes and the same best node |

Assumptions: the original's id is not a candidate's, `None` is no id, digest,
process or reply, speeds are naturals (their order is all that matters), and "accepted" and
"duplicate" are no rejections. They are named `ASSUME`s that TLC checks on every run.

The argument. The wanted invariants are not inductive: that a commit leaves a
document that replays depends on the process's copy being the document on disk,
and on its directory being its own. `IInv` adds exactly this:

* `RequestInv`: a process past its first steps has an id, a proposal and, once
  loaded, a parent;
* `LockInv`: a process in its critical section holds the lock, and the copy it
  decides on is the document on disk, which has its parent;
* `DocInv`: the document, if there is one, is `Sound`: typed, it replays, is judged
  once and has one attempt per id;
* `DirInv`: a directory belongs to the process that made it, nobody else writes in
  it, and it is an attempt's only once its process has recorded; each attempt's
  `evaluation.json` is the one it was recorded with;
* `ReplyInv`: what a process was told is what is committed.

Lemmas about `Recorded` show that appending keeps a document sound, whatever the
evaluation: replaying a longer document, parents before children, first fastest
best. One lemma per action shows that it preserves `IInv`, `NextIInv` puts them
together, and `Invariance` is the temporal step. The action properties and the
refinement follow from the same invariant: only `Initialize` and `Record` change `doc`, and
each maps to a step of the log.

Two theorems are about the replay alone. It refuses every document whose nodes do not lead
to the original: of the nodes in any set without the original, the one recorded first has its parent outside
the set (`ReplayedIsRooted`). It also leaves nothing to choose: nodes and best node follow
from the attempts (`ReplayDetermines`), so that a state file cannot be given another best node
and still be read. `LockIsInUse` is the safety half of `EveryCommandEnds`: a holder of the
flock is always a process that is running and in its critical section.

`OthersTurnNoneDown` needs one more invariant, `ParentInv`: from the choice of its parent
to the commit, the parent is a node of the document, and the one that `evaluation.json` names. It is
kept because no step removes a node (`NodesStay`); with `DocInv` and `DirInv` it makes the
replay and the lookup under the lock succeed. That is all it says: an evaluation may still be
refused for what it brings itself (`Controller!RefusedOnlyForCause` lists for what), for a file that
changed, or because a write failed.

### Controller

For any set of alterable files and any number of them: `TypeCorrect`,
`FailedPhaseIsLastAlways`, `BenchmarkIsAuthorizedAlways`, `ProfileIsEarnedAlways`,
`AcceptanceIsEarnedAlways`, `RefusedOnlyForCauseAlways`, `FollowsTheStagesAlways`.
`IInv` says what links the parts of an evaluation that the code keeps apart:

* `ChainKept`: the phases that ran are the chain's, and all but the last one passed;
* `ChecksFollow`: each check in `evaluation.json` is what its phase claimed, or its default
  if the phase failed or did not run;
* `ReceiptFollows`: the receipt is there from the benchmark on, and holds exactly the
  correctness phases and checks;
* `PlaceFollows`: how many phases ran at each place the controller can be at;
* `RecordFollows`: what is submitted is a rejection that its last phase explains, or a
  timing;
* `BytesFollow`: what a phase saw altered still is, and an altered proposal is noticed
  before a timing is recorded;
* `OutcomeFollows`: an accepted evaluation has everything that `AcceptanceIsEarned` asks.

`RefusedOnlyForCause` needs the most: `NoCause` is that none of the listed causes holds, and each of lineage's tables is shown to admit it, surface by
surface and status by status. The refinement maps a state to its stage by the number of
phases that ran (`StageFits`).

### Baseline

For any installations and any alterable files: `TypeCorrect`, `AdaptersSufficeAlways`,
`ReadyReportIsTakenAlways`, `BaselineIsEarnedAlways`, `RefusedOnlyForCauseAlways`,
`FollowsTheStagesAlways`. `IInv`: `ReportIs` (the report is one that preflight makes),
`Loaded` (past `LoadContext` it fits the contract), `PhasesKept`, `PlaceKept` and
`ReceiptKept` as above, `Decided` (the outcomes' properties). `ReadyIsFit` compares the
two readings of a report; `SubmissionHolds` shows that what reaches `Initialize` meets
`ReceiptHolds`, so that only an altered file can refuse it.

### AdapterProcess

For any cap, chunk, deadline and amount written: `TypeCorrect`, `StoredIsAPrefixAlways`,
`CleanRunIsCompleteAlways`, `FailureLeavesNobodyAlways`, `FailureIsTrueAlways`. `IInv`
adds that a stream that is not over its cap is uncut (`Uncut`), that its end was read only
when nobody holds it (`ClosedAtEnd`), that the exit status is the leader's own
(`StatusIsOwn`), and that a failure has killed the group (`FailedIsDead`). `FailureIsTrue` is about
the deadline: an adapter that ended before it (`ended`, which is not in the code) is called late
only if a pipe was not at its end when the deadline came, whether a descendant held it or nobody had
read it yet; once both pipes are read the adapter is judged by its status, however late `wait` is called.

Two theorems are what `RunReturns` rests on, apart from fairness. `ReadsNeverBlockAlways`: a stream that
`select` called ready is readable when its turn comes, also after the other stream was read;
`os.read` is a blocking call, and would otherwise hold the controller past its deadline.
`LateRunEndsAlways`: once the deadline has passed every step of the controller lowers its rank, or takes
one of the events left of the last `select`; nothing is left that waits for the group.

### DurableCommit

For any number of failing calls: `TypeCorrect`, `NeverTornAlways`, `NoLitterAlways`,
`AppearInOrderAlways`. `IInv`: `Shown` (which documents are visible at each call), `Kept`
(those before the current one are on the disk), `Whole` (a file is all there before it is
renamed), `Swept` (no temporary file at the next one's creation). The refinement follows
because all visible documents are whole, and only the current one can be undone.

### InstructionDiff

For instructions of any sizes, code of any length and windows anywhere:
`ChangeIsSeenAlways`, `OutsideIsKeptAlways`, `OneWindowConfinesAlways`, and what no run can
enumerate: `AnyWindowsKeepAlways`, which is `OutsideIsKept` for any set of windows, and
`OneAlignmentAlways`. `IInv` is about the alignment:

* `OrderedMatches`: what is matched is equal, and in the same order in both codes;
* `OpenRegions`: the regions still to be aligned are between the matches, one after another;
* `SameIsMatched`: equal codes are matched as a whole, by the first run.

The matches are then a function from the unchanged places of one code to the other's that
keeps their order, which is what `OutsideIsKept` asks for. `OneWindowConfines` needs more: since what
is before the window is all matched, the first place of one code is matched with the first
of the other and so on (the least place for which it is not gives a contradiction); what is behind
the window is matched from its end on, at the same distance. Addresses are cardinalities
(`Pc` counts the words before a place), so that no recursive sum is needed. `OneAlignment` rests
on `OneOutcome`: what is matched and what the open regions will yet give is the same after each
step. `AlignEndsAlways`: each round closes a place of the parent's code and opens none, so that the
alignment is over after at most as many rounds as it has instructions.

Assumptions: sizes are at least one word, codes are not empty and have a greatest length.

### SpeedupThreshold

`PredicateAlways` and `OneWayAlways`, for all naturals as measurements and policies; no
invariant but the types is needed. Two more are about what no run enumerates. `ChainsDescendAlways` is
`PromotionIsOneWay` for chains of any length: later kernels are not slower, and as quick only
where every margin between is zero, so that a search cannot go in circles. It takes each kernel's measurement
as the same whenever it is compared, where the code measures anew. `BetterIsNoWorseAlways`: a lower
median with no higher CV never turns a promotion into a rejection, although the margin is a
maximum over three CVs.

### Only model-checked

`EveryCommandEnds` and `RunReturns`: liveness under fairness is out of the prover's reach. Every other
property of a passing run is also a theorem. The tables that the proofs of `Controller` and `Baseline` compare are finite,
and the proofs go through them by cases; what they add to TLC is every set of alterable files
and installations.

## 5. Not modelled, and why

* The contract's and the documents' field-by-field validation: no state. Where it matters who
  refuses a malformed document and when (a response, a timing, a failed phase's output, the changed
  windows), the document is well formed or not in the model; which of its fields is wrong is left out.
* How numbers are written in JSON: an infinite quotient in an attempt that is not accepted is
  recorded as `Infinity`, and no later command can load the lineage. `AlwaysVerifiable` holds of finite
  measurements.
* The digests of JSON documents, canonical or not: a digest is a value.
* Alterations by a program that controls the clock of both hashings, and programs
  that call `lineage` with its module-private token: the documents put them out
  of scope as well.
* `capability_probe.py`, `target_context.py` and the tool wrappers: one sequential pass
  each, without state that another operation reads back except by its digest.
* Preflight's versions, tool identities and the files a user may add to the required ones.
* The numeric comparison of cases in the gate, and how `statistics` computes median and CV:
  their verdicts are inputs.
* `lineage.py`'s legacy API: it is refused on controller lineages before it
  changes anything.

## 6. Plan

Done, in this order: the lineage and its proofs; one evaluation; the adapter runner;
baselines and preflight; the replacement of files; the instruction diff and the speedup
threshold; the proofs of section 4.

Left:

`Campaign`: `Lineage` with `Controller`'s statuses per process, so that what `Evaluate`
concludes is what an evaluation can conclude on the copy it loaded.
