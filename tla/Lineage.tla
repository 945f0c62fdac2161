------------------------------ MODULE Lineage ------------------------------
(***************************************************************************)
(* Concurrent controller processes on one lineage: each runs one command   *)
(* of controller.py, `init` or `evaluate`, on the same state.json, its     *)
(* flock file and the run directories, and may die at any step.            *)
(*                                                                         *)
(* `evaluate` reads the document under a shared lock, lets the lock go,    *)
(* spends its adapter phases on what is now a stale snapshot, and records  *)
(* under the exclusive lock against the document as it is by then.  The    *)
(* phases and the gate are one step here (Evaluate): what they decide is   *)
(* the business of the modules that model them.                            *)
(***************************************************************************)
EXTENDS LineageDocument

CONSTANT Proc       \* controller processes, one command each

Reply == [recorded : BOOLEAN, status : Status]

ASSUME ProcAssumption == None \notin Proc
ASSUME ReplyAssumption == None \notin Reply

VARIABLES
  doc,        \* state.json; NoDocument while there is none
  writer,     \* the process that holds the exclusive flock, or None
  readers,    \* the processes that hold the shared flock
  dirs,       \* attempts/<id> directories: who made each, or None
  evaluation, \* evaluation.json of each directory, or None
  decision,   \* the status decision.json of each directory holds, or None
  pc,         \* where each process is
  req,        \* the command line of each process
  snap,       \* the document each process has in memory
  reply       \* what lineage.record returned to each process

files == <<dirs, evaluation, decision>>
vars  == <<doc, writer, readers, files, pc, req, snap, reply>>

\* A directory is named by its run directory and a candidate id; the
\* original's id names the directory baseline-<original id>.
Dir == RunDir \X (Id \cup {OriginalId})

DirOf(p) == <<req[p].run, req[p].id>>

HomeOf(a) == <<a.run, a.eval.id>>

Request ==
  [run : RunDir, id : Id \cup {OriginalId}, proposal : Proposal \cup {None},
   parent : Id \cup {OriginalId, None}]

\* failed: turned down for the document, or the directory, that it found.
\* refused: turned down for what it brought itself, or by a failing write.
Ended == {"done", "failed", "refused", "crashed"}

Exists(d) == d.best # None

\* The whole replay: the document and the files its attempts point to.  A
\* decision.json is compared only if there is one.
FilesReplay(d) ==
  \A a \in AttemptsOf(d) :
    /\ evaluation[HomeOf(a)] = a.eval
    /\ decision[HomeOf(a)] \in {None, a.status}

Verified(d) == Exists(d) /\ DocumentReplays(d) /\ FilesReplay(d)

Goto(p, from, to) == pc[p] = from /\ pc' = [pc EXCEPT ![p] = to]

Outcome(p, from, passes, to) == Goto(p, from, IF passes THEN to ELSE "failed")

---------------------------------------------------------------------------
(* The flock.                                                              *)

SharedFree == writer = None

ExclusiveNotTaken == TRUE

ExclusiveFree == writer = None /\ readers = {}

LockShared(p) ==
  /\ SharedFree
  /\ Goto(p, "starting", "loading")
  /\ readers' = readers \cup {p}
  /\ UNCHANGED <<doc, writer, files, req, snap, reply>>

LockExclusive(p) ==
  /\ ExclusiveFree
  /\ \/ Goto(p, "evaluated", "recording")
     \/ Goto(p, "baselined", "initializing")
  /\ writer' = p
  /\ UNCHANGED <<doc, readers, files, req, snap, reply>>

---------------------------------------------------------------------------
(* controller.initialize_run and lineage.initialize.                       *)

\* The state must not exist yet, a check without the lock, and the baseline
\* directory must be new.
BeginInit(p) ==
  /\ \E r \in RunDir :
       LET fresh == ~Exists(doc) /\ dirs[<<r, OriginalId>>] = None IN
       /\ Outcome(p, "idle", fresh, "baselining")
       /\ req' = [req EXCEPT ![p] = [run |-> r, id |-> OriginalId,
                                     proposal |-> None, parent |-> None]]
       /\ dirs' = IF fresh THEN [dirs EXCEPT ![<<r, OriginalId>>] = p] ELSE dirs
  /\ UNCHANGED <<doc, writer, readers, evaluation, decision, snap, reply>>

\* The baseline's phases: any failure is a ControllerError.
RunBaseline(p) ==
  /\ \E passes \in BOOLEAN : Outcome(p, "baselining", passes, "baselined")
  /\ UNCHANGED <<doc, writer, readers, files, req, snap, reply>>

\* Under the exclusive lock the existence check is made again.  The files
\* that the baseline names are hashed again.
MayInitializeUnchecked(d) == TRUE

MayInitialize(d) == ~Exists(d)

\* _atomic_write may raise before the rename and after it.
Initialize(p) ==
  /\ \/ /\ MayInitialize(doc)
        /\ Goto(p, "initializing", "done")
        /\ doc' = BaselineDocument
     \/ /\ MayInitialize(doc)
        /\ Goto(p, "initializing", "refused")
        /\ doc' \in {doc, BaselineDocument}
     \/ /\ ~MayInitialize(doc)
        /\ Goto(p, "initializing", "failed")
        /\ UNCHANGED doc
  /\ writer' = None
  /\ UNCHANGED <<readers, files, req, snap, reply>>

---------------------------------------------------------------------------
(* controller.evaluate_candidate.                                          *)

BeginEvaluate(p) ==
  /\ Goto(p, "idle", "starting")
  /\ \E r \in RunDir, id \in Id, q \in Proposal, parent \in Id \cup {OriginalId, None} :
       req' = [req EXCEPT ![p] = [run |-> r, id |-> id, proposal |-> q, parent |-> parent]]
  /\ UNCHANGED <<doc, writer, readers, files, snap, reply>>

\* The named parent, or the best node.
Parent(p, d) == IF req[p].parent = None THEN d.best ELSE req[p].parent

\* The shared lock is let go in a `finally`, whether the context loads or not.
ReadersKeptOnError(p, loads) == IF loads THEN readers \ {p} ELSE readers

ReadersAfterLoad(p, loads) == readers \ {p}

\* _load_candidate_context: verify, choose the parent, keep a deep copy of
\* the document and let the shared lock go.
LoadContext(p) ==
  LET loads == Verified(doc) /\ Parent(p, doc) \in DOMAIN doc.nodes IN
  /\ Outcome(p, "loading", loads, "loaded")
  /\ readers' = ReadersAfterLoad(p, loads)
  /\ req'  = IF loads THEN [req EXCEPT ![p].parent = Parent(p, doc)] ELSE req
  /\ snap' = IF loads THEN [snap EXCEPT ![p] = doc] ELSE snap
  /\ UNCHANGED <<doc, writer, files, reply>>

\* mkdir is atomic and fails on a directory that is there.
DirFreeExistOk(dir) == TRUE

DirFree(dir) == dirs[dir] = None

\* The id must be new in the snapshot, the directory new on disk, and, once
\* the proposal is copied into it, the proposal new in the snapshot.  The
\* directory stays behind when that last check fails.
OpenAttempt(p) ==
  LET opens == ~IdTaken(snap[p], req[p].id) /\ DirFree(DirOf(p)) IN
  /\ Outcome(p, "loaded", opens /\ ~ProposalSeen(snap[p], req[p].proposal), "evaluating")
  /\ dirs' = IF opens THEN [dirs EXCEPT ![DirOf(p)] = p] ELSE dirs
  /\ snap' = [snap EXCEPT ![p] = NoDocument]
  /\ UNCHANGED <<doc, writer, readers, evaluation, decision, req, reply>>

VerdictUnbuilt ==
  [artifact : Artifact \cup {None}, gate : {"accepted"}, speed : Speed]

\* What the phases and the gate may conclude: a candidate that did not build
\* has no artifact, and only one that passed the gate has a score.
Verdict ==
  [artifact : Artifact \cup {None}, gate : Rejection, speed : {0}]
    \cup [artifact : Artifact, gate : {"accepted"}, speed : Speed]

EvaluationOf(p, v) ==
  [id |-> req[p].id, parent |-> req[p].parent, proposal |-> req[p].proposal,
   artifact |-> v.artifact, gate |-> v.gate, speed |-> v.speed]

Evaluate(p) ==
  /\ Goto(p, "evaluating", "evaluated")
  /\ \E v \in Verdict :
       evaluation' = [evaluation EXCEPT ![DirOf(p)] = EvaluationOf(p, v)]
  /\ UNCHANGED <<doc, writer, readers, dirs, decision, req, snap, reply>>

\* A ControllerError in a phase: no evaluation is written, nothing recorded.
AbortEvaluation(p) ==
  /\ Goto(p, "evaluating", "failed")
  /\ UNCHANGED <<doc, writer, readers, files, req, snap, reply>>

ParentIsBest(d, e) == e.parent = d.best

\* Any verified node may be a parent still.
ParentKnown(d, e) == e.parent \in DOMAIN d.nodes

\* _record_locked, first half: load the document, verify all of it, and look
\* the parent up.  In between, the gate or the provenance may refuse the
\* evaluation for what it says, whatever the document holds.
ReadDocument(p) ==
  LET passes == Verified(doc) /\ ParentKnown(doc, evaluation[DirOf(p)]) IN
  /\ \/ /\ Outcome(p, "recording", passes, "deciding")
        /\ snap' = IF passes THEN [snap EXCEPT ![p] = doc] ELSE snap
        /\ writer' = IF passes THEN writer ELSE None
     \/ /\ Goto(p, "recording", "refused")
        /\ writer' = None
        /\ UNCHANGED snap
  /\ UNCHANGED <<doc, readers, files, req, reply>>

\* _record_locked, second half, on the document in memory: an id that is
\* taken by now is reported and not recorded; anything else is appended, and
\* the file replaced, unless an artifact no longer has its hash.
\* _atomic_write may raise before the rename and after it: then nothing is
\* reported, recorded or not.  The lock is let go in any case.
Record(p) ==
  LET e == evaluation[DirOf(p)]
      taken == IdTaken(snap[p], e.id)
      recorded == Recorded(snap[p], e, req[p].run)
      Told(r) == reply' = [reply EXCEPT ![p] = r]
  IN
  /\ \/ /\ Goto(p, "deciding", "deciding_file")
        /\ taken
        /\ Told([recorded |-> FALSE, status |-> "duplicate"])
        /\ UNCHANGED doc
     \/ /\ Goto(p, "deciding", "deciding_file")
        /\ ~taken
        /\ Told([recorded |-> TRUE, status |-> EffectiveStatus(snap[p], e)])
        /\ doc' = recorded
     \/ /\ Goto(p, "deciding", "refused")
        /\ ~taken
        /\ doc' \in {doc, recorded}
        /\ UNCHANGED reply
  /\ snap' = [snap EXCEPT ![p] = NoDocument]
  /\ writer' = None
  /\ UNCHANGED <<readers, files, req>>

\* decision.json is derived: it is written after the commit and without the
\* lock, and an OSError is only a warning.
WriteDecision(p) ==
  /\ Goto(p, "deciding_file", "done")
  /\ \E written \in BOOLEAN :
       decision' = IF written THEN [decision EXCEPT ![DirOf(p)] = reply[p].status]
                              ELSE decision
  /\ UNCHANGED <<doc, writer, readers, dirs, evaluation, req, snap, reply>>

---------------------------------------------------------------------------

\* A process dies, or ends with an error of the operating system between two
\* steps: its flock is dropped; its files stay.
Crash(p) ==
  /\ pc[p] \notin Ended \cup {"idle"}
  /\ pc' = [pc EXCEPT ![p] = "crashed"]
  /\ snap' = [snap EXCEPT ![p] = NoDocument]
  /\ writer' = IF writer = p THEN None ELSE writer
  /\ readers' = readers \ {p}
  /\ UNCHANGED <<doc, files, req, reply>>

Init ==
  /\ doc \in {NoDocument, BaselineDocument}
  /\ writer = None
  /\ readers = {}
  /\ dirs = [x \in Dir |-> None]
  /\ evaluation = [x \in Dir |-> None]
  /\ decision = [x \in Dir |-> None]
  /\ pc = [p \in Proc |-> "idle"]
  /\ req = [p \in Proc |-> None]
  /\ snap = [p \in Proc |-> NoDocument]
  /\ reply = [p \in Proc |-> None]

\* The steps a started process takes by itself.
Step(p) ==
  \/ LockShared(p) \/ LockExclusive(p)
  \/ RunBaseline(p) \/ Initialize(p)
  \/ LoadContext(p) \/ OpenAttempt(p) \/ Evaluate(p) \/ AbortEvaluation(p)
  \/ ReadDocument(p) \/ Record(p) \/ WriteDecision(p)

Terminated == (\A p \in Proc : pc[p] \in Ended) /\ UNCHANGED vars

Next ==
  \/ \E p \in Proc : BeginInit(p) \/ BeginEvaluate(p) \/ Step(p) \/ Crash(p)
  \/ Terminated

Spec == Init /\ [][Next]_vars

\* A started process keeps running: every adapter it waits for ends in
\* bounded time, and each process runs one command, so that a lock it waits
\* for is held by finitely many others.
FairSpec == Spec /\ \A p \in Proc : WF_vars(Step(p))

---------------------------------------------------------------------------
(* Correctness.                                                            *)

IsDocument(d) ==
  /\ d = [nodes |-> d.nodes, attempts |-> d.attempts, best |-> d.best]
  /\ DOMAIN d.nodes \subseteq Id \cup {OriginalId}
  /\ d.nodes \in [DOMAIN d.nodes -> Node]
  /\ d.attempts \in Seq(Attempt)
  /\ d.best \in Id \cup {OriginalId, None}

\* Every variable holds a value the program can give it.
TypeOK ==
  /\ IsDocument(doc)
  /\ writer \in Proc \cup {None}
  /\ readers \subseteq Proc
  /\ dirs \in [Dir -> Proc \cup {None}]
  /\ evaluation \in [Dir -> Evaluation \cup {None}]
  /\ decision \in [Dir -> Status \cup {None}]
  /\ pc \in [Proc -> {"idle", "baselining", "baselined", "initializing", "starting",
                      "loading", "loaded", "evaluating", "evaluated", "recording",
                      "deciding", "deciding_file"} \cup Ended]
  /\ req \in [Proc -> Request \cup {None}]
  /\ DOMAIN snap = Proc /\ \A p \in Proc : IsDocument(snap[p])
  /\ reply \in [Proc -> Reply \cup {None}]

\* Whatever the processes do and wherever they die, the committed document
\* is one that every later command's replay accepts (lineage.py
\* _verify_controller_attempts): its parents come before their children, its
\* nodes are exactly its accepted attempts, its best is the first fastest,
\* and no evaluation.json or decision.json disagrees with it.  A document
\* that failed its own replay would end the run for good.
AlwaysVerifiable == Exists(doc) => Verified(doc)

\* An attempt is marked duplicate exactly when its proposal or its artifact
\* is the original's or an earlier attempt's, however many processes
\* evaluated it at the same time on snapshots that did not show the others
\* (lineage.py _record_locked, proposal_seen and artifact_seen).
JudgedOnceIn(d) ==
  \A i \in DOMAIN d.attempts :
    LET a == d.attempts[i]
        repeats(b) == b.eval.proposal = a.eval.proposal
                      \/ (a.eval.artifact # None /\ b.eval.artifact = a.eval.artifact)
    IN  a.status = "duplicate" <=>
          \/ OriginalSha \in {a.eval.proposal, a.eval.artifact}
          \/ \E j \in 1..(i - 1) : repeats(d.attempts[j])

JudgedOnce == JudgedOnceIn(doc)

\* What a process was told is recorded stays recorded, with the status it
\* was told: no commit is lost to another process's write or to a crash.
NoLostCommit ==
  \A p \in Proc :
    reply[p] # None /\ reply[p].recorded =>
      \E a \in AttemptsOf(doc) :
        HomeOf(a) = DirOf(p) /\ a.status = reply[p].status

\* One id names one attempt, in whatever run directories it was tried.
OneAttemptPerIdIn(d) ==
  \A i, j \in DOMAIN d.attempts :
    d.attempts[i].eval.id = d.attempts[j].eval.id => i = j

OneAttemptPerId == OneAttemptPerIdIn(doc)

\* Whichever stale snapshot its parent was chosen from, and whatever was
\* committed since, the parents of a node lead to the original: no set of
\* other nodes keeps its parents to itself (lineage.py _record_locked, the
\* lookup of the parent; _verify_controller_attempts, parents before children).
RootedIn(d) ==
  \A S \in SUBSET (DOMAIN d.nodes \ {OriginalId}) :
    S # {} => \E n \in S : d.nodes[n].parent \in DOMAIN d.nodes \ S

RootedInOriginal == Exists(doc) => RootedIn(doc)

\* Who waits for the flock waits for a process that is still running and in
\* its critical section: no error path and no death leaves the lock behind,
\* and it is never held both ways (lineage.py _state_lock, controller.py
\* _load_candidate_context).
LockIsInUse ==
  /\ writer # None => pc[writer] \in {"recording", "deciding", "initializing"}
  /\ \A p \in readers : pc[p] = "loading"
  /\ writer # None => readers = {}

\* No step rewrites history: attempts are only appended, a node never
\* changes or goes, and the baseline is written once.
HistoryOnlyGrows ==
  [][Exists(doc) =>
       /\ \A i \in DOMAIN doc.attempts :
            i \in DOMAIN doc'.attempts /\ doc'.attempts[i] = doc.attempts[i]
       /\ \A n \in DOMAIN doc.nodes :
            n \in DOMAIN doc'.nodes /\ doc'.nodes[n] = doc.nodes[n]]_vars

\* The best node only ever gives way to a strictly faster one, so that the
\* default parent of the next evaluation never gets slower.
BestOnlyImproves ==
  [][Exists(doc) /\ doc'.best # doc.best =>
       doc'.nodes[doc'.best].speed > doc.nodes[doc.best].speed]_vars

\* What was admitted against a snapshot hours ago is not turned down for what
\* others committed since: once evaluation.json is written, the document
\* still replays and still knows the parent when the lock comes round.  What
\* keeps such an evaluation from being judged is its own content, a file it
\* names, a failing write or a death (lineage.py _record_locked, the replay
\* and the lookup of the parent; controller.py _record_candidate).
OthersTurnNoneDown ==
  [][\A p \in Proc :
       pc[p] \in {"evaluated", "recording", "deciding"} => pc'[p] # "failed"]_vars

\* docs: "stabilize clocks/load and rerun" (references/failure-taxonomy.md, on
\* timing_unstable).  A proposal whose every attempt was timing_unstable may
\* be evaluated again, under a new id and in a new directory.
UnstableMayRerun ==
  [][\A p \in Proc :
       pc[p] = "loaded" /\ pc'[p] = "failed" =>
         \/ IdTaken(snap[p], req[p].id) \/ dirs[DirOf(p)] # None
         \/ req[p].proposal = OriginalSha
         \/ \E a \in AttemptsOf(snap[p]) :
              a.eval.proposal = req[p].proposal /\ a.status # "timing_unstable"]_vars

\* The processes together are one atomic, append-only log.
Log == INSTANCE LineageLog WITH log <- doc.attempts, best <- doc.best

ImplementsLog == Log!LogSpec

\* A started command ends, however the others interleave, fail or die.
EveryCommandEnds ==
  \A p \in Proc : pc[p] \in {"starting", "baselining"} ~> pc[p] \in Ended
=============================================================================
