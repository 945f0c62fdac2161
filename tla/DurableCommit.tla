--------------------------- MODULE DurableCommit ---------------------------
(***************************************************************************)
(* How the documents of one evaluation reach the disk: lineage.py's        *)
(* _atomic_write and controller.py's _atomic_write_json, one action per    *)
(* call to the operating system, for the four documents that authorize,    *)
(* carry, commit and report an evaluation that is benchmarked.  Any call   *)
(* may fail, the controller may die and the power may fail between any two *)
(* calls.                                                                  *)
(*                                                                         *)
(* The file system: what is written is seen at once and is on the disk     *)
(* once fsync returned; a rename is atomic and is on the disk once the     *)
(* directory was fsynced; the operating system may write anything back     *)
(* earlier.  Directories that mkdir made are taken to be on the disk with  *)
(* the first file that is fsynced in them, as journaling file systems do.  *)
(***************************************************************************)
EXTENDS Naturals, Sequences

CONSTANT MaxFailures   \* bound: how many calls fail

ASSUME MaxFailuresAssumption == MaxFailures \in Nat

\* The documents, in the order in which one evaluation writes them.
Document == <<"receipt", "evaluation", "state", "decision">>

Place == 1..Len(Document)

CommitPlace == 3

VARIABLES
  pc,         \* the next call of the controller, or how it ended
  current,    \* the place of the document it is writing
  raised,     \* an exception is on its way through the finally clause
  temporary,  \* the temporary file, or NoFile
  visible,    \* the documents whose path leads to the new version
  content,    \* for each visible document, what is in its file
  durable,    \* the documents whose rename is on the disk
  told,       \* the caller was told that the attempt is recorded
  failed      \* the calls that failed

vars == <<pc, current, raised, temporary, visible, content, durable, told, failed>>

\* How much of a document is there: nothing, a part, or all of it.
Level == 0..2

\* What a reader sees of a file, and what is on the disk of it.
FileData == [cached : Level, disk : Level]

NoFile == [cached |-> 0, disk |-> 3]

Call == {"create", "dump", "flush", "fsync", "replace", "fsync_directory", "unlink"}

Over == {"returned", "controller_error", "dead", "off"}

---------------------------------------------------------------------------
(* _atomic_write.                                                          *)

\* A call that fails inside the try block goes to the finally clause.
Fail(call) ==
  /\ pc = call
  /\ Len(failed) < MaxFailures
  /\ failed' = Append(failed, call)

\* mkstemp is called before the try block.
Create ==
  /\ pc = "create"
  /\ temporary' = [cached |-> 0, disk |-> 0]
  /\ pc' = "dump"
  /\ UNCHANGED <<current, raised, visible, content, durable, told, failed>>

\* json.dump writes to a buffer, which may spill any part into the file.
Dump ==
  /\ pc = "dump"
  /\ \E spilled \in Level : temporary' = [temporary EXCEPT !.cached = spilled]
  /\ pc' = "flush"
  /\ UNCHANGED <<current, raised, visible, content, durable, told, failed>>

FlushedNothing(file) == file

Flushed(file) == [file EXCEPT !.cached = 2]

Flush ==
  /\ pc = "flush"
  /\ temporary' = Flushed(temporary)
  /\ pc' = "fsync"
  /\ UNCHANGED <<current, raised, visible, content, durable, told, failed>>

Fsync ==
  /\ pc = "fsync"
  /\ temporary' = [temporary EXCEPT !.disk = temporary.cached]
  /\ pc' = "replace"
  /\ UNCHANGED <<current, raised, visible, content, durable, told, failed>>

\* The file is closed, which writes what is left in its buffer, and renamed.
Replace ==
  /\ pc = "replace"
  /\ visible' = visible \cup {current}
  /\ content' = [content EXCEPT ![current] = [temporary EXCEPT !.cached = 2]]
  /\ temporary' = NoFile
  /\ pc' = "fsync_directory"
  /\ UNCHANGED <<current, raised, durable, told, failed>>

RenamedUnsynced(d) == durable

RenamedDurably(d) == durable \cup {d}

FsyncDirectory ==
  /\ pc = "fsync_directory"
  /\ durable' = RenamedDurably(current)
  /\ pc' = "finally"
  /\ UNCHANGED <<current, raised, temporary, visible, content, told, failed>>

CallFails ==
  /\ \E call \in {"dump", "flush", "fsync", "replace", "fsync_directory"} : Fail(call)
  /\ raised' = TRUE
  /\ pc' = "finally"
  /\ UNCHANGED <<current, temporary, visible, content, durable, told>>

---------------------------------------------------------------------------
(* _record_candidate and what is before it.                                *)

LastCompared(d) == d > Len(Document)

IsLast(d) == d = Len(Document)

\* An OSError ends the command, except for the decision, whose OSError
\* becomes a warning in the result.
Return(raising) ==
  IF raising /\ ~IsLast(current)
  THEN pc' = "controller_error" /\ UNCHANGED <<current, told>>
  ELSE IF IsLast(current)
  THEN pc' = "returned" /\ told' = TRUE /\ UNCHANGED current
  ELSE pc' = "create" /\ current' = current + 1 /\ UNCHANGED told

RemovedNever(raising) == FALSE

\* finally: the temporary file is removed if it is still there.
Removed(raising) == temporary # NoFile

Finally ==
  /\ pc = "finally"
  /\ temporary' = IF Removed(raised) THEN NoFile ELSE temporary
  /\ Return(raised)
  /\ raised' = FALSE
  /\ UNCHANGED <<visible, content, durable, failed>>

CreateFails ==
  /\ Fail("create")
  /\ Return(TRUE)
  /\ UNCHANGED <<raised, temporary, visible, content, durable>>

UnlinkFails ==
  /\ pc = "finally" /\ temporary # NoFile
  /\ Len(failed) < MaxFailures
  /\ failed' = Append(failed, "unlink")
  /\ Return(TRUE)
  /\ raised' = FALSE
  /\ UNCHANGED <<temporary, visible, content, durable>>

\* A phase after the receipt, or lineage itself, refuses the evaluation
\* before the next document is written.
Refuse ==
  /\ pc = "create" /\ current \in {2, CommitPlace}
  /\ pc' = "controller_error"
  /\ UNCHANGED <<current, raised, temporary, visible, content, durable, told, failed>>

---------------------------------------------------------------------------
(* Faults.                                                                 *)

\* The controller dies; the operating system still has all it was given.
Die ==
  /\ pc \notin Over
  /\ pc' = "dead"
  /\ UNCHANGED <<current, raised, temporary, visible, content, durable, told, failed>>

\* The power fails: a rename that is not on the disk may be undone, and of
\* each file there is what was on the disk or written back by then.
PowerFails ==
  /\ pc # "off"
  /\ pc' = "off"
  /\ \E undone \in SUBSET (visible \ durable) : visible' = visible \ undone
  /\ \E left \in [Place -> Level] :
       /\ \A d \in Place : left[d] \in content[d].disk..content[d].cached
       /\ content' = [d \in Place |-> [content[d] EXCEPT !.cached = left[d]]]
  /\ UNCHANGED <<current, raised, temporary, durable, told, failed>>

Init ==
  /\ pc = "create" /\ current = 1 /\ raised = FALSE
  /\ temporary = NoFile
  /\ visible = {} /\ durable = {}
  /\ content = [d \in Place |-> [cached |-> 0, disk |-> 0]]
  /\ told = FALSE
  /\ failed = <<>>

Next ==
  \/ Create \/ Dump \/ Flush \/ Fsync \/ Replace \/ FsyncDirectory \/ Finally
  \/ CallFails \/ CreateFails \/ UnlinkFails
  \/ Refuse \/ Die \/ PowerFails
  \/ pc \in Over /\ UNCHANGED vars

Spec == Init /\ [][Next]_vars

---------------------------------------------------------------------------
(* Correctness.                                                            *)

\* Every variable holds a value the program can give it.
TypeOK ==
  /\ pc \in (Call \ {"unlink"}) \cup {"finally"} \cup Over
  /\ current \in Place
  /\ raised \in BOOLEAN /\ told \in BOOLEAN
  /\ temporary \in FileData \cup {NoFile}
  /\ visible \subseteq Place /\ durable \subseteq visible
  /\ content \in [Place -> FileData]
  /\ \A d \in Place : content[d].disk <= content[d].cached
  /\ failed \in Seq(Call) /\ Len(failed) <= MaxFailures

\* A reader never finds a torn document, also after the power failed: it
\* finds the old version or all of the new one (_atomic_write's fsync before
\* its rename).
NeverTorn == \A d \in visible : content[d].cached = 2

\* A command that ended by itself leaves no temporary file, whichever of its
\* calls failed, unless that was the unlink itself (_atomic_write's finally).
NoLitter ==
  pc \in {"returned", "controller_error"} =>
    temporary = NoFile \/ \E i \in DOMAIN failed : failed[i] = "unlink"

\* The documents that a reader finds, whole.
Written == {d \in visible : content[d].cached = 2}

\* A reader finds the documents as if each was written in one step, in their
\* order: no commit without the evaluation it rests on, no decision without
\* the commit it reports, and no loss of a commit that the caller was told
\* of, whatever fails.
Ordered ==
  INSTANCE OrderedDocuments WITH
    Count <- Len(Document), Commit <- CommitPlace, written <- Written

AppearInOrder == Ordered!DocumentsSpec

\* docs: controller_error means "fail closed; do not benchmark or promote"
\* (references/failure-taxonomy.md).  A command that ends in it has not
\* recorded its candidate.
ErrorPromotesNothing == pc = "controller_error" => CommitPlace \notin visible
=============================================================================
