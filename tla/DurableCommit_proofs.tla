------------------------ MODULE DurableCommit_proofs ------------------------
(***************************************************************************)
(* What a reader finds of the documents, for any number of calls that      *)
(* fail: the invariant says which documents a reader can see while one of  *)
(* them is being written, which of these are on the disk, and that a file  *)
(* is all there before it is renamed.                                      *)
(***************************************************************************)
EXTENDS DurableCommit, TLAPS

Full == [cached |-> 2, disk |-> 2]

Before == {"create", "dump", "flush", "fsync", "replace"}

\* While a document is written, the ones before it are seen, none after it.
Shown ==
  pc # "off" =>
    /\ \A d \in Place : d < current => d \in visible
    /\ \A d \in visible : d <= current
    /\ pc \in Before => current \notin visible
    /\ pc = "finally" /\ ~raised => current \in durable
    /\ pc = "fsync_directory" => current \in visible

\* The documents before it are on the disk, and so is a commit that was told.
Kept ==
  /\ \A d \in Place : d < current => d \in durable
  /\ told => CommitPlace \in durable

\* A file is all there, and on the disk, before it is renamed.
Whole ==
  /\ \A d \in visible : content[d] = Full
  /\ pc \in Before \ {"create"} => temporary \in FileData
  /\ pc = "fsync" => temporary.cached = 2
  /\ pc = "replace" => temporary = Full

Swept ==
  /\ pc = "create" => temporary = NoFile
  /\ NoLitter

IInv == TypeOK /\ Shown /\ Kept /\ Whole /\ Swept

LEMMA Places == Len(Document) = 4 /\ Place = 1..4 /\ CommitPlace \in Place
<1>1. Len(Document) = 4
  BY DEF Document
<1> QED
  BY <1>1 DEF Place, CommitPlace

LEMMA InitHolds == Init => IInv
<1> SUFFICES ASSUME Init PROVE IInv
  OBVIOUS
<1>1. TypeOK
  <2>1. failed \in Seq(Call) /\ Len(failed) <= MaxFailures
    BY MaxFailuresAssumption DEF Init
  <2>2. /\ [cached |-> 0, disk |-> 0] \in FileData
        /\ \A d \in Place : content[d] = [cached |-> 0, disk |-> 0]
    BY DEF Init, FileData, Level
  <2>3. content \in [Place -> FileData] /\ \A d \in Place : content[d].disk <= content[d].cached
    BY <2>2 DEF Init
  <2>4. current \in Place /\ pc \in Call \ {"unlink"}
    BY Places DEF Init, Call
  <2> QED
    BY <2>1, <2>3, <2>4 DEF Init, TypeOK
<1> QED
  BY <1>1, Places DEF Init, IInv, Shown, Kept, Whole, Swept, NoLitter, Before

LEMMA CreateStep == ASSUME IInv, Create PROVE IInv'
<1>1. TypeOK'
  BY DEF IInv, Create, TypeOK, FileData, Level, Call
<1> QED
  BY <1>1 DEF IInv, Create, Shown, Kept, Whole, Swept, NoLitter, Before, FileData, Level, Full

LEMMA DumpStep == ASSUME IInv, Dump PROVE IInv'
<1>1. temporary \in FileData /\ temporary' \in FileData
  BY DEF IInv, Dump, Whole, Before, FileData
<1>2. TypeOK'
  BY <1>1 DEF IInv, Dump, TypeOK, Call
<1> QED
  BY <1>1, <1>2 DEF IInv, Dump, Shown, Kept, Whole, Swept, NoLitter, Before

LEMMA FlushStep == ASSUME IInv, Flush PROVE IInv'
<1>1. temporary \in FileData /\ temporary' \in FileData /\ temporary'.cached = 2
  BY DEF IInv, Flush, Flushed, Whole, Before, FileData, Level
<1>2. TypeOK'
  BY <1>1 DEF IInv, Flush, TypeOK, Call
<1> QED
  BY <1>1, <1>2 DEF IInv, Flush, Shown, Kept, Whole, Swept, NoLitter, Before

LEMMA FsyncStep == ASSUME IInv, Fsync PROVE IInv'
<1>1. temporary \in FileData /\ temporary.cached = 2
  BY DEF IInv, Fsync, Whole, Before
<1>2. temporary' \in FileData /\ temporary' = Full
  BY <1>1 DEF Fsync, FileData, Level, Full
<1>3. TypeOK'
  BY <1>2 DEF IInv, Fsync, TypeOK, Call
<1> QED
  BY <1>2, <1>3 DEF IInv, Fsync, Shown, Kept, Whole, Swept, NoLitter, Before

LEMMA ReplaceStep == ASSUME IInv, Replace PROVE IInv'
<1>1. /\ temporary = Full /\ current \in Place /\ content \in [Place -> FileData]
      /\ visible' = visible \cup {current} /\ temporary' = NoFile
      /\ pc = "replace" /\ pc' = "fsync_directory"
      /\ UNCHANGED <<current, raised, durable, told, failed>>
  BY DEF IInv, Replace, Whole, TypeOK
<1>2. [temporary EXCEPT !.cached = 2] = Full /\ Full \in FileData
  BY <1>1 DEF Full, FileData, Level
<1>3. content' = [content EXCEPT ![current] = Full]
  BY <1>2 DEF Replace
<1>4. /\ content' \in [Place -> FileData] /\ content'[current] = Full
      /\ \A d \in Place : d # current => content'[d] = content[d]
  BY <1>1, <1>2, <1>3
<1>5. TypeOK'
  <2>1. \A d \in Place : content'[d].disk <= content'[d].cached
    BY <1>4 DEF IInv, TypeOK, Full
  <2> QED
    BY <1>1, <1>4, <2>1 DEF IInv, TypeOK, Call
<1>6. Shown' /\ Kept'
  <2>1. current <= current
    BY <1>1, Places
  <2> QED
    BY <1>1, <2>1 DEF IInv, Shown, Kept, Before
<1>7. Whole' /\ Swept'
  <2>1. visible \subseteq Place
    BY DEF IInv, TypeOK
  <2> QED
    BY <1>1, <1>4, <2>1 DEF IInv, Whole, Swept, NoLitter, Before
<1> QED
  BY <1>5, <1>6, <1>7 DEF IInv

LEMMA FsyncDirectoryStep == ASSUME IInv, FsyncDirectory PROVE IInv'
<1>1. /\ pc = "fsync_directory" /\ pc' = "finally" /\ durable' = durable \cup {current}
      /\ current \in visible
      /\ UNCHANGED <<current, raised, temporary, visible, content, told, failed>>
  BY DEF IInv, FsyncDirectory, RenamedDurably, Shown
<1> QED
  BY <1>1 DEF IInv, TypeOK, Shown, Kept, Whole, Swept, NoLitter, Before, Call

LEMMA FailedMore ==
  ASSUME IInv, NEW call \in Call, Len(failed) < MaxFailures, failed' = Append(failed, call)
  PROVE  /\ failed' \in Seq(Call) /\ Len(failed') <= MaxFailures
         /\ (\E i \in DOMAIN failed : failed[i] = "unlink") =>
              \E i \in DOMAIN failed' : failed'[i] = "unlink"
         /\ call = "unlink" => \E i \in DOMAIN failed' : failed'[i] = "unlink"
<1>1. failed \in Seq(Call) /\ Len(failed) \in Nat /\ MaxFailures \in Nat
  BY MaxFailuresAssumption DEF IInv, TypeOK
<1>2. /\ failed' \in Seq(Call) /\ Len(failed') = Len(failed) + 1
      /\ \A i \in 1..Len(failed) : failed'[i] = failed[i]
      /\ failed'[Len(failed) + 1] = call
      /\ DOMAIN failed = 1..Len(failed) /\ DOMAIN failed' = 1..(Len(failed) + 1)
  BY <1>1
<1> QED
  BY <1>1, <1>2

LEMMA CallFailsStep == ASSUME IInv, CallFails PROVE IInv'
<1>1. PICK call \in {"dump", "flush", "fsync", "replace", "fsync_directory"} : Fail(call)
  BY DEF CallFails
<1>2. /\ pc = call /\ pc' = "finally" /\ raised' = TRUE
      /\ UNCHANGED <<current, temporary, visible, content, durable, told>>
      /\ failed' \in Seq(Call) /\ Len(failed') <= MaxFailures
  BY <1>1, FailedMore DEF CallFails, Fail, Call
<1> QED
  BY <1>2 DEF IInv, TypeOK, Shown, Kept, Whole, Swept, NoLitter, Before, Call

\* How _atomic_write comes back: to the next document only when this one is
\* on the disk, and to the caller only with the commit on the disk.
LEMMA ReturnFacts ==
  ASSUME IInv, pc \in {"finally", "create"}, NEW raising \in BOOLEAN, Return(raising),
         UNCHANGED <<visible, content, durable>>, raised' = FALSE,
         ~raising => current \in durable
  PROVE  /\ Shown' /\ Kept'
         /\ current' \in Place /\ told' \in BOOLEAN
         /\ pc' \in {"controller_error", "returned", "create"}
         /\ pc' = "create" => ~raising
         /\ \A d \in visible' : content'[d] = Full
<1>1. /\ current \in 1..4 /\ Place = 1..4 /\ Len(Document) = 4 /\ CommitPlace = 3
      /\ told \in BOOLEAN /\ visible \subseteq 1..4 /\ durable \subseteq visible
  BY Places DEF IInv, TypeOK, CommitPlace
<1>2. /\ \A d \in 1..4 : d < current => d \in visible /\ d \in durable
      /\ \A d \in visible : d <= current
      /\ told => 3 \in durable
  BY <1>1 DEF IInv, Shown, Kept
<1>3. CASE pc' = "controller_error" /\ UNCHANGED <<current, told>>
  BY <1>1, <1>2, <1>3 DEF IInv, Shown, Kept, Whole, Before
<1>4. CASE pc' = "returned" /\ told' = TRUE /\ UNCHANGED current /\ current = 4
  BY <1>1, <1>2, <1>4 DEF IInv, Shown, Kept, Whole, Before
<1>5. CASE pc' = "create" /\ current' = current + 1 /\ UNCHANGED told /\ ~raising /\ current # 4
  <2>1. current \in durable
    BY <1>5
  <2>2. current' \in 1..4
    BY <1>1, <1>5
  <2>3. \A d \in 1..4 : d < current' => d < current \/ d = current
    BY <1>1, <1>5
  <2>4. \A d \in visible : d <= current' /\ d # current'
    BY <1>1, <1>2, <1>5
  <2>5. Kept'
    BY <1>1, <1>2, <1>5, <2>1, <2>3 DEF Kept
  <2>6. Shown'
    BY <1>1, <1>2, <1>5, <2>1, <2>3, <2>4 DEF Shown
  <2> QED
    BY <1>1, <1>5, <2>2, <2>5, <2>6 DEF IInv, Whole
<1> QED
  BY <1>1, <1>3, <1>4, <1>5 DEF Return, IsLast

LEMMA FinallyStep == ASSUME IInv, Finally PROVE IInv'
<1>1. /\ pc = "finally" /\ raised \in BOOLEAN /\ Return(raised) /\ raised' = FALSE
      /\ UNCHANGED <<visible, content, durable, failed>>
      /\ ~raised => current \in durable
  BY DEF IInv, Finally, TypeOK, Shown
<1>2. temporary' = NoFile
  BY DEF Finally, Removed
<1>3. /\ Shown' /\ Kept' /\ current' \in Place /\ told' \in BOOLEAN
      /\ pc' \in {"controller_error", "returned", "create"}
      /\ \A d \in visible' : content'[d] = Full
  BY <1>1, ReturnFacts
<1>4. TypeOK'
  BY <1>1, <1>2, <1>3 DEF IInv, TypeOK, Call, Over
<1>5. Whole' /\ Swept'
  BY <1>2, <1>3 DEF Whole, Swept, NoLitter, Before
<1> QED
  BY <1>3, <1>4, <1>5 DEF IInv

LEMMA CreateFailsStep == ASSUME IInv, CreateFails PROVE IInv'
<1>1. /\ pc = "create" /\ Return(TRUE) /\ temporary = NoFile
      /\ UNCHANGED <<raised, temporary, visible, content, durable>>
      /\ failed' \in Seq(Call) /\ Len(failed') <= MaxFailures
  BY FailedMore DEF IInv, CreateFails, Fail, Call, Swept
<1>2. /\ current \in 1..4 /\ Place = 1..4 /\ Len(Document) = 4 /\ CommitPlace = 3
      /\ told \in BOOLEAN /\ visible \subseteq 1..4 /\ durable \subseteq visible
  BY Places DEF IInv, TypeOK, CommitPlace
<1>3. /\ current' = current /\ (told' = told \/ (current = 4 /\ told' = TRUE))
      /\ pc' \in {"controller_error", "returned"}
  BY <1>1, <1>2 DEF Return, IsLast
<1>4. TypeOK'
  BY <1>1, <1>2, <1>3 DEF IInv, TypeOK, Call, Over
<1>5. Shown' /\ Kept'
  BY <1>1, <1>2, <1>3 DEF IInv, Shown, Kept, Before
<1>6. Whole' /\ Swept'
  BY <1>1, <1>3 DEF IInv, Whole, Swept, NoLitter, Before
<1> QED
  BY <1>4, <1>5, <1>6 DEF IInv

LEMMA UnlinkFailsStep == ASSUME IInv, UnlinkFails PROVE IInv'
<1>1. /\ pc = "finally" /\ Return(TRUE) /\ raised' = FALSE
      /\ UNCHANGED <<temporary, visible, content, durable>>
      /\ failed' \in Seq(Call) /\ Len(failed') <= MaxFailures
      /\ \E i \in DOMAIN failed' : failed'[i] = "unlink"
  BY FailedMore DEF UnlinkFails, Call
<1>2. /\ Shown' /\ Kept' /\ current' \in Place /\ told' \in BOOLEAN
      /\ pc' \in {"controller_error", "returned"}
      /\ \A d \in visible' : content'[d] = Full
  <2>1. TRUE \in BOOLEAN
    OBVIOUS
  <2> QED
    BY <1>1, <2>1, ReturnFacts
<1>3. TypeOK'
  BY <1>1, <1>2 DEF IInv, TypeOK, Call, Over
<1>4. Whole' /\ Swept'
  BY <1>1, <1>2 DEF Whole, Swept, NoLitter, Before
<1> QED
  BY <1>2, <1>3, <1>4 DEF IInv

LEMMA EndsStep == ASSUME IInv, Refuse \/ Die PROVE IInv'
<1>1. CASE Refuse
  BY <1>1 DEF IInv, Refuse, TypeOK, Shown, Kept, Whole, Swept, NoLitter, Before, Over, Call
<1>2. CASE Die
  BY <1>2 DEF IInv, Die, TypeOK, Shown, Kept, Whole, Swept, NoLitter, Before, Over, Call
<1> QED
  BY <1>1, <1>2

LEMMA PowerFailsStep == ASSUME IInv, PowerFails PROVE IInv'
<1>1. PICK undone \in SUBSET (visible \ durable) : visible' = visible \ undone
  BY DEF PowerFails
<1>2. PICK left \in [Place -> Level] :
        /\ \A d \in Place : left[d] \in content[d].disk..content[d].cached
        /\ content' = [d \in Place |-> [content[d] EXCEPT !.cached = left[d]]]
  BY DEF PowerFails
<1>3. pc' = "off" /\ UNCHANGED <<current, raised, temporary, durable, told, failed>>
  BY DEF PowerFails
<1>4. \A d \in Place : content[d] \in FileData /\ content[d].disk \in 0..2 /\ left[d] \in Level
  BY DEF IInv, TypeOK, FileData, Level
<1>5. ASSUME NEW d \in Place
      PROVE  /\ content'[d] \in FileData /\ content'[d].disk <= content'[d].cached
             /\ content[d] = Full => content'[d] = Full
  <2>1. /\ content'[d] = [content[d] EXCEPT !.cached = left[d]]
        /\ left[d] \in content[d].disk..content[d].cached
    BY <1>2
  <2>2. /\ content'[d] \in FileData /\ content'[d].cached = left[d]
        /\ content'[d].disk = content[d].disk
    BY <1>4, <2>1 DEF FileData
  <2>3. content[d].disk <= left[d]
    BY <1>4, <2>1
  <2>4. ASSUME content[d] = Full PROVE content'[d] = Full
    <3>1. content[d].disk = 2 /\ content[d].cached = 2
      BY <2>4 DEF Full
    <3>2. left[d] \in 2..2
      BY <2>1, <3>1
    <3>3. left[d] = 2
      BY <3>2
    <3> QED
      BY <2>1, <2>4, <3>3 DEF Full
  <2> QED
    BY <2>2, <2>3, <2>4
<1>6. TypeOK'
  <2>1. content' \in [Place -> FileData]
    BY <1>2, <1>5
  <2>2. durable \subseteq visible' /\ visible' \subseteq Place
    BY <1>1 DEF IInv, TypeOK
  <2> QED
    BY <1>3, <1>5, <2>1, <2>2 DEF IInv, TypeOK, Over
<1>7. Whole'
  <2>1. \A d \in visible' : d \in visible /\ d \in Place
    BY <1>1 DEF IInv, TypeOK
  <2> QED
    BY <1>3, <1>5, <2>1 DEF IInv, Whole, Before
<1> QED
  BY <1>3, <1>6, <1>7 DEF IInv, Shown, Kept, Swept, NoLitter

LEMMA StepKeeps == IInv /\ [Next]_vars => IInv'
<1> SUFFICES ASSUME IInv, [Next]_vars PROVE IInv'
  OBVIOUS
<1>1. CASE UNCHANGED vars
  BY <1>1 DEF IInv, vars, TypeOK, Shown, Kept, Whole, Swept, NoLitter
<1> QED
  BY <1>1, CreateStep, DumpStep, FlushStep, FsyncStep, ReplaceStep, FsyncDirectoryStep,
     FinallyStep, CallFailsStep, CreateFailsStep, UnlinkFailsStep, EndsStep, PowerFailsStep
     DEF Next

LEMMA Invariant == Spec => []IInv
<1> QED
  BY InitHolds, StepKeeps, PTL DEF Spec

\* The writer of an evaluation's documents stays within its types, however
\* many calls fail (_atomic_write and _record_candidate).
THEOREM TypeCorrect == Spec => []TypeOK
<1>1. IInv => TypeOK
  BY DEF IInv
<1> QED
  BY <1>1, Invariant, PTL

\* A reader finds no torn document, whichever calls fail and whenever the
\* power does (_atomic_write's fsync before its rename).
THEOREM NeverTornAlways == Spec => []NeverTorn
<1>1. IInv => NeverTorn
  BY DEF IInv, Whole, NeverTorn, Full
<1> QED
  BY <1>1, Invariant, PTL

\* A command that ended by itself has removed its temporary file, unless the
\* removal itself failed (_atomic_write's finally clause).
THEOREM NoLitterAlways == Spec => []NoLitter
<1>1. IInv => NoLitter
  BY DEF IInv, Swept
<1> QED
  BY <1>1, Invariant, PTL

---------------------------------------------------------------------------
(* The refinement of OrderedDocuments.                                     *)

WrittenIsVisible == Written = visible

LEMMA WrittenNow == IInv => WrittenIsVisible
<1> QED
  BY DEF IInv, Whole, Written, WrittenIsVisible, Full

LEMMA WrittenNext == IInv' => WrittenIsVisible'
<1> QED
  BY WrittenNow, PTL

LEMMA ReplaceAppears == ASSUME IInv, IInv', Replace PROVE Ordered!AppearNext
<1>1. /\ Written = visible /\ Written' = visible' /\ visible' = visible \cup {current}
      /\ UNCHANGED told /\ pc = "replace"
  BY WrittenNow, WrittenNext DEF Replace, WrittenIsVisible
<1>2. /\ current \in 1..Len(Document) /\ current \notin visible
      /\ \A d \in 1..Len(Document) : d < current => d \in visible
  BY <1>1 DEF IInv, TypeOK, Shown, Place, Before
<1> QED
  BY <1>1, <1>2 DEF Ordered!AppearNext

\* All that can be lost is the document that was renamed last.
LEMMA PowerLoses ==
  ASSUME IInv, IInv', PowerFails
  PROVE  Ordered!LoseLast \/ UNCHANGED <<Written, told>>
<1>1. PICK undone \in SUBSET (visible \ durable) : visible' = visible \ undone
  BY DEF PowerFails
<1>2. /\ Written = visible /\ Written' = visible' /\ UNCHANGED told /\ pc # "off"
  BY WrittenNow, WrittenNext DEF PowerFails, WrittenIsVisible
<1>3. /\ visible \subseteq 1..4 /\ current \in 1..4 /\ durable \subseteq visible
      /\ \A d \in visible : d <= current
      /\ \A d \in 1..4 : d < current => d \in durable
      /\ told => CommitPlace \in durable
  BY <1>2, Places DEF IInv, TypeOK, Shown, Kept
<1>4. \A d \in undone : d = current
  <2> SUFFICES ASSUME NEW d \in undone PROVE d = current
    OBVIOUS
  <2>1. d \in 1..4 /\ d <= current /\ ~(d < current)
    BY <1>3
  <2> QED
    BY <1>3, <2>1
<1>5. CASE undone = {}
  BY <1>1, <1>2, <1>5
<1>6. CASE undone # {}
  <2>1. undone = {current} /\ current \in visible /\ current \notin durable
    BY <1>4, <1>6
  <2>2. told => current # CommitPlace
    BY <1>3, <2>1
  <2> QED
    BY <1>1, <1>2, <1>3, <2>1, <2>2 DEF Ordered!LoseLast
<1> QED
  BY <1>5, <1>6

\* What returns to the caller tells of a commit that is there.
LEMMA ReturnTells ==
  ASSUME IInv, IInv', NEW raising \in BOOLEAN, Return(raising), UNCHANGED <<visible, content>>
  PROVE  Ordered!Tell \/ UNCHANGED <<Written, told>>
<1>1. Written' = Written /\ Written = visible
  BY WrittenNow DEF WrittenIsVisible, Written
<1>2. CASE told' = told
  BY <1>1, <1>2
<1>3. CASE told' # told
  <2>1. told' = TRUE
    BY <1>3 DEF Return
  <2>2. CommitPlace \in durable' /\ durable' \subseteq visible'
    BY <2>1 DEF IInv, Kept, TypeOK
  <2> QED
    BY <1>1, <2>1, <2>2 DEF Ordered!Tell
<1> QED
  BY <1>2, <1>3

LEMMA StepAppears == IInv /\ IInv' /\ [Next]_vars => [Ordered!Next]_<<Written, told>>
<1> SUFFICES ASSUME IInv, IInv', [Next]_vars PROVE [Ordered!Next]_<<Written, told>>
  OBVIOUS
<1>1. CASE Create \/ Dump \/ Flush \/ Fsync \/ FsyncDirectory \/ CallFails \/ Refuse \/ Die
           \/ UNCHANGED vars
  <2>1. UNCHANGED <<visible, content, told>>
    BY <1>1 DEF Create, Dump, Flush, Fsync, FsyncDirectory, CallFails, Refuse, Die, vars
  <2> QED
    BY <2>1 DEF Written
<1>2. CASE Replace
  BY <1>2, ReplaceAppears DEF Ordered!Next
<1>3. CASE Finally
  <2>1. raised \in BOOLEAN /\ Return(raised) /\ UNCHANGED <<visible, content>>
    BY <1>3 DEF IInv, TypeOK, Finally
  <2> QED
    BY <2>1, ReturnTells DEF Ordered!Next
<1>4. CASE CreateFails \/ UnlinkFails
  <2>1. TRUE \in BOOLEAN /\ Return(TRUE) /\ UNCHANGED <<visible, content>>
    BY <1>4 DEF CreateFails, UnlinkFails
  <2> QED
    BY <2>1, ReturnTells DEF Ordered!Next
<1>5. CASE PowerFails
  BY <1>5, PowerLoses DEF Ordered!Next
<1> QED
  BY <1>1, <1>2, <1>3, <1>4, <1>5 DEF Next

\* The calls of _atomic_write implement OrderedDocuments: each document
\* appears whole and in its order, a failure of the power undoes at most the
\* last one, and never the commit that the caller was told of.
THEOREM AppearInOrderAlways == Spec => AppearInOrder
<1>1. Init => Ordered!Init
  BY DEF Init, Ordered!Init, Written
<1> QED
  BY <1>1, StepAppears, Invariant, PTL DEF Spec, AppearInOrder, Ordered!DocumentsSpec
=============================================================================
