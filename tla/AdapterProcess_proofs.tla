------------------------ MODULE AdapterProcess_proofs ------------------------
(***************************************************************************)
(* The safety of one adapter run, for every limit, every chunk size and    *)
(* every deadline.  RunReturns is a liveness property and stays with TLC;  *)
(* what it rests on is here: the controller is never caught in a call that *)
(* blocks, and past the deadline each of its steps is nearer to the end.   *)
(***************************************************************************)
EXTENDS AdapterProcess, TLAPS

\* Until something failed, nothing was cut off.
Uncut ==
  /\ pc \in {"starting", "looping", "selecting", "reading", "waiting"} => failure = "none"
  /\ failure = "none" => \A s \in Stream : taken[s] <= MaxOutput

\* A stream that is no longer registered was read to its end, for good.
ClosedAtEnd ==
  /\ failure = "none" /\ pc # "starting" => \A s \in Stream \ open : AtEnd(s)
  /\ pc \in {"waiting", "closing", "returned"} /\ failure = "none" => open = {}

\* Who has an exit status, and whose it is.
StatusIsOwn ==
  /\ code = "none" <=> "adapter" \in alive
  /\ pc \in {"closing", "returned"} /\ failure = "none" => "adapter" \notin alive
  /\ code = "killed" => failure # "none"
  /\ "adapter" \in alive => ended = Deadline

\* The group is dead from the moment that a run fails.
FailedIsDead == failure \in {"timed_out", "exceeded"} => alive = {}

IInv ==
  /\ TypeOK /\ StoredIsAPrefix
  /\ Uncut /\ ClosedAtEnd /\ StatusIsOwn /\ FailedIsDead /\ FailureIsTrue

LEMMA InitHolds == Init => IInv
BY LimitAssumption, DeadlineAssumption, MaxWrittenAssumption
   DEF Init, IInv, TypeOK, StoredIsAPrefix, Uncut, ClosedAtEnd, StatusIsOwn, FailedIsDead,
       FailureIsTrue, Stream, Member, Smaller

\* A step of the group changes nothing that the controller keeps.
LEMMA GroupStep ==
  ASSUME IInv, pc # "returned", Group
  PROVE  IInv'
<1> USE LimitAssumption, DeadlineAssumption, MaxWrittenAssumption
    DEF IInv, TypeOK, StoredIsAPrefix, Uncut, ClosedAtEnd, StatusIsOwn, FailedIsDead,
        FailureIsTrue, Stream, Member, Smaller, AtEnd
<1>1. CASE Spawn
  BY <1>1 DEF Spawn
<1>2. ASSUME NEW m \in Member, NEW s \in Stream, Write(m, s)
      PROVE  IInv'
  BY <1>2 DEF Write
<1>3. ASSUME NEW m \in Member, NEW s \in Stream, Close(m, s)
      PROVE  IInv'
  BY <1>3 DEF Close
<1>4. ASSUME NEW m \in Member, Exit(m)
      PROVE  IInv'
  BY <1>4 DEF Exit
<1> QED
  BY <1>1, <1>2, <1>3, <1>4 DEF Group

\* A kill leaves nobody, at either end of a pipe, and changes the exit status
\* only of an adapter that had none.
LEMMA Killed ==
  ASSUME TypeOK, StatusIsOwn, KillGroup
  PROVE  /\ alive' = {} /\ written' = written /\ ended' = ended
         /\ holders' = [s \in Stream |-> {}]
         /\ code' \in {"zero", "nonzero", "killed"}
         /\ "adapter" \in alive => code' = "killed"
         /\ "adapter" \notin alive => code' = code
<1>1. holders' = [s \in Stream |-> {}]
  BY DEF KillGroup, GroupKilled
<1> QED
  BY <1>1 DEF KillGroup, GroupKilled, TypeOK, StatusIsOwn

LEMMA ControllerStep ==
  ASSUME IInv, pc # "returned", Controller \/ Raise \/ Tick
  PROVE  IInv'
<1> USE LimitAssumption, DeadlineAssumption, MaxWrittenAssumption
    DEF IInv, TypeOK, StoredIsAPrefix, Uncut, ClosedAtEnd, StatusIsOwn, FailedIsDead,
        FailureIsTrue, Stream, Member, Smaller, AtEnd, Late, group
<1>1. CASE OpenFiles
  BY <1>1 DEF OpenFiles
<1>2. CASE Loop
  <2>1. CASE open = {}
    BY <1>2, <2>1 DEF Loop
  <2>2. CASE open # {} /\ Late
    <3>1. /\ pc = "looping" /\ pc' = "closing" /\ failure' = "timed_out" /\ KillGroup
          /\ UNCHANGED <<clock, taken, open, ready, stored>>
      BY <1>2, <2>2 DEF Loop
    <3>2. /\ alive' = {} /\ written' = written /\ ended' = ended
          /\ holders' = [s \in Stream |-> {}]
          /\ code' \in {"zero", "nonzero", "killed"}
      BY <3>1, Killed
    <3>3. TypeOK'
      BY <3>1, <3>2
    <3>4. StoredIsAPrefix'
      BY <3>1, <3>2
    <3> QED
      BY <2>2, <3>1, <3>2, <3>3, <3>4
  <2>3. CASE open # {} /\ ~Late
    BY <1>2, <2>3 DEF Loop
  <2> QED
    BY <2>1, <2>2, <2>3
<1>3. CASE Select
  BY <1>3 DEF Select
<1>4. CASE EventsDone
  BY <1>4 DEF EventsDone
<1>5. CASE Wait
  <2>1. CASE "adapter" \in alive
    BY <1>5, <2>1, Killed DEF Wait, Reaped
  <2>2. CASE "adapter" \notin alive
    BY <1>5, <2>2 DEF Wait, Reaped
  <2> QED
    BY <2>1, <2>2
<1>6. CASE Finish
  <2>1. /\ pc = "closing" /\ open' = {} /\ ready' = {} /\ pc' = "returned"
        /\ UNCHANGED <<clock, taken>>
        /\ \/ failure' = failure /\ stored' = stored
           \/ failure' = "raised" /\ stored' \in Unflushed
    BY <1>6 DEF Finish
  <2>2. \/ "adapter" \in alive /\ KillGroup
        \/ "adapter" \notin alive /\ UNCHANGED group
    BY <1>6 DEF Finish
  <2>3. stored' \in [Stream -> Nat] /\ \A s \in Stream : stored'[s] <= stored[s]
    BY <2>1 DEF Unflushed
  <2>4. /\ alive' = {} \/ (alive' = alive /\ "adapter" \notin alive)
        /\ written' = written /\ ended' = ended
        /\ holders' \in [Stream -> SUBSET Member]
        /\ \A s \in Stream : holders'[s] = {} \/ holders'[s] = holders[s]
        /\ code' \in {"zero", "nonzero", "killed"}
        /\ code' = code \/ (code' = "killed" /\ "adapter" \in alive)
    BY <2>2, Killed
  <2>5. TypeOK'
    BY <2>1, <2>3, <2>4
  <2>6. StoredIsAPrefix'
    <3>1. CASE failure' = failure /\ stored' = stored
      BY <2>1, <2>4, <3>1
    <3>2. CASE failure' = "raised"
      BY <2>1, <2>3, <2>4, <2>5, <3>2
    <3> QED
      BY <2>1, <3>1, <3>2
  <2>7. Uncut' /\ FailureIsTrue'
    BY <2>1, <2>4
  <2>8. ClosedAtEnd'
    BY <2>1, <2>4
  <2>9. StatusIsOwn' /\ FailedIsDead'
    BY <2>1, <2>4
  <2> QED
    BY <2>5, <2>6, <2>7, <2>8, <2>9
<1>7. ASSUME NEW s \in Stream, ReadEnd(s)
      PROVE  IInv'
  BY <1>7 DEF ReadEnd
<1>8. ASSUME NEW s \in Stream, ReadChunk(s)
      PROVE  IInv'
  <2> DEFINE n == ChunkOf(s)
  <2>1. n \in 1..Chunk /\ taken[s] + n <= written[s]
    BY <1>8 DEF ReadChunk, ChunkOf
  <2>2. failure = "none" /\ stored[s] = taken[s] /\ taken' = [taken EXCEPT ![s] = taken[s] + n]
    BY <1>8 DEF ReadChunk
  <2> HIDE DEF n
  <2>3. CASE n <= MaxOutput - stored[s]
    <3>1. /\ stored' = [stored EXCEPT ![s] = stored[s] + n]
          /\ ready' = ready \ {s}
          /\ UNCHANGED <<pc, failure, group, clock, open>>
      BY <1>8, <2>3 DEF ReadChunk, Fits, n
    <3> QED
      BY <1>8, <2>1, <2>2, <2>3, <3>1
  <2>4. CASE ~(n <= MaxOutput - stored[s])
    <3>1. /\ stored' = [stored EXCEPT ![s] = MaxOutput]
          /\ ready' = {} /\ pc' = "closing" /\ failure' = "exceeded"
          /\ KillGroup
          /\ UNCHANGED <<clock, open>>
      BY <1>8, <2>4 DEF ReadChunk, Fits, n
    <3> QED
      BY <1>8, <2>1, <2>2, <2>4, <3>1, Killed
  <2> QED
    BY <2>3, <2>4
<1>9. CASE Raise
  <2>1. /\ failure' = "raised" /\ pc' = "closing"
        /\ UNCHANGED <<clock, group, open, ready>>
    BY <1>9 DEF Raise
  <2>2. StoredIsAPrefix' /\ taken' \in [Stream -> 0..MaxWritten] /\ stored' \in [Stream -> Nat]
    <3>1. CASE UNCHANGED <<taken, stored>>
      BY <2>1, <3>1
    <3>2. ASSUME NEW s \in ready, NEW n \in {0, ChunkOf(s)},
                 NEW kept \in stored[s]..Smaller(taken[s] + n, MaxOutput),
                 taken' = [taken EXCEPT ![s] = taken[s] + n],
                 stored' = [stored EXCEPT ![s] = kept]
          PROVE  StoredIsAPrefix' /\ taken' \in [Stream -> 0..MaxWritten]
                 /\ stored' \in [Stream -> Nat]
      <4>1. n \in Nat /\ taken[s] + n <= written[s]
        BY <3>2 DEF ChunkOf
      <4>2. kept \in Nat /\ kept <= Smaller(taken[s] + n, MaxOutput)
        BY <3>2, <4>1
      <4> QED
        BY <2>1, <3>2, <4>1, <4>2
    <3> QED
      BY <1>9, <3>1, <3>2 DEF Raise
  <2> QED
    BY <2>1, <2>2
<1>10. CASE Tick
  BY <1>10 DEF Tick
<1> QED
  BY <1>1, <1>2, <1>3, <1>4, <1>5, <1>6, <1>7, <1>8, <1>9, <1>10 DEF Controller

LEMMA StepHolds == IInv /\ [Next]_vars => IInv'
<1> SUFFICES ASSUME IInv, [Next]_vars PROVE IInv'
  OBVIOUS
<1>1. CASE UNCHANGED vars
  BY <1>1 DEF vars, group, IInv, TypeOK, StoredIsAPrefix, Uncut, ClosedAtEnd, StatusIsOwn,
              FailedIsDead, FailureIsTrue, AtEnd
<1>2. CASE pc # "returned" /\ (Controller \/ Raise \/ Group \/ Tick)
  BY <1>2, GroupStep, ControllerStep
<1> QED
  BY <1>1, <1>2 DEF Next, Terminated

LEMMA InvariantHolds == Spec => []IInv
BY InitHolds, StepHolds, PTL DEF Spec

---------------------------------------------------------------------------
(* What the return of a run rests on.                                      *)

\* A stream that select called ready stays so until its turn: os.read is
\* called without O_NONBLOCK, and would otherwise hold the controller for as
\* long as some descendant likes, whatever the deadline.
ReadsNeverBlock ==
  pc = "reading" => \A s \in ready : taken[s] < written[s] \/ AtEnd(s)

\* Nobody takes bytes out of a pipe but the controller, nor comes to hold one
\* that nobody holds.
LEMMA GroupKeepsReady ==
  ASSUME IInv, ReadsNeverBlock, Group
  PROVE  ReadsNeverBlock'
<1> USE DEF IInv, TypeOK, ReadsNeverBlock, StoredIsAPrefix, AtEnd, Stream
<1>1. CASE Spawn
  BY <1>1 DEF Spawn
<1>2. ASSUME NEW m \in Member, NEW s \in Stream, Write(m, s)
      PROVE  ReadsNeverBlock'
  BY <1>2, MaxWrittenAssumption DEF Write
<1>3. ASSUME NEW m \in Member, NEW s \in Stream, Close(m, s)
      PROVE  ReadsNeverBlock'
  BY <1>3 DEF Close
<1>4. ASSUME NEW m \in Member, Exit(m)
      PROVE  ReadsNeverBlock'
  BY <1>4 DEF Exit
<1> QED
  BY <1>1, <1>2, <1>3, <1>4 DEF Group

LEMMA ControllerKeepsReady ==
  ASSUME IInv, ReadsNeverBlock, Controller \/ Raise \/ Tick
  PROVE  ReadsNeverBlock'
<1> USE DEF IInv, TypeOK, ReadsNeverBlock, AtEnd, group
<1>1. CASE Select
  BY <1>1 DEF Select
<1>2. CASE OpenFiles \/ Loop \/ EventsDone \/ Wait \/ Finish \/ Raise
  BY <1>2 DEF OpenFiles, Loop, EventsDone, Wait, Finish, Raise
<1>3. ASSUME NEW s \in Stream, ReadEnd(s)
      PROVE  ReadsNeverBlock'
  BY <1>3 DEF ReadEnd
<1>4. ASSUME NEW s \in Stream, ReadChunk(s)
      PROVE  ReadsNeverBlock'
  <2>1. CASE pc' = "closing"
    BY <2>1
  <2>2. CASE pc' # "closing"
    <3>1. /\ UNCHANGED group /\ ready' = ready \ {s} /\ pc = "reading"
          /\ \A u \in Stream \ {s} : taken'[u] = taken[u]
      BY <1>4, <2>2 DEF ReadChunk
    <3> QED
      BY <3>1
  <2> QED
    BY <2>1, <2>2
<1>5. CASE Tick
  BY <1>5 DEF Tick
<1> QED
  BY <1>1, <1>2, <1>3, <1>4, <1>5 DEF Controller

\* The places of the controller, by how near to the end they are once the
\* deadline has passed.
Rank ==
  [starting |-> 6, selecting |-> 5, reading |-> 4, looping |-> 3, waiting |-> 2,
   closing |-> 1, returned |-> 0]

\* Past the deadline the controller waits for nobody any more: each step
\* brings it nearer to its end, or takes one of the at most two events that
\* are left of the last select.
LateRunEnds ==
  [][Late /\ pc # "returned" /\ (Controller \/ Raise) =>
       \/ Rank[pc'] < Rank[pc]
       \/ /\ pc = "reading" /\ pc' = "reading"
          /\ ready' \subseteq ready /\ ready' # ready]_vars

LEMMA LateStep ==
  ASSUME IInv, Late, Controller \/ Raise
  PROVE  \/ Rank[pc'] < Rank[pc]
         \/ pc = "reading" /\ pc' = "reading" /\ ready' \subseteq ready /\ ready' # ready
<1> USE DEF Rank
<1>1. CASE Loop
  <2>1. pc = "looping" /\ pc' \in {"waiting", "closing"}
    BY <1>1 DEF Loop
  <2> QED
    BY <2>1
<1>2. CASE Wait
  BY <1>2 DEF Wait
<1>3. CASE OpenFiles \/ Select \/ EventsDone \/ Finish
  BY <1>3 DEF OpenFiles, Select, EventsDone, Finish
<1>4. CASE Raise
  BY <1>4 DEF Raise
<1>5. ASSUME NEW s \in Stream, ReadEnd(s)
      PROVE  pc = "reading" /\ pc' = "reading" /\ ready' \subseteq ready /\ ready' # ready
  BY <1>5 DEF ReadEnd
<1>6. ASSUME NEW s \in Stream, ReadChunk(s)
      PROVE  \/ Rank[pc'] < Rank[pc]
             \/ pc = "reading" /\ pc' = "reading" /\ ready' \subseteq ready /\ ready' # ready
  BY <1>6 DEF ReadChunk
<1> QED
  BY <1>1, <1>2, <1>3, <1>4, <1>5, <1>6 DEF Controller

---------------------------------------------------------------------------

\* Every variable of the run keeps its type.
THEOREM TypeCorrect == Spec => []TypeOK
<1>1. IInv => TypeOK
  BY DEF IInv
<1> QED
  BY <1>1, InvariantHolds, PTL

\* An output file holds a prefix of what was written, within the cap, for
\* every chunk size (controller.py _run_bounded_process).
THEOREM StoredIsAPrefixAlways == Spec => []StoredIsAPrefix
<1>1. IInv => StoredIsAPrefix
  BY DEF IInv
<1> QED
  BY <1>1, InvariantHolds, PTL

\* A run that is not a failure has stored all that the group ever could write
\* (controller.py _run_bounded_process, the loop and the wait).
THEOREM CleanRunIsCompleteAlways == Spec => []CleanRunIsComplete
<1>1. IInv => CleanRunIsComplete
  <2> SUFFICES ASSUME IInv, pc = "returned", failure = "none"
               PROVE  /\ code \in {"zero", "nonzero"}
                      /\ \A s \in Stream : stored[s] = written[s] /\ holders[s] = {}
    BY DEF CleanRunIsComplete
  <2>1. code \in {"zero", "nonzero"}
    BY DEF IInv, TypeOK, StatusIsOwn
  <2>2. ASSUME NEW s \in Stream PROVE stored[s] = written[s] /\ holders[s] = {}
    <3>1. taken[s] = written[s] /\ holders[s] = {}
      BY DEF IInv, ClosedAtEnd, AtEnd
    <3>2. stored[s] = taken[s]
      BY LimitAssumption DEF IInv, StoredIsAPrefix, Uncut, Smaller, TypeOK
    <3> QED
      BY <3>1, <3>2
  <2> QED
    BY <2>1, <2>2
<1> QED
  BY <1>1, InvariantHolds, PTL

\* A timeout or an overflow leaves nobody of the group, not even a descendant
\* of an adapter that is already gone (controller.py _kill_process_group).
THEOREM FailureLeavesNobodyAlways == Spec => []FailureLeavesNobody
<1>1. IInv => FailureLeavesNobody
  BY DEF IInv, FailedIsDead, FailureLeavesNobody
<1> QED
  BY <1>1, InvariantHolds, PTL

\* No adapter is called too verbose within its cap, nor late when it ended in
\* time and its pipes were read to their end, however late the controller is
\* (controller.py _run_bounded_process).
THEOREM FailureIsTrueAlways == Spec => []FailureIsTrue
<1>1. IInv => FailureIsTrue
  BY DEF IInv
<1> QED
  BY <1>1, InvariantHolds, PTL

\* No read of a pipe keeps the controller from its deadline (controller.py
\* _run_bounded_process, os.read after selector.select).
THEOREM ReadsNeverBlockAlways == Spec => []ReadsNeverBlock
<1>1. Init => ReadsNeverBlock
  BY DEF Init, ReadsNeverBlock
<1>2. IInv /\ ReadsNeverBlock /\ [Next]_vars => ReadsNeverBlock'
  <2> SUFFICES ASSUME IInv, ReadsNeverBlock, [Next]_vars PROVE ReadsNeverBlock'
    OBVIOUS
  <2>1. CASE UNCHANGED vars
    BY <2>1 DEF vars, group, ReadsNeverBlock, AtEnd
  <2>2. CASE pc # "returned" /\ (Controller \/ Raise \/ Group \/ Tick)
    BY <2>2, GroupKeepsReady, ControllerKeepsReady
  <2> QED
    BY <2>1, <2>2 DEF Next, Terminated
<1> QED
  BY <1>1, <1>2, InvariantHolds, PTL DEF Spec

\* After the deadline a run is over in a few steps of the controller, whatever
\* the group does (controller.py _run_bounded_process).
THEOREM LateRunEndsAlways == Spec => LateRunEnds
<1> DEFINE Nearer == Late /\ pc # "returned" /\ (Controller \/ Raise) =>
              \/ Rank[pc'] < Rank[pc]
              \/ /\ pc = "reading" /\ pc' = "reading"
                 /\ ready' \subseteq ready /\ ready' # ready
<1>1. IInv /\ [Next]_vars => [Nearer]_vars
  BY LateStep
<1>2. LateRunEnds <=> [][Nearer]_vars
  BY DEF LateRunEnds
<1> HIDE DEF Nearer
<1> QED
  BY <1>1, <1>2, InvariantHolds, PTL DEF Spec
=============================================================================
