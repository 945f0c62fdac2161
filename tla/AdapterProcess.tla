--------------------------- MODULE AdapterProcess ---------------------------
(***************************************************************************)
(* controller.py's _run_bounded_process: one adapter run with a wall-clock *)
(* timeout and a cap on what each of its output streams may hold.          *)
(*                                                                         *)
(* The adapter leads a process group of its own and may have a descendant  *)
(* in it.  Each member writes to, closes and inherits the two pipes as it  *)
(* likes and ends when it likes.  The controller reads the pipes until     *)
(* both are at their end, then reaps the adapter.  Bytes are counted, not  *)
(* told apart; a killed process does nothing more.                         *)
(***************************************************************************)
EXTENDS Integers, FiniteSets

CONSTANTS
  MaxOutput,  \* max_output_bytes
  Chunk,      \* the most one read returns (64 KiB in the code)
  Deadline,   \* timeout_seconds, in clock ticks
  MaxWritten  \* bound: bytes that the group writes to one stream

ASSUME LimitAssumption == MaxOutput \in Nat \ {0} /\ Chunk \in Nat \ {0}
ASSUME DeadlineAssumption == Deadline \in Nat \ {0}
ASSUME MaxWrittenAssumption == MaxWritten \in Nat

VARIABLES
  clock,    \* ticks since the start, no further than the deadline
  alive,    \* the members of the group that run
  holders,  \* who holds the write end of each pipe
  written,  \* bytes written to each pipe so far
  taken,    \* bytes read from each pipe so far
  code,     \* how the adapter ended: "none", "zero", "nonzero" or "killed"
  ended,    \* when it ended by itself, or Deadline (history, not in the code)
  pc,       \* where the controller is
  open,     \* the streams registered with the selector
  ready,    \* the events of the last select that are still to be handled
  stored,   \* bytes in each output file
  failure   \* "none", "timed_out", "exceeded", or "raised" for an exception

group == <<alive, holders, written, code, ended>>
vars  == <<clock, group, taken, pc, open, ready, stored, failure>>

Stream == {"stdout", "stderr"}

Member == {"adapter", "child"}

Larger(a, b) == IF a < b THEN b ELSE a

Smaller(a, b) == IF a < b THEN a ELSE b

LateNever == FALSE

Late == clock >= Deadline

---------------------------------------------------------------------------
(* The adapter's group and the clock.                                      *)

\* The adapter may start a descendant, which inherits the pipes it still has.
Spawn ==
  /\ "adapter" \in alive /\ alive' = Member /\ "child" \notin alive
  /\ holders' = [s \in Stream |->
                   holders[s] \cup (IF "adapter" \in holders[s] THEN {"child"} ELSE {})]
  /\ UNCHANGED <<clock, written, code, ended, taken, pc, open, ready, stored, failure>>

Write(m, s) ==
  /\ m \in alive \cap holders[s]
  /\ written[s] < MaxWritten
  /\ written' = [written EXCEPT ![s] = @ + 1]
  /\ UNCHANGED <<clock, alive, holders, code, ended, taken, pc, open, ready, stored, failure>>

Close(m, s) ==
  /\ m \in alive \cap holders[s]
  /\ holders' = [holders EXCEPT ![s] = @ \ {m}]
  /\ UNCHANGED <<clock, alive, written, code, ended, taken, pc, open, ready, stored, failure>>

Exit(m) ==
  /\ m \in alive
  /\ alive' = alive \ {m}
  /\ holders' = [s \in Stream |-> holders[s] \ {m}]
  /\ IF m = "adapter" THEN code' \in {"zero", "nonzero"} /\ ended' = clock
                       ELSE UNCHANGED <<code, ended>>
  /\ UNCHANGED <<clock, written, taken, pc, open, ready, stored, failure>>

Tick ==
  /\ clock < Deadline
  /\ clock' = clock + 1
  /\ UNCHANGED <<group, taken, pc, open, ready, stored, failure>>

---------------------------------------------------------------------------
(* The controller.                                                         *)

LeaderKilled == alive \ {"adapter"}

\* os.killpg(..., SIGKILL): nobody of the group is left.
GroupKilled == {}

\* The adapter's exit status, if it had one before it was killed.
KillGroup ==
  /\ alive' = GroupKilled
  /\ holders' = [s \in Stream |-> holders[s] \cap GroupKilled]
  /\ code' = IF "adapter" \in alive THEN "killed" ELSE code
  /\ UNCHANGED <<written, ended>>

\* Popen and the two output files.  From here on any call may raise.
OpenFiles ==
  /\ pc = "starting"
  /\ open' = Stream
  /\ pc' = "looping"
  /\ UNCHANGED <<clock, group, taken, ready, stored, failure>>

\* while selector.get_map(), and the deadline.
Loop ==
  /\ pc = "looping"
  /\ IF open = {} THEN pc' = "waiting" /\ UNCHANGED <<group, failure>>
     ELSE IF Late THEN pc' = "closing" /\ failure' = "timed_out" /\ KillGroup
     ELSE pc' = "selecting" /\ UNCHANGED <<group, failure>>
  /\ UNCHANGED <<clock, taken, open, ready, stored>>

AtEndWhenEmpty(s) == taken[s] = written[s]

AtEnd(s) == taken[s] = written[s] /\ holders[s] = {}

\* A stream is readable when it has bytes or is at its end.  With none, the
\* select returns after a tenth of a second.
Select ==
  /\ pc = "selecting"
  /\ ready' = {s \in open : taken[s] < written[s] \/ AtEnd(s)}
  /\ pc' = "reading"
  /\ UNCHANGED <<clock, group, taken, open, stored, failure>>

EventsDone ==
  /\ pc = "reading" /\ ready = {}
  /\ pc' = "looping"
  /\ UNCHANGED <<clock, group, taken, open, ready, stored, failure>>

\* An empty chunk is the end of the stream.
ReadEnd(s) ==
  /\ pc = "reading" /\ s \in ready /\ AtEnd(s)
  /\ open' = open \ {s}
  /\ ready' = ready \ {s}
  /\ UNCHANGED <<clock, group, taken, pc, stored, failure>>

FitsUnchecked(s, n) == TRUE

Fits(s, n) == n <= MaxOutput - stored[s]

\* What one os.read returns.
ChunkOf(s) == Smaller(Chunk, written[s] - taken[s])

\* A chunk that does not fit is cut to what does, and is a failure.
ReadChunk(s) ==
  LET n == ChunkOf(s) IN
  /\ pc = "reading" /\ s \in ready /\ taken[s] < written[s]
  /\ taken' = [taken EXCEPT ![s] = @ + n]
  /\ IF Fits(s, n)
     THEN /\ stored' = [stored EXCEPT ![s] = @ + n]
          /\ ready' = ready \ {s}
          /\ UNCHANGED <<pc, failure, group>>
     ELSE /\ stored' = [stored EXCEPT ![s] = MaxOutput]
          /\ ready' = {}
          /\ pc' = "closing"
          /\ failure' = "exceeded"
          /\ KillGroup
  /\ UNCHANGED <<clock, open>>

ReapedInTime == "adapter" \notin alive /\ ~Late

\* process.wait with what is left of the time asks for the status first: an
\* adapter that has ended is reaped even when none is left.
Reaped == "adapter" \notin alive

Wait ==
  /\ pc = "waiting"
  /\ \/ /\ Reaped
        /\ UNCHANGED <<group, failure>>
     \/ /\ ~Reaped /\ Late
        /\ failure' = "timed_out"
        /\ KillGroup
  /\ pc' = "closing"
  /\ UNCHANGED <<clock, taken, open, ready, stored>>

\* An exception while a file is opened, or a stream is read or what was read
\* is written, on the way to `finally`: of a chunk that was taken, any part
\* may be in the file.
Raise ==
  /\ \/ /\ pc = "starting"
        /\ UNCHANGED <<taken, stored>>
     \/ /\ pc = "reading"
        /\ \E s \in ready : \E n \in {0, ChunkOf(s)} :
             /\ taken' = [taken EXCEPT ![s] = @ + n]
             /\ \E kept \in stored[s]..Smaller(taken[s] + n, MaxOutput) :
                  stored' = [stored EXCEPT ![s] = kept]
  /\ failure' = "raised"
  /\ pc' = "closing"
  /\ UNCHANGED <<clock, group, open, ready>>

\* What may be left in the files when flush or fsync raises.
Unflushed == {f \in [Stream -> 0..MaxOutput] : \A s \in Stream : f[s] <= stored[s]}

\* The `finally`: an adapter that still runs is killed with its group, and
\* what is open is closed, unless a file cannot be flushed.
Finish ==
  /\ pc = "closing"
  /\ IF "adapter" \in alive THEN KillGroup ELSE UNCHANGED group
  /\ \/ UNCHANGED <<stored, failure>>
     \/ failure' = "raised" /\ stored' \in Unflushed
  /\ open' = {}
  /\ ready' = {}
  /\ pc' = "returned"
  /\ UNCHANGED <<clock, taken>>

Init ==
  /\ clock = 0
  /\ alive = {"adapter"}
  /\ holders = [s \in Stream |-> {"adapter"}]
  /\ written = [s \in Stream |-> 0]
  /\ taken = [s \in Stream |-> 0]
  /\ code = "none"
  /\ ended = Deadline
  /\ pc = "starting"
  /\ open = {}
  /\ ready = {}
  /\ stored = [s \in Stream |-> 0]
  /\ failure = "none"

Controller ==
  \/ OpenFiles \/ Loop \/ Select \/ EventsDone \/ Wait \/ Finish
  \/ \E s \in Stream : ReadEnd(s) \/ ReadChunk(s)

Group ==
  \/ Spawn
  \/ \E m \in Member : Exit(m) \/ \E s \in Stream : Write(m, s) \/ Close(m, s)

Terminated == pc = "returned" /\ UNCHANGED vars

Next == (pc # "returned" /\ (Controller \/ Raise \/ Group \/ Tick)) \/ Terminated

Spec == Init /\ [][Next]_vars

\* The controller runs and time passes; nothing is asked of the adapter.
FairSpec == Spec /\ WF_vars(pc # "returned" /\ Controller) /\ WF_vars(pc # "returned" /\ Tick)

---------------------------------------------------------------------------
(* Correctness.                                                            *)

\* Every variable holds a value the program can give it.
TypeOK ==
  /\ clock \in 0..Deadline
  /\ alive \subseteq Member
  /\ holders \in [Stream -> SUBSET Member]
  /\ written \in [Stream -> 0..MaxWritten]
  /\ taken \in [Stream -> 0..MaxWritten]
  /\ code \in {"none", "zero", "nonzero", "killed"}
  /\ ended \in 0..Deadline
  /\ pc \in {"starting", "looping", "selecting", "reading", "waiting", "closing", "returned"}
  /\ open \subseteq Stream /\ ready \subseteq open
  /\ stored \in [Stream -> Nat]
  /\ failure \in {"none", "timed_out", "exceeded", "raised"}

\* An output file always holds a prefix of what was written, and never more
\* than max_output_bytes of it, however the writes fall into chunks (the
\* check of len(chunk) against what is available).  What was read is there,
\* up to the cap, unless an exception ended the run.
StoredIsAPrefix ==
  \A s \in Stream :
    /\ taken[s] <= written[s] /\ stored[s] <= Smaller(taken[s], MaxOutput)
    /\ failure # "raised" => stored[s] = Smaller(taken[s], MaxOutput)

\* A run that is not a failure has stored everything that the whole group
\* ever wrote or could write, and its status is the adapter's own: no late
\* output is missed, and no descendant can still add to it.
CleanRunIsComplete ==
  pc = "returned" /\ failure = "none" =>
    /\ code \in {"zero", "nonzero"}
    /\ \A s \in Stream : stored[s] = written[s] /\ holders[s] = {}

\* "Timeout or output overflow kills the adapter process group"
\* (references/controller-contract.md): nobody of it is left, not even a
\* descendant that outlived the adapter.
FailureLeavesNobody ==
  pc = "returned" /\ failure \in {"timed_out", "exceeded"} => alive = {}

\* An adapter is called too verbose only when it wrote more than the cap.  One
\* that ended before its deadline is called late only if a pipe was not read
\* to its end by then, whether or not a descendant held it: once both were,
\* the adapter is judged by its own status, however late the controller asks
\* for it (controller.py _run_bounded_process, process.wait).
FailureIsTrue ==
  /\ failure = "exceeded" => \E s \in Stream : written[s] > MaxOutput /\ stored[s] = MaxOutput
  /\ pc = "closing" /\ failure = "timed_out" /\ ended < Deadline => open # {}

\* The controller gets its answer in bounded time, whatever the group does:
\* even if the adapter ends at once and a descendant keeps a pipe open.
RunReturns == <>(pc = "returned")
=============================================================================
