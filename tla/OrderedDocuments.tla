-------------------------- MODULE OrderedDocuments --------------------------
(***************************************************************************)
(* What a reader may rely on of the documents that one evaluation writes:  *)
(* each appears at once and whole, in their order; only the last one may   *)
(* be lost again, and not the lineage once the caller was told of it.      *)
(***************************************************************************)
EXTENDS Naturals

CONSTANTS Count,   \* how many documents there are
          Commit   \* which of them is the lineage's

VARIABLES written,   \* the documents that a reader finds, whole
          told       \* the caller was told that the lineage has the attempt

AppearNext ==
  /\ \E d \in 1..Count :
       /\ d \notin written
       /\ \A e \in 1..Count : e < d => e \in written
       /\ written' = written \cup {d}
  /\ UNCHANGED told

LoseLast ==
  /\ \E d \in written :
       /\ \A e \in written : e <= d
       /\ told => d # Commit
       /\ written' = written \ {d}
  /\ UNCHANGED told

Tell ==
  /\ Commit \in written
  /\ told' = TRUE
  /\ UNCHANGED written

Init == written = {} /\ told = FALSE

Next == AppearNext \/ LoseLast \/ Tell

DocumentsSpec == Init /\ [][Next]_<<written, told>>
=============================================================================
