---------------------------- MODULE MCAlgorithms ----------------------------
(* InstructionDiff and SpeedupThreshold, which do not interact, in one run. *)
EXTENDS InstructionDiff, SpeedupThreshold

\* AMDGCN instructions are of four or eight bytes.
SizeOf == [t \in Text |-> IF t = "wide" THEN 2 ELSE 1]

Policies ==
  [improvement : {0, 1}, multiplier : {0, 1, 3}, maximum_cv : {0, 2}, floor : {1, 2, 3}]

AnyPolicy == CHOOSE p \in Policy : TRUE

AnySummary == CHOOSE s \in Summary : TRUE

Init ==
  \/ /\ DiffInit
     /\ policy = AnyPolicy
     /\ original = AnySummary /\ parent = AnySummary /\ candidate = AnySummary
  \/ /\ before = <<>> /\ after = <<>> /\ regions = {} /\ matched = {}
     /\ ThresholdInit

Next ==
  \/ before # <<>> /\ DiffNext /\ UNCHANGED thresholdVars
  \/ before = <<>> /\ ThresholdNext /\ UNCHANGED diffVars

Spec == Init /\ [][Next]_<<diffVars, thresholdVars>>
=============================================================================
