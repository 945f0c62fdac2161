----------------------------- MODULE MCBaseline -----------------------------
(* Instances of Baseline for TLC. *)
EXTENDS Baseline

\* Nothing is absent, or any one thing.
OneAbsent == {{}} \cup {{x} : x \in Absence}
=============================================================================
