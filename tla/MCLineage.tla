----------------------------- MODULE MCLineage -----------------------------
EXTENDS Lineage, TLC

\* Processes, ids and run directories are interchangeable; so are the
\* proposals and artifacts other than the original's bytes.
Symmetry ==
  Permutations(Proc) \cup Permutations(Id) \cup Permutations(RunDir)
    \cup Permutations(Proposal \ {OriginalSha}) \cup Permutations(Artifact \ {OriginalSha})
=============================================================================
