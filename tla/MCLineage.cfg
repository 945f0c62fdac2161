SPECIFICATION Spec
CONSTANTS
  None = None
  OriginalId = K0
  OriginalSha = k0
  OriginalSpeed = 1
  Rejection = {"rejected"}
  Proc = {p1, p2}
  Id = {c1, c2}
  RunDir = {r1, r2}
  Proposal = {k0, q1, q2}
  Artifact = {k0, a1, a2}
  Speed = {1, 2, 3}
SYMMETRY Symmetry
INVARIANTS TypeOK AlwaysVerifiable JudgedOnce NoLostCommit OneAttemptPerId RootedInOriginal
PROPERTIES BestOnlyImproves OthersTurnNoneDown
