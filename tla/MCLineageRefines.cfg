SPECIFICATION Spec
CONSTANTS
  None = None
  OriginalId = K0
  OriginalSha = k0
  OriginalSpeed = 1
  Rejection = {"rejected"}
  Proc = {p1, p2, p3}
  Id = {c1, c2}
  RunDir = {r1, r2}
  Proposal = {q1}
  Artifact = {a1, a2}
  Speed = {2, 3}
SYMMETRY Symmetry
INVARIANTS LockIsInUse
PROPERTIES HistoryOnlyGrows ImplementsLog
