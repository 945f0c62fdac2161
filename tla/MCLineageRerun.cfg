SPECIFICATION Spec
CONSTANTS
  None = None
  OriginalId = K0
  OriginalSha = k0
  OriginalSpeed = 1
  Rejection = {"timing_unstable"}
  Proc = {p1, p2}
  Id = {c1, c2}
  RunDir = {r1}
  Proposal = {q1, q2}
  Artifact = {a1, a2}
  Speed = {2, 3}
SYMMETRY Symmetry
PROPERTIES UnstableMayRerun
