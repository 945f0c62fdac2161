SPECIFICATION FairSpec
CONSTANTS
  None = None
  OriginalId = K0
  OriginalSha = k0
  OriginalSpeed = 1
  Rejection = {"rejected"}
  Proc = {p1, p2, p3}
  Id = {c1}
  RunDir = {r1}
  Proposal = {q1}
  Artifact = {a1}
  Speed = {2}
PROPERTIES EveryCommandEnds
