SPECIFICATION Spec
CONSTANTS
  Alterable = {"frozen", "adapter", "proposal", "asm_inputs", "candidate", "output", "evidence"}
  MaxAltered = 2
INVARIANTS
  TypeOK
  FailedPhaseIsLast
  BenchmarkIsAuthorized
  ProfileIsEarned
  AcceptanceIsEarned
  RefusedOnlyForCause
PROPERTY FollowsTheStages
