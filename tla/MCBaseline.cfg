SPECIFICATION Spec
CONSTANTS
  Alterable = {"frozen", "adapter", "candidate", "observations", "output", "receipt", "evidence"}
  MaxAltered = 2
  Installations <- OneAbsent
INVARIANTS
  TypeOK
  AdaptersSuffice
  ReadyReportIsTaken
  BaselineIsEarned
  RefusedOnlyForCause
PROPERTY FollowsTheStages
