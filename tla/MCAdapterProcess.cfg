SPECIFICATION FairSpec
CONSTANTS
  MaxOutput = 2
  Chunk = 2
  Deadline = 2
  MaxWritten = 3
INVARIANTS
  TypeOK
  StoredIsAPrefix
  CleanRunIsComplete
  FailureLeavesNobody
  FailureIsTrue
PROPERTY RunReturns
