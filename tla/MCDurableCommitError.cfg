SPECIFICATION Spec
CONSTANTS
  MaxFailures = 1
INVARIANTS ErrorPromotesNothing
