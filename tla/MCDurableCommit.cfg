SPECIFICATION Spec
CONSTANTS
  MaxFailures = 2
INVARIANTS TypeOK NeverTorn NoLitter
PROPERTIES AppearInOrder
