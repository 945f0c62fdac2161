SPECIFICATION Spec
CONSTANTS
  Alterable = {}
  MaxAltered = 0
INVARIANT TimeoutIsControllerError
