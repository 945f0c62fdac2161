SPECIFICATION Spec
CONSTANTS
  Alterable = {}
  MaxAltered = 0
PROPERTY StopsAtFirstFailure
