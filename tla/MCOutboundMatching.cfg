\* At most three sends and three messages.
SPECIFICATION Spec
CONSTANTS
  Messages = {1, 2, 3}
  Inputs <- MCInputs
INVARIANTS
  ClaimsForced
CHECK_DEADLOCK FALSE
