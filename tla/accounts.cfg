SPECIFICATION Spec
CONSTANTS
  MaxCalls = 4
  Addresses = {ada, obi}
  None = None
SYMMETRY MCSymmetry
INVARIANTS
  AlwaysAKey
  KeysAgree
  StatusAsOrdered
CHECK_DEADLOCK FALSE
