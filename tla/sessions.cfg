SPECIFICATION Spec
CONSTANTS
  MaxCalls = 3
  Partner = partner
  Members = {member}
  None = None
INVARIANTS
  AsAsked
  DeactivatedIsOut
  ChangesOnce
CHECK_DEADLOCK FALSE
