SPECIFICATION Spec
CONSTANTS
  MaxCalls = 3
  ProductCodes <- MCProductCodes
  Networks <- MCNetworks
  None = None
INVARIANTS
  SeededOnce
  OffersDistinct
  SchemaKept
CHECK_DEADLOCK FALSE
