SPECIFICATION Spec
CONSTANTS
  Vendors = {BUYPOWERNG, BAXI, IRECHARGE}
  Irecharge = IRECHARGE
  Buypower = BUYPOWERNG
  None = None
  Rate <- MCRate
  Opening = {BUYPOWERNG, IRECHARGE}
  Requests = {q1, q2}
  ada = ada
  adaWork = adaWork
  obi = obi
  Callers <- MCCallers
  Email <- MCEmail
SYMMETRY Symmetry
INVARIANTS
  HandsOver
  LogTells
  AccountUnlessTroubled
CHECK_DEADLOCK FALSE
