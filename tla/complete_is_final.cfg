SPECIFICATION Spec
CONSTANTS
  Vendors = {BUYPOWERNG, BAXI, IRECHARGE}
  Irecharge = IRECHARGE
  Buypower = BUYPOWERNG
  None = None
  Rate <- MCRate
  Opening = {BUYPOWERNG}
  RetryLimit = 2
  Prepaid = TRUE
  Workers = {w1}
  Requests = {q1, q2}
  MaxFaults = 0
PROPERTIES
  CompleteIsFinal
CHECK_DEADLOCK FALSE
