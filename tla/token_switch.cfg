SPECIFICATION FairSpec
CONSTANTS
  Vendors = {BUYPOWERNG, BAXI, IRECHARGE}
  Irecharge = IRECHARGE
  Buypower = BUYPOWERNG
  None = None
  Rate <- MCRate
  Opening = {BUYPOWERNG, BAXI}
  RetryLimit = 1
  Prepaid = FALSE
  Workers = {w1}
  Requests = {q1}
  MaxFaults = 3
PROPERTIES
  SwitchAfterFailure
  AllTriedBeforeRepeat
  KeepsPromise
  Resolution
CHECK_DEADLOCK FALSE
