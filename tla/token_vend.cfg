SPECIFICATION Spec
CONSTANTS
  Vendors = {BUYPOWERNG, BAXI, IRECHARGE}
  Irecharge = IRECHARGE
  Buypower = BUYPOWERNG
  None = None
  Rate <- MCRate
  Opening = {BUYPOWERNG}
  RetryLimit = 2
  Prepaid = TRUE
  Workers = {w1}
  Requests = {q1, q2}
  MaxFaults = 2
INVARIANTS
  AtMostOneDelivery
  OneVendInHand
  CompleteIsDelivered
  RetryRecordFollows
  RequerySeesVend
  OnePowerUnit
  LogAgrees
PROPERTIES
  SwitchWhenExhausted
CHECK_DEADLOCK FALSE
