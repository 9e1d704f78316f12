SPECIFICATION FairSpec
CONSTANTS
  Vendors = {BUYPOWERNG, BAXI, IRECHARGE}
  Irecharge = IRECHARGE
  Buypower = BUYPOWERNG
  None = None
  Rate <- MCRate
  Opening = {BUYPOWERNG, BAXI, IRECHARGE}
  RetryLimit = 2
  MaxRequery = 2
  Requests = {q1, q2}
  Payment = payment
  BankRef <- MCOnePayment
  MaxFaults = 2
  MaxCrashes = 1
INVARIANTS
  CompleteUnlessUnread
  AtMostOneDelivery
PROPERTIES
  LoggedFirst
  Resolution
CHECK_DEADLOCK FALSE
