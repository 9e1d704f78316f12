SPECIFICATION FairSpec
CONSTANTS
  Vendors = {BUYPOWERNG, BAXI, IRECHARGE}
  Irecharge = IRECHARGE
  Buypower = BUYPOWERNG
  None = None
  Rate <- MCRate
  Opening = {BUYPOWERNG, IRECHARGE}
  MaxRequery = 2
  Requests = {q1, q2}
  Confirmations = {c1}
  Payment = payment
  BankRef <- MCOnePayment
  MaxFaults = 2
  MaxCrashes = 1
INVARIANTS
  CompleteUnlessConfirmed
  AtMostOneDelivery
PROPERTIES
  LoggedFirst
  Resolution
CHECK_DEADLOCK FALSE
