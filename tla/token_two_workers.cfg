SPECIFICATION Spec
CONSTANTS
  Vendors = {IRECHARGE}
  Irecharge = IRECHARGE
  Buypower = BUYPOWERNG
  None = None
  Rate <- MCRate
  Opening = {IRECHARGE}
  RetryLimit = 1
  Prepaid = TRUE
  Workers = {w1, w2}
  Requests = {q1}
  MaxFaults = 2
INVARIANTS
  AnnouncedIsDelivered
  NoOrphan
CHECK_DEADLOCK FALSE
