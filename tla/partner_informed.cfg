SPECIFICATION Spec
CONSTANTS
  Transactions = {t1, t2}
  Airtime = {}
  None = None
  MaxAnnounced = 2
  MaxFaults = 0
INVARIANTS
  PartnerInformed
CHECK_DEADLOCK FALSE
