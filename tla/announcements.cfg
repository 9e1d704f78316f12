SPECIFICATION FairSpec
CONSTANTS
  Transactions = {t1, a1}
  Airtime = {a1}
  None = None
  MaxAnnounced = 2
  MaxFaults = 1
INVARIANTS
  MailedOnce
  CommittedIsMailed
  PartnerEventBacked
  NoSubscriberLeft
PROPERTIES
  AnsweredInTheEnd
  MailedInTheEnd
CHECK_DEADLOCK FALSE
