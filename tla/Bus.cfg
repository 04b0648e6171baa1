SPECIFICATION EventsSpec
CONSTANTS
  Publishers = {p1}
  Subs = {1, 2}
  Kinds <- MCKinds
  Filters <- MCConfirmed
  AnyScid = ""
  RingSize = 1
  InboxSize = 1
  MaxEvents = 2
  Ids = {1, 2, 3}
  MaxSubs = 2
  ChanSize = 1
  MaxSent = 2
INVARIANTS Inductive OneOrder LossAccounted NoOrphan
PROPERTIES ClosedSilent Drains CloseReaches Released
CHECK_DEADLOCK FALSE
