SPECIFICATION Spec
CONSTANTS
  Publishers = {p1}
  Subs = {1}
  Kinds <- MCOneKind
  Filters <- MCAll
  AnyScid = ""
  RingSize = 1
  InboxSize = 1
  MaxEvents = 1
INVARIANT NoPanic
CHECK_DEADLOCK FALSE
