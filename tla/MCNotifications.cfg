SPECIFICATION MCSpec
CONSTANTS
  u1 = u1
  u2 = u2
  o1 = o1
  o2 = o2
  Nothing = Nothing
  Owners = {o1, o2}
  UserOf <- MCUserOf
  Tokens = {k1}
  Senders = {s1}
  Batch = 2
  MaxTickets = 3
  MaxMissing = 1
  MaxChanges = 2
  MaxSends = 3
  MaxPushFaults = 1
INVARIANTS
  ActedOnOnce
PROPERTIES
  DropsOnlyGone
  ReceiptsRecorded
CHECK_DEADLOCK FALSE
