CONSTANTS
  A = A
  B = B
  e1 = e1
  f1 = f1
  u1 = u1
  u2 = u2
  q1 = q1
  g = g
  Groups = {g}
  GroupOf <- MCGroupOf
  TargetOf <- MCTargetOf
  NONE = NONE
  Accounts = {A, B}
  Events = {e1, f1}
  AccountOf <- MCAccountOf
  SenderOf <- MCSenderOf
  Users = {u1, u2}
  Calls = {q1}
SPECIFICATION FairSpec
INVARIANTS
  TypeOK
  NothingLostInTime
  QuietAfterStop
PROPERTIES
  ShutdownEnds
CHECK_DEADLOCK FALSE
