CONSTANTS
  A = A
  B = B
  j1 = j1
  j2 = j2
  NONE = NONE
  Accounts = {A, B}
  Jobs = {j1, j2}
  Owner <- MCOwner
  Period <- MCPeriod
  MaxPeriod = 1
  MaxTime = 2
  MaxCrashes = 1
SPECIFICATION FairSpec
INVARIANTS
  TypeOK
  OncePerRunTime
  CancelledIsGone
  AcceptedIsKept
PROPERTY DueIsHandled
