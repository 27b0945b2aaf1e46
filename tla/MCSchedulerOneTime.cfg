CONSTANTS
  A = A
  B = B
  j1 = j1
  j2 = j2
  NONE = NONE
  Accounts = {A}
  Jobs = {j1, j2}
  Owner <- MCOwner
  Period <- MCPeriod
  MaxPeriod = 1
  MaxTime = 1
  MaxCrashes = 1
SPECIFICATION Spec
INVARIANT OneTimeExecutedOnce
