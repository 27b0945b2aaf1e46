CONSTANTS
  Callers = {c1, c2}
  Refresher = Refresher
  NONE = NONE
  ExpiresIn = {0, 1, 4}
  DefaultExpiry = 3
  EarlyExpiry = 2
  RefreshAhead = 2
  MinRefresh = 1
  RetryDelay = 1
SPECIFICATION FairSpec
INVARIANTS
  TypeOK
  FetchesJustified
PROPERTIES
  CallsReturn
  TokenComesBack
