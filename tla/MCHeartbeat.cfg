CONSTANTS
  Chains = {1, 2, 3}
  MaxConns = 3
SPECIFICATION TimersFairSpec
INVARIANTS
  TimersOK
  HeartbeatKept
PROPERTY HeartbeatsEnd
