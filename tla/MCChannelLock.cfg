CONSTANTS
  PIDs = {p1, p2, p3}
  NONE = NONE
  MaxStarting = 2
SPECIFICATION Spec
INVARIANTS
  OneInstance
