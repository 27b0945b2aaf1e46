CONSTANTS
  PIDs = {p1, p2, p3}
  NONE = NONE
  MaxStarting = 1
SPECIFICATION FairSpec
INVARIANTS
  TypeOK
  HolderIsNamed
PROPERTIES
  StartSettles
  MigrationKeeps
