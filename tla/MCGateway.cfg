CONSTANTS
  Levels = 2
  MaxAttempts = 2
  MaxSessions = 2
  MaxSeq = 3
  MaxCrashes = 1
SPECIFICATION FairSpec
INVARIANTS
  TypeOK
  NoGap
  MemoryTrue
PROPERTIES
  ImplementsStream
  KeepsTrying
  ShutdownStops
