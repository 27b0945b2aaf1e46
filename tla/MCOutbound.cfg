CONSTANTS
  r1 = r1
  r2 = r2
  r3 = r3
  r4 = r4
  r5 = r5
  m1 = m1
  f1 = f1
  f2 = f2
  a = a
  b = b
  Paths = {a, b}
  NONE = NONE
  Requests = {r1, r2, r3, r4, r5}
  ReqOf <- MCReqOf
  MsgIDs = {m1}
  Files = {f1, f2}
  ReplyLimit = 1
  ReplyTTL = 1
  MaxRetries = 1
  MaxSize = 1
  SafetyMargin = 1
  MinTTL = 2
  ServerTTLs = {0, 1, 3}
  MaxInFlight = 2
  MaxTexts = 1
SPECIFICATION Spec
INVARIANTS
  TypeOK
  ReplyOvershoot
  PartsInOrder
  CachedFilesLive
