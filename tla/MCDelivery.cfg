SPECIFICATION FairSpec
CONSTANTS
  Accounts = {"A", "B"}
  Hooked = {"A"}
  FlagAccount = "A"
  Events = {"m1", "m2", "m3"}
  AccountOf <- AccountDef
  TypeOf <- TypeDef
  AuthorOf <- AuthorDef
  PlaceOf <- PlaceDef
  Requests = {"r1"}
  NoChat = NoChat
  MaxAttempts = 2
  MaxRestarts = 1
INVARIANTS TypeOK RequestToLastChat PushedForEachPost
PROPERTY EventSettles
CHECK_DEADLOCK FALSE
