CONSTANTS
  A = A
  B = B
  NONE = NONE
  Keys = {A, B}
  Items = {1, 2, 3, 4}
  KeyOf <- MCKeyOf
  Stoppers = {s1}
  PerUserSize = 2
  MaxConcurrent = 1
SPECIFICATION FairSpec
CONSTRAINT ThreeCalls
INVARIANTS
  TypeOK
  BooksExact
  CountsFit
PROPERTIES
  ImplementsPromise
  AcceptedIsHandled
  CallsComeBack
