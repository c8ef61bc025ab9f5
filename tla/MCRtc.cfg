SPECIFICATION FairSpec
CONSTANTS
  Register <- MCRegister
  Period = 3
  MaxTime = 2
INVARIANTS
  TypeOK
  Consistent
PROPERTIES
  CallReturns
  ReadsAtomically
