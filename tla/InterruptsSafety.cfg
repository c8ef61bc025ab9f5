SPECIFICATION Spec
CONSTANTS
  Lines = {0, 1, 5}
  Exceptions = {3, 14}
  TickMod = 2
  MaxFaults = 2
INVARIANTS
  TypeOK
  IrqNesting
  EoiMatches
  KmainInterruptible
  NoErrorCodeAtReturn
  GetStackFindsRip
PROPERTY
  ReturnRestores
