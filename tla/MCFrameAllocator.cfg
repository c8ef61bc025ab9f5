SPECIFICATION FairSpec
CONSTANTS
  PAGE_SIZE = 4
  FRAME_T = 64
  Maps <- LowMaps
  ReservedAreas <- Areas
INVARIANTS
  TypeOK
  NoDoubleAllocation
  GrantedWasChecked
  NothingSkipped
PROPERTY
  AllocateReturns
