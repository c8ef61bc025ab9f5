SPECIFICATION Spec
CONSTANTS
  PAGE_SIZE = 4
  Maps <- TwoEntryMaps
  Requests = {0, 1, 2, 3, 4, 5, 8, 9, 12, 13, 17, 30}
  Modes = {0, 1, 2}
CHECK_DEADLOCK FALSE
INVARIANTS
  RequestAhead
  ReturnsMmapRead
PROPERTY
  Returns
