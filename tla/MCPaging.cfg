SPECIFICATION Spec
CONSTANTS
  PAGE_SIZE = 11
  PAGE_ENTRIES = 4
  FRAME_T = 192
  p4_table = 8
  p3_table = 9
  p2_table = 10
  Memory <- MCMemory
  Pages <- MCPages
  Flags <- MCFlags
  Accessed <- MCAccessed
  MAX_CHUNK = 6
INVARIANTS WalksAgree TlbFresh MapTakesEffect
PROPERTY OthersUntouched
CHECK_DEADLOCK FALSE
