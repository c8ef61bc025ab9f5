SPECIFICATION Spec
CONSTANTS
  INT_BITS = 8
  LONG_BITS = 16
  BYTE = 256
  S_VAL = 5
  Calls <- MCCalls
INVARIANTS Rendered NoneLost BufferFits SpeedSet
PROPERTY PrintReturns
