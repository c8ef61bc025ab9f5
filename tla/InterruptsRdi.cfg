SPECIFICATION Spec
CONSTANTS
  Lines = {0, 1}
  Exceptions = {3}
  TickMod = 2
  MaxFaults = 0
PROPERTY RegistersPreserved
