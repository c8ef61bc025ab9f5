SPECIFICATION FairSpec
CONSTANTS
  Lines = {0, 1, 4}
  Exceptions = {3}
  TickMod = 2
  MaxFaults = 1
PROPERTIES
  BootCompletes
  KeyServed
