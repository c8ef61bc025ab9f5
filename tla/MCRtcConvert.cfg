SPECIFICATION ConvertSpec
CONSTANT Times <- MCTimes
INVARIANTS
  ConvertsBack
