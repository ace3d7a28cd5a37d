SPECIFICATION Spec
CONSTANT MaxTarget = 12
INVARIANTS
  SplitIsNearest
  SplitConservesTotal
CHECK_DEADLOCK FALSE
