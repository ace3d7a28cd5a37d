SPECIFICATION Spec
CONSTANTS
  web = web
  old = old
  new = new
  bad = bad
  vetoed = vetoed
  Services = {web}
  Images = {old, new, bad, vetoed}
  InitialImage = old
  Admitted = {old, new, bad}
  Runnable = {old, new}
  BaseReplicas = 3
  Faults = {"reply"}
  Workflows = {w1, w2}
  Inputs <- PairInputs
  MaxSignals = 0
  RetryBound = 2
SYMMETRY Interchangeable
INVARIANTS
  OverlappingDeploysLeaveServiceWhole
CHECK_DEADLOCK FALSE
