SPECIFICATION Spec
CONSTANTS
  web = web
  old = old
  new = new
  bad = bad
  vetoed = vetoed
  Services = {web}
  Images = {old, new, bad, vetoed}
  InitialImage = old
  Admitted = {old, new, bad}
  Runnable = {old, new}
  BaseReplicas = 3
  Faults = {"call"}
  Workflows = {w1}
  Inputs <- AutoInputs
  MaxSignals = 0
  RetryBound = 5
INVARIANT FailedStepUndone
CHECK_DEADLOCK FALSE
