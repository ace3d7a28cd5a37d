SPECIFICATION FairSpec
CONSTANTS
  web = web
  old = old
  new = new
  bad = bad
  vetoed = vetoed
  Services = {web}
  Images = {old, new, bad, vetoed}
  InitialImage = old
  Admitted = {old, new, bad}
  Runnable = {old, new}
  BaseReplicas = 3
  Faults = {"call", "reply", "timeout", "client", "crash", "cancel", "pod"}
  Workflows = {w1}
  Inputs <- GatedInputs
  MaxSignals = 1
  RetryBound = 2
INVARIANT RejectedMeansDenied
PROPERTY EveryDeployCloses
