SPECIFICATION Spec
CONSTANTS
  web = web
  old = old
  new = new
  bad = bad
  vetoed = vetoed
  Services = {web}
  Images = {old, new, bad, vetoed}
  InitialImage = old
  Admitted = {old, new, bad}
  Runnable = {old, new}
  BaseReplicas = 3
  Faults = {"call", "status", "reply", "timeout", "client", "crash", "cancel", "pod"}
  Workflows = {w1}
  Inputs <- SingleInputs
  MaxSignals = 2
  RetryBound = 2
INVARIANTS
  TypeOK
  NoPromoteWithoutApproval
  StableNeverDrained
  NoWriteBeforePolicy
  NoStableWriteBeforeHealthy
  HealthyMeansRunnable
  EveryCompensationRuns
  CompensationsReversed
  PromotedConverges
  CleanRollbackLeavesOld
  FailedStepContained
PROPERTY ImplementsContract
