SPECIFICATION Spec
CONSTANTS
  MaximumAttempts = 3
  MaxExecs = 1
  MaxMissed = 0
INVARIANT DecisionRecordedOnce
