SPECIFICATION Spec
CONSTANTS
  MaximumAttempts = 2
  MaxExecs = 2
  MaxMissed = 1
INVARIANTS
  TypeOK
  ResultOnRecord
  ApprovalBeforePromotion
PROPERTY AppendOnly
