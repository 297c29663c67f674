SPECIFICATION FairCalmSpec
CONSTANTS
  w1 = w1
  w2 = w2
  Workers = {w1, w2}
  Users = {u1}
  UserOps = {"pause", "cancel", "resume"}
  StepCount = 2
  Idempotent <- MCLastOnce
  Budget = 2
  Reserve = 1
  Costs = {1, 2}
  RetryMax = 2
  MaxCrashes = 0
  None = None
CHECK_DEADLOCK FALSE
INVARIANTS
  RowReadable
  SpendBounded
PROPERTIES
  CancelHonored
  ControlSettles
