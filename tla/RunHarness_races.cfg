SPECIFICATION Spec
CONSTANTS
  w1 = w1
  w2 = w2
  Workers = {w1, w2}
  Users = {u1}
  UserOps = {"pause", "cancel", "ask", "answer"}
  StepCount = 2
  Idempotent <- MCLastOnce
  Budget = 2
  Reserve = 1
  Costs = {1}
  RetryMax = 2
  MaxCrashes = 1
  None = None
SYMMETRY MCWorkerSymmetry
CHECK_DEADLOCK FALSE
INVARIANTS
  TypeOK
  OneOutstandingStep
  NonIdempotentOnce
