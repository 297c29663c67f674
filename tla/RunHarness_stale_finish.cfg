SPECIFICATION Spec
CONSTANTS
  w1 = w1
  w2 = w2
  Workers = {w1}
  Users = {u1}
  UserOps = {"pause", "cancel", "resume", "ask", "answer"}
  StepCount = 1
  Idempotent <- MCAllIdempotent
  Budget = 3
  Reserve = 1
  Costs = {1}
  RetryMax = 2
  MaxCrashes = 0
  None = None
CHECK_DEADLOCK FALSE
PROPERTIES
  TerminalIsFinal
