SPECIFICATION MCSpec
CONSTANTS
  Crons = {1, 2}
  Tickers = {ui, cli}
  Guest = cli
  Schedules = {"dense"}
  Fires <- MCFires
  Policies <- MCPolicies
  ScanMax = 2
  MaxTime = 3
  MaxRegisters <- MCMaxRegisters
  MaxToggles = 1
  MaxFaults = 1
  NoRow = NoRow
  NoFire = NoFire
CHECK_DEADLOCK FALSE
INVARIANTS
  TypeOK
  NoOverlap
  SupersededHasSuccessor
PROPERTIES
  OwedEventuallySettled
