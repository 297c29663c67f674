SPECIFICATION Spec
CONSTANTS
  Crons = {1}
  Tickers = {ui}
  Guest = cli
  Schedules = {"dense"}
  Fires <- MCFires
  Policies <- MCPolicies
  ScanMax = 4
  MaxTime = 3
  MaxRegisters <- MCMaxRegisters
  MaxToggles = 0
  MaxFaults = 0
  NoRow = NoRow
  NoFire = NoFire
CHECK_DEADLOCK FALSE
PROPERTIES
  WatermarkPreserved
