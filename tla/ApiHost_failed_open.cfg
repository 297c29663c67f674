SPECIFICATION HostSpec
CONSTANTS
  Projects = {p1, p2}
  Connections = {o1}
  OpenMax = 1
  RegistryMax = 1
  MaxJobs = 0
  MaxFaults = 1
  MaxStarts = 1
  NoProject = NoProject
CHECK_DEADLOCK FALSE
PROPERTIES
  FailedOpenUntracked
