SPECIFICATION TimelySpec
CONSTANTS
  j1 = j1
  j2 = j2
  w1 = w1
  w2 = w2
  w3 = w3
  Jobs = {j1, j2}
  Workers = {w1, w2, w3}
  Enqueuers = {e1}
  Class <- MCClass
  WorkerClass <- MCWorkerClass
  Rank <- MCRank
  RetryMax <- MCNoRetry
  CronJobs = {}
  ReapBatchMax = 1
  MaxFaults = 2
  MaxShutdowns = 1
  NoJob = NoJob
  NoClaim = NoClaim
  NoLease = NoLease
INVARIANTS
  ExclusiveAttempt
  AttemptsExact
  ShutdownLeavesNoLease
PROPERTIES
  TerminalIsFinal
  ImplementsLifecycle
