SPECIFICATION Spec
CONSTANTS
  j1 = j1
  j2 = j2
  w1 = w1
  w2 = w2
  w3 = w3
  Jobs = {j1, j2}
  Workers = {w1, w2}
  Enqueuers = {e1, e2}
  Class <- MCOneClass
  WorkerClass <- MCWorkerClass
  Rank <- MCRank
  RetryMax <- MCNoRetry
  CronJobs = {j2}
  ReapBatchMax = 1
  MaxFaults = 1
  MaxShutdowns = 0
  NoJob = NoJob
  NoClaim = NoClaim
  NoLease = NoLease
SYMMETRY MCWorkerSymmetry
INVARIANTS
  TypeOK
  EnqueuedOnce
  RetryBudget
PROPERTIES
  NeverRequeued
