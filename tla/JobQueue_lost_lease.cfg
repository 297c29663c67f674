SPECIFICATION Spec
CONSTANTS
  j1 = j1
  j2 = j2
  w1 = w1
  w2 = w2
  w3 = w3
  Jobs = {j1}
  Workers = {w1}
  Enqueuers = {e1}
  Class <- MCOneClass
  WorkerClass <- MCWorkerClass
  Rank <- MCRank
  RetryMax <- MCNoRetry
  CronJobs = {}
  ReapBatchMax = 1
  MaxFaults = 0
  MaxShutdowns = 0
  NoJob = NoJob
  NoClaim = NoClaim
  NoLease = NoLease
PROPERTIES
  LostLeaseHandsOff
