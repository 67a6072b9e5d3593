\* One order, two processes, one fault, fair.
SPECIFICATION LiveSpec
CONSTANTS
  Orders = {o1}
  Procs = {p1, p2}
  NoProc = NoProc
  NoJob = NoJob
  MaxAttempts = 2
  BatchSize <- CoveringBatch
  Times = {1}
  MaxRequests = 1
  MaxFaults = 1
INVARIANTS
  TypeOK
  ConsumedOnce
  NoLostJob
  StatusIsHonest
  LeaseExclusion
PROPERTIES
  PromiseKept
  DeductionResolves
