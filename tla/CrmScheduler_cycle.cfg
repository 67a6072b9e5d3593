\* Two cycles, one fault, the code's three attempts, a second bucket of one job.
SPECIFICATION Spec
CONSTANTS
  Cycles = {c1, c2}
  None = None
  Orphan = Orphan
  JobOrder <- MCJobOrder
  Period <- MCPeriod
  MaxAttempts = 3
  MaxTime = 1
  MaxFaults = 1
SYMMETRY Symmetry
INVARIANTS TypeOK OneCycle OnlyFailuresHoldUp
