\* Expected to fail: a retry of a refused recipient meets a closed gate.
SPECIFICATION Spec
CONSTANTS
  Customers = {c1}
  Workers = {w1}
  Operators = {p1}
  Hooks = {}
  None = None
  Replies <- AllReplies
  MaxAttempts = 2
  MaxCrashes = 0
  MaxErrors = 0
INVARIANT GateOpenForClaim
CHECK_DEADLOCK FALSE
