\* Expected to fail: a request that timed out is called FAILED.
SPECIFICATION Spec
CONSTANTS
  Customers = {c1}
  Workers = {w1}
  Operators = {p1}
  Hooks = {}
  None = None
  Replies <- AllReplies
  MaxAttempts = 2
  MaxCrashes = 0
  MaxErrors = 0
INVARIANT UnknownIsReconciled
CHECK_DEADLOCK FALSE
