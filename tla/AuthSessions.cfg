\* Two requests at a time of one browser, its owner and his waiter.
SPECIFICATION Spec
CONSTANTS
  Users = {u1}
  Waiters = {w1}
  Emails = {e1, e2}
  Browsers = {b1}
  Requests = {r1, r2}
  Tokens = {t1, t2, t3}
  None = None
  Lifetime = 1
  MaxTime = 1
SYMMETRY Symmetry
INVARIANTS TypeOK OneLiveToken NoOrphans
PROPERTIES LoginsEnd
CHECK_DEADLOCK FALSE
