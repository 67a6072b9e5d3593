\* One restaurant, two requests at a time, two plans and one code.
SPECIFICATION LimitsSpec
CONSTANTS
  Restaurants = {r1}
  Plans = {p1, p2}
  Codes = {c1}
  Subs = {x1, x2}
  Sessions = {s1, s2}
  None = None
  Days = {1}
  Limits = {1}
  MaxTime = 1
  Horizon = 2
  Tables = {t1, t2, t3}
  Numbers = {n1, n2, n3}
  Items = {i1, i2, i3}
  Gone = Gone
  Workloads <- AllWorkloads
SYMMETRY Symmetry
INVARIANTS RowsAreSound LimitsAreKept
CHECK_DEADLOCK FALSE
