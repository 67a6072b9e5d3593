\* Two requests at a time, at two restaurants.
SPECIFICATION GuestsSpec
CONSTANTS
  r1 = r1
  r2 = r2
  b1 = b1
  b2 = b2
  p1 = p1
  p2 = p2
  Restaurants = {r1, r2}
  Brands = {b1, b2, b3}
  Customers = {k1, k2}
  Phones = {p1, p2}
  Orders = {o1, o2}
  Coupons = {c1, c2}
  Segments = {g1, g2}
  Null = Null
  Deleted = Deleted
  Requests = {s1, s2}
  MaxPoints = 2
  MinOrders = 1
  Ratings = {2, 3}
  Workloads <- AllWorkloads
SYMMETRY Symmetry
INVARIANTS GuestsTypeOK TotalsAgree RewardsAreBacked
CHECK_DEADLOCK FALSE
