\* Two orders, two requests at a time: one bill, one balance, one coupon.
SPECIFICATION Spec
CONSTANTS
  Orders = {o1, o2}
  Sessions = {s1, s2}
  Keys = {k1}
  Coupons = {c1}
  None = None
  Prices = {2, 4}
  Points = {2}
  CouponValue = 1
  Rates = {50}
  MaxPercent = 50
  InitialBalance = 3
  MaxItems = 6
  Targets = {"PREPARING", "READY", "CANCELLED"}
SYMMETRY Symmetry
INVARIANTS TypeOK PaidOnceInFull BillIsExplained PointsKept SpentOnce
PROPERTIES ClosedIsFinal BookKept
CHECK_DEADLOCK FALSE
