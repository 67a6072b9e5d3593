\* A discount and an append of the same worth behind the back of a discount.
SPECIFICATION Spec
CONSTANTS
  Orders = {o1}
  Sessions = {s1, s2}
  Keys = {}
  Coupons = {}
  None = None
  Prices = {2, 4}
  Points = {2}
  CouponValue = 0
  Rates = {0}
  MaxPercent = 50
  InitialBalance = 4
  MaxItems = 8
  Targets = {"PREPARING", "CANCELLED"}
SYMMETRY Symmetry
INVARIANT OneRedemption
CHECK_DEADLOCK FALSE
