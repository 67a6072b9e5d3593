\* Two movements at a time: transfers and audits, or sales and purchases.
SPECIFICATION Spec
CONSTANTS
  b1 = b1
  b2 = b2
  Branches = {b1, b2}
  Sessions = {s1, s2}
  Transfers = {t1, t2}
  POs = {p1}
  Sales = {i1}
  Seller = b1
  None = None
  Quantities = {1}
  Prices = {1, 4}
  Workloads <- AllWorkloads
SYMMETRY Symmetry
INVARIANTS TypeOK TransferConserves LedgerChains BookedOnce CostWithinPrices
CHECK_DEADLOCK FALSE
