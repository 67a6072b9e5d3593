\* Two requests at a time: two brands and two senders, or a guest of a brand.
SPECIFICATION WhatsAppSpec
CONSTANTS
  b1 = b1
  b2 = b2
  Brands = {b1, b2}
  Home = b1
  Senders = {n1, n2}
  Templates = {t1}
  Params = {x}
  Campaigns = {c1}
  Orders = {o1}
  Messages = {m1}
  Null = Null
  Requests = {s1, s2}
  Attempts = {a1, a2}
  MaxVersions = 3
  MaxCodes = 2
  MaxTries = 2
  MaxLog = 3
  Workloads <- AllWorkloads
SYMMETRY Symmetry
INVARIANTS WhatsAppTypeOK StaleWorkIsHarmless GuestDecides
CHECK_DEADLOCK FALSE
