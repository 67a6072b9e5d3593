\* One recipient, two workers, one webhook, one crash and one failed statement, fair.
SPECIFICATION FairSpec
CONSTANTS
  Customers = {c1}
  Workers = {w1, w2}
  Operators = {p1}
  Hooks = {h1}
  None = None
  Replies <- AllReplies
  MaxAttempts = 2
  MaxCrashes = 1
  MaxErrors = 1
INVARIANTS TypeOK AtMostOneRequest LostIsReconciled BooksAgree
PROPERTIES ClosedStays CampaignSettles
CHECK_DEADLOCK FALSE
