SPECIFICATION Spec
CONSTANTS
  None = None
  me = me
  ml = ml
  a = a
  l = l
  g = g
  MeId <- MCMeId
  MeLid <- MCMeLid
  Callers = {c1, c2}
  Loop = Loop
  Plans <- MCPlans
  Listings <- MCListings
  Authors <- MCAuthors
  MaxRetry = 1
  MaxInbox = 1
SYMMETRY MCSymmetry
INVARIANTS  SessionsKept RetryLimit InboundKept ReceiptsOurs OneCopyEach
PROPERTIES RetryServed
CHECK_DEADLOCK FALSE
