CONSTANTS
  None = None
  GroupServer = GroupServer
  A = A
  B = B
  Callers = {A, B}
  Plans <- MCPlans
  Numbers <- MCNumbers
  Lids <- MCLids
  GroupIds <- MCGroups
  Spare <- new
  NumBuckets = 2
  ChunkSize = 2
  Margin = 1
  RecoverPage = 3
  Timeout = 1
SPECIFICATION Spec
INVARIANTS
  EventsTell
  BlocksPair
  TokenFresh
  NumbersAnswered
  RecoveredOwn
  RetryOwn
  ReadTold
  ChannelTold
PROPERTY LearnedStays
CHECK_DEADLOCK FALSE
