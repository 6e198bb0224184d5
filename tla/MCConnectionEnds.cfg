SPECIFICATION FairSpec
CONSTANTS
  User = User
  RecvTasks = {r1, r2}
  KaTasks = {k1, k2}
  RecTasks = {x1}
  None = None
  Sockets = {s1, s2, s3}
  MaxAttempts = 1
  MaxCalls = 2
PROPERTIES CloseEnds ReceiverGoesOn
CHECK_DEADLOCK FALSE
