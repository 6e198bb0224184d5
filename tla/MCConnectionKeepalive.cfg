SPECIFICATION Spec
CONSTANTS
  User = User
  RecvTasks = {r1, r2}
  KaTasks = {k1, k2}
  RecTasks = {x1, x2}
  None = None
  Sockets = {s1, s2, s3}
  MaxAttempts = 2
  MaxCalls = 3
INVARIANT KeepaliveFailureHandled
CHECK_DEADLOCK FALSE
