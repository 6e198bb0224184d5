\* Safety: two sockets, so that nodes of the first can meet queries of the second.
SPECIFICATION Spec
CONSTANTS
  c1 = c1
  n = n
  Callers <- MCCallers
  Nested = n
  Loop = Loop
  NoTag = NoTag
  Tags = {t1, t2}
  MaxWire = 2
  MaxRetries = 1
  MaxOpen = 2
INVARIANTS WaiterReachable PendingAccounted 
CHECK_DEADLOCK FALSE
