\* Liveness: one socket, one node on the wire at a time.
SPECIFICATION FairSpec
CONSTANTS
  c1 = c1
  n = n
  Callers <- MCCallers
  Nested = n
  Loop = Loop
  NoTag = NoTag
  Tags = {t1, t2}
  MaxWire = 1
  MaxRetries = 1
  MaxOpen = 1
PROPERTIES QueryEnds
CHECK_DEADLOCK FALSE
