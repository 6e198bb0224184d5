SPECIFICATION WireSpec
CONSTANTS
  None = None
  Tokens <- MCTokens
  Bytes <- MCBytes
  ServerNodes <- MCWritable
  Carried <- ReadBack
  MaxSent = 3
  MaxDamaged = 1
  MaxOutbox = 2
INVARIANTS  NodesExplained 
CHECK_DEADLOCK FALSE
