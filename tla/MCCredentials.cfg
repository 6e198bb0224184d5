SPECIFICATION Spec
CONSTANTS
  Callers = {c1, c2}
  Counts = {1, 2}
  MinCount = 1
  InitialCount = 2
  MaxId = 2
  MaxClock = 4
SYMMETRY Symmetry
INVARIANTS WindowOK ServerKeysKnown NoMessageKeyReuse
CHECK_DEADLOCK FALSE
