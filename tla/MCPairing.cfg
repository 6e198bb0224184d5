SPECIFICATION FairSpec
CONSTANTS
  None = None
  Torn = Torn
  MaxCalls = 2
INVARIANTS  LinkedIsSaved RefusedExplained
 
CHECK_DEADLOCK FALSE
