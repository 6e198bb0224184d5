SPECIFICATION Spec
CONSTANTS
  a = a
  g = g
  u = u
  Chats = {a, g}
  Users = {u}
  NoOne = NoOne
  MsgIds = {1, 2, 3, 4}
  Names = {"ann", "anna", "uli"}
  NoName = NoName
  NoReaction = NoReaction
  MaxStamp = 2
  MaxUnread = 1
  Events <- MCEvents
  UserEvents <- MCUserEvents
  Backends = {"sqlite", "postgres"}
  MaxEvents = 4
INVARIANTS ToldStored UnreadBacked
PROPERTIES ImplementsMemory
CHECK_DEADLOCK FALSE
