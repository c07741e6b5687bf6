SPECIFICATION Spec
CONSTANTS
  boat = boat
  session = session
  shared = shared
  foreign = foreign
  Memories <- MCMemories
  Room = "kodo"
  RoomOf <- MCRoomOf
  PathOf <- MCPathOf
  DbOnly = {session}
  Migrated = TRUE
  Faults = FALSE
  Archivable = {boat}
  MaxRows = 1
  MaxRuns = 1
INVARIANT HotIsDormant
CHECK_DEADLOCK FALSE
