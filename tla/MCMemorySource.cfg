SPECIFICATION Spec
CONSTANTS
  boat = boat
  session = session
  shared = shared
  foreign = foreign
  Memories <- MCMemories
  Room = "kodo"
  RoomOf <- MCRoomOf
  PathOf <- MCPathOf
  DbOnly = {session}
  Migrated = TRUE
  Faults = TRUE
  Archivable = {boat}
  MaxRows = 1
  MaxRuns = 2
INVARIANT RoomsKept
INVARIANT HiddenOnlyByPath
INVARIANT ArchiveHonoured
INVARIANT IndexIsWhole
INVARIANT CaughtIsNotFatal
CHECK_DEADLOCK FALSE
