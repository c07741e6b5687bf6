SPECIFICATION Spec
CONSTANTS
  f1 = f1
  f2 = f2
  r1 = r1
  r2 = r2
  r3 = r3
  s1 = s1
  s2 = s2
  Sessions = {s1, s2}
  Threads = {1, 2}
  Files <- MCFiles
  Refs <- MCRefs
  FileOf <- MCFileOf
  Entries <- MCEntries
  FileDate <- MCFileDate
  Canonical = {}
  OnDisk <- MCFiles
  Prompts <- MCPrompts
  MaxSync = 1
  MaxPrefetch = 1
  MinScore = 6
  Lanes <- MCLanes
  Overlapping = TRUE
  Faults = FALSE
  MaxTurns = 3
  MaxNow = 2
INVARIANT PullRemembered
CHECK_DEADLOCK FALSE
