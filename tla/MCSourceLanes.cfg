SPECIFICATION FairSpec
CONSTANTS
  Lanes <- MCLanes
  Runs <- MCRuns
  Pieces = 1
  SpawnMayThrow = TRUE
  SpawnMayFail = TRUE
INVARIANT GoodAnswerKept
INVARIANT ChunksAreWhole
PROPERTY GatheringEnds
PROPERTY NoProcessLeft
CHECK_DEADLOCK FALSE
