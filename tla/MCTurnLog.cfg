SPECIFICATION Spec
CONSTANTS
  s1 = s1
  s2 = s2
  Sessions = {s1, s2}
  Spirits = {"kodo"}
  MaxLive = 2
  MaxWindow = 1
  MaxCalls = 3
  MaxDay = 2
INVARIANT LiveIsHistory
INVARIANT LatestIsLast
INVARIANT WindowOfLedger
INVARIANT WindowUpToDate
INVARIANT MarkdownAgrees
SYMMETRY MCSymmetry
CHECK_DEADLOCK FALSE
