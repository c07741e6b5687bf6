SPECIFICATION Spec
CONSTANTS
  f1 = f1
  f2 = f2
  oath = oath
  saga = saga
  Files = {f1, f2}
  Terms = {oath, saga}
  Parts = {1}
  PointsTo <- MCPointsTo
  Summarised = {oath, saga}
  LengthOf <- MCLengthOf
  MaxImportant = 8
  MaxExcerpt = 3500
  MaxChars = 8000
  MaxFound = 4
INVARIANT FirstOfEachSource
INVARIANT DemotedHasChunk
INVARIANT PriorityKept
INVARIANT BudgetKept
CHECK_DEADLOCK FALSE
