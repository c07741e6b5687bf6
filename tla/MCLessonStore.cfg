SPECIFICATION FairSpec
CONSTANTS
  c1 = c1
  c2 = c2
  c3 = c3
  a = a
  b = b
  Callers = {c1, c2}
  Kinds <- MCKinds
  Ids <- MCIds
  Columns <- MCColumns
  Values = {a, b}
  Allowed <- MCAllowed
  Legal <- MCLegal
  Requests <- MCRequests
  Initial <- MCInitial
  MayFail = TRUE
  LoseAck = TRUE
  MaxCalls = 3
PROPERTY ConfirmedByTitle
PROPERTY RefinesRegistry
PROPERTY CallAnswered
CHECK_DEADLOCK FALSE
