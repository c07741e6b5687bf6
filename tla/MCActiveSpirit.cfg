\* The session state and the active spirit of two rooms.
SPECIFICATION HostSpec
CONSTANTS
  s1 = s1
  s2 = s2
  operator = operator
  default = default
  muse = muse
  slash = slash
  nobody = nobody
  kodo = kodo
  kintsu = kintsu
  noRoom = noRoom
  Sessions = {s1, s2}
  Operators = {operator}
  Spirits = {default, muse}
  Unsafe = {slash}
  DefaultSpirit = default
  Nobody = nobody
  Requests <- MCRequests
  RoomOf <- MCRoomOf
  NoRoom = noRoom
  Edited = {muse}
  Faults = TRUE
  MaxCalls = 3
  MaxEdits = 4
INVARIANTS
  ContractIsFresh
  MirrorIsOwn
  ActiveAgrees
PROPERTY
  RefinesRegister
\* The instance stops when its calls are used up.
CHECK_DEADLOCK FALSE
