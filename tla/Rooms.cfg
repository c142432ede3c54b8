SPECIFICATION FairSpec
CONSTANTS
  Call = {c1, c2}
  RoomId = {a, b}
  MaxRooms = 1
  MaxCalls = 2
  CtrlCap = 1
  OutcomeCap = 1
  MaxJoins = 2
  MaxSpawns = 2
  None = None
INVARIANT EvictedOnlyByOwn
PROPERTIES RoomsEnd JoinsDecided
CHECK_DEADLOCK FALSE
