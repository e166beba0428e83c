CONSTANTS
  p1 = p1
  p2 = p2
  Procs = {p1, p2}
  Free = Free
  Ops <- MCTwoWriters
  N = 2
  Payloads <- MCPiecesOrNothing
  Counts = {9}
  Offsets = {}
  Seeks = {}
  Garbage = {}
  Junk <- MCZeroJunk
  MaxBytes = 4
  MaxFileSize = 7
SPECIFICATION FairSpec
INVARIANTS
  TypeOK
  MutexDiscipline
  ByteConservation
PROPERTIES
  ImplementsSerialRing
  EveryCallReturns
  DeathFreezesLog
  RoomLostToOthers
CHECK_DEADLOCK FALSE
