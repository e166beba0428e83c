CONSTANTS
  p1 = p1
  p2 = p2
  Procs = {p1}
  Free = Free
  Ops <- MCOneUser
  N = 2
  Payloads <- MCPieces
  Counts = {1, 9}
  Offsets <- MCOffsets
  Seeks <- MCSeeks
  Garbage = {0, 2}
  Junk <- MCJunk
  MaxBytes = 4
  MaxFileSize = 6
SPECIFICATION Spec
INVARIANTS
  EntriesLive
PROPERTIES
  ImplementsSerialRing
