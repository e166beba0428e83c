CONSTANTS
  p1 = p1
  p2 = p2
  Procs = {p1, p2}
  Free = Free
  Ops <- MCWriterReader
  N = 2
  Payloads <- MCCommands
  Counts = {1, 2, 9}
  Offsets <- MCOffsets
  Seeks <- MCSeeks
  Garbage = {0, 2}
  Junk <- MCZeroJunk
  MaxBytes = 5
  MaxFileSize = 7
SPECIFICATION Spec
INVARIANTS
  ReadReturnsStream
  NoRedelivery
