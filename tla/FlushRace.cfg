CONSTANTS
  p1 = p1
  p2 = p2
  Procs = {p1, p2}
  Free = Free
  Ops <- MCFlusher
  N = 2
  Payloads <- MCCommands
  Counts = {1, 9}
  Offsets = {}
  Seeks = {}
  Garbage = {}
  Junk <- MCZeroJunk
  MaxBytes = 4
  MaxFileSize = 6
SPECIFICATION Spec
INVARIANTS
  QuietTotalExact
