CONSTANTS
  Clients = {c1, c2, c3}
  Free = Free
  N = 2
  Messages <- MCCommands
  MaxParts = 1
  BufSize = 9
  Signals = {"SIGTERM", "SIGALRM"}
  Faults = {"thread", "main"}
  Junk <- MCZeroJunk
  MaxStarts = 2
  MaxFiles = 9
  Outside = {}
  MaxOutside = 0
SPECIFICATION Spec
INVARIANT
  JoinsCompleted
CHECK_DEADLOCK FALSE
