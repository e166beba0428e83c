CONSTANTS
  Clients = {c1, c2, c3}
  Free = Free
  N = 2
  Messages <- MCAnything
  MaxParts = 1
  BufSize = 9
  Signals = {"SIGTERM", "SIGALRM"}
  Faults = {"thread", "main"}
  Junk <- MCZeroJunk
  MaxStarts = 2
  MaxFiles = 4
  Outside = {}
  MaxOutside = 0
SPECIFICATION Spec
INVARIANTS
  TypeOK
  ServerMutex
  ChunksTogether
  ReplyCorrect
  JoinedOnce
  AtMostOneMore
  AtMostTwoThreads
  OnlySeeksLeak
SYMMETRY MCSymmetry
CHECK_DEADLOCK FALSE
