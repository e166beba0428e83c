CONSTANTS
  Clients = {c1, c2, c3}
  Free = Free
  N = 2
  Messages <- MCCommandsAndSeeks
  MaxParts = 0
  BufSize = 2
  Signals = {"SIGTERM"}
  Faults = {}
  Junk <- MCZeroJunk
  MaxStarts = 1
  MaxFiles = 3
  Outside = {"write", "read", "flush"}
  MaxOutside = 1
SPECIFICATION FairSpec
INVARIANTS
  ReplyCorrect
  ReplyForward
PROPERTIES
  EveryClientServed
  SignalEndsServer
CHECK_DEADLOCK FALSE
