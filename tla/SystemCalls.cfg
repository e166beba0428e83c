CONSTANTS
  f1 = f1
  f2 = f2
  Files = {f1, f2}
  Terminal = Terminal
  Requests <- MCRequests
  Faults = {"open", "dup2", "fork", "waitpid"}
  MaxCalls = 3
SPECIFICATION FairSpec
INVARIANTS
  TrueMeansSucceeded
  NoChildLeft
  OneDescriptorLeft
  RedirectedOutput
PROPERTY EveryCallReturns
CHECK_DEADLOCK FALSE
