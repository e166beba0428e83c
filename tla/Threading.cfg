CONSTANTS
  Threads = {t1, t2, t3}
  Caller = Caller
  Free = Free
  Faults = {"create", "lock", "unlock"}
SPECIFICATION FairSpec
INVARIANTS
  HolderOwns
  SuccessMeansReleased
PROPERTY EveryThreadJoined
CHECK_DEADLOCK FALSE
