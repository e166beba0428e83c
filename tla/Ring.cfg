CONSTANTS
  N = 3
  Sizes = {1, 2, 3}
  Junk <- MCJunk
  MaxBytes = 11
  Counts = {1, 2, 3, 4, 5, 6, 7}
SPECIFICATION BoundedSpec
INVARIANTS
  MostRecentWrites
  TotalSizeExact
  
  ReadExact
  CatReturnsAll
  SeekFindsCommand
PROPERTY ImplementsLog
CHECK_DEADLOCK FALSE
