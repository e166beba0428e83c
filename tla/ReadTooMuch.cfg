CONSTANTS
  N = 3
  Sizes = {1, 2, 3}
  Junk <- MCJunk
  MaxBytes = 11
  Counts = {1, 2, 3, 4, 5, 6, 7}
SPECIFICATION BoundedSpec
INVARIANT ReadWithinCount
CHECK_DEADLOCK FALSE
