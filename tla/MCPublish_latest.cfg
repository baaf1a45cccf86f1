SPECIFICATION Spec
CONSTANTS
  Runs = {r1, r2, r3}
  NoImage = none
  Last = 2
  Major <- OneMajor
SYMMETRY Symmetry
INVARIANT LatestIsNewest
CHECK_DEADLOCK FALSE
