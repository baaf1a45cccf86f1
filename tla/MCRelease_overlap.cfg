SPECIFICATION Spec
CONSTANTS
  Runs = {r1, r2, r3}
  Base = base
  NoContent = none
  HelmDefaultMax = 3
  Exclusive = FALSE
  Jobs <- MCOverlapJobs
SYMMETRY Symmetry
INVARIANT PendingMeansUnfinished
PROPERTY UnlimitedUpgradeKeepsHistory
CHECK_DEADLOCK FALSE
