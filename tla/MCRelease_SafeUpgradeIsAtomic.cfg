SPECIFICATION Spec
CONSTANTS
  Runs = {r1, r2, r3}
  Base = base
  NoContent = none
  HelmDefaultMax = 3
  Exclusive = TRUE
  Jobs <- MCJobs
SYMMETRY Symmetry
INVARIANT SafeUpgradeIsAtomic
CHECK_DEADLOCK FALSE
