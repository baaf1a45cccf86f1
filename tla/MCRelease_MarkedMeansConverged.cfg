SPECIFICATION Spec
CONSTANTS
  Runs = {r1, r2, r3}
  Base = base
  NoContent = none
  HelmDefaultMax = 3
  Exclusive = FALSE
  Jobs <- MCJobs
SYMMETRY Symmetry
INVARIANT MarkedMeansConverged
CHECK_DEADLOCK FALSE
