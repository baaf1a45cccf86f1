SPECIFICATION Spec
CONSTANTS
  Runs = {r1, r2, r3}
  Base = base
  NoContent = none
  HelmDefaultMax = 3
  Exclusive = TRUE
  Jobs <- MCJobs
SYMMETRY Symmetry
INVARIANT TypeOK MarkedMeansConverged RollbackRestoresConverged
INVARIANT ExitZeroIsLive
PROPERTY KeepsPromise
CHECK_DEADLOCK FALSE
