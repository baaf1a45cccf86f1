SPECIFICATION Spec
CONSTANTS
  Timeouts <- TimeoutsMC
  Delays <- DelaysMC
  Local = 5
INVARIANT TypeOK StartsWithLiveToken EndsInTime TimersAgree
CHECK_DEADLOCK FALSE
