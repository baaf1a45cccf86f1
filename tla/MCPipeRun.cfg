SPECIFICATION FairSpec
CONSTANT Settings <- MCSettings
INVARIANT TypeOK ExitZeroIffDone ReadOnlyModes EarlyErrorsLeaveReleaseAlone
INVARIANT HelmHasItsInputs KubeconfigRemoved
PROPERTY VerifiedBeforePull NeverBack RunEnds KeepsContract
CHECK_DEADLOCK FALSE
