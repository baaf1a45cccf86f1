SPECIFICATION Spec
CONSTANT Settings <- MCSettings
INVARIANT ZeroMeansHelmSucceeded
CHECK_DEADLOCK FALSE
