CONSTANTS
    N = 2
    MaxAttempts <- MCSingle
SPECIFICATION Spec
INVARIANT StatusKept
