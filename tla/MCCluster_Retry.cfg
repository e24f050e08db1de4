CONSTANTS
    N = 2
    MaxAttempts <- MCAttempts
SPECIFICATION Spec
INVARIANT TypeOK UpstreamTracked
