CONSTANTS
    StartTimeoutSet = FALSE
    ExecTimeoutSet = FALSE
    MaxMemorySet = FALSE
    TaskResults <- MCTaskResults
    ParentCauses <- MCParentCauses
    RetrySuccess = TRUE
    RetryCount = 1
    Period = 2
    MaxTime = 1
    RetryTickDead <- MCRetryTickDead
SPECIFICATION Spec
PROPERTY StopTerminates
