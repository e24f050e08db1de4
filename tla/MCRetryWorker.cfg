CONSTANTS
    StartTimeoutSet = FALSE
    ExecTimeoutSet = TRUE
    MaxMemorySet = FALSE
    TaskResults <- MCTaskResults
    ParentCauses <- MCParentCauses
    RetrySuccess = TRUE
    RetryCount = 1
    Period = 2
    MaxTime = 3
    RetryTickDead <- MCRetryTickDead
SPECIFICATION Spec
INVARIANT TypeOK
INVARIANT RetryBudget
