CONSTANTS
    StartTimeoutSet = TRUE
    ExecTimeoutSet = TRUE
    MaxMemorySet = TRUE
    TaskResults <- MCTaskResults
    ParentCauses <- MCParentCauses
SPECIFICATION Spec
PROPERTY NoRunningAfterStopping
