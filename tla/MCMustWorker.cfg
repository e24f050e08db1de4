CONSTANTS
    StartTimeoutSet = TRUE
    ExecTimeoutSet = FALSE
    MaxMemorySet = TRUE
    TaskResults <- MCTaskResults
    ParentCauses <- MCParentCauses
SPECIFICATION Spec
INVARIANT TypeOK
PROPERTY WorkerRefined
PROPERTY StopTerminates
