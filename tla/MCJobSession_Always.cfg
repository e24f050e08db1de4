CONSTANTS
    Insts <- MCInsts
    Callers <- MCCallers2
    j1 = j1
    j2 = j2
    c1 = c1
    c2 = c2
    c3 = c3
    First = j1
    Ops = {"start", "stop", "restart", "kill", "stopall", "update", "launch", "delete", "signal"}
    MaxWorkers = 6
    MaxSignals = 1
    LaunchKinds <- MCLaunchKinds
    RetryOn = TRUE
SPECIFICATION Spec
PROPERTY AlwaysRestarts
