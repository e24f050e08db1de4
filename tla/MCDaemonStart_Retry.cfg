CONSTANTS
    Cli <- MCCli
    c1 = c1
    c2 = c2
    c3 = c3
    NoHolder = NoHolder
    MaxPings = 2
SPECIFICATION Spec
\* The CLI processes exit and the daemon then only waits for a signal.
CHECK_DEADLOCK FALSE
INVARIANT RefusedOnlyAfterRetry
