CONSTANTS
    Counts = {0, 5, 20}
    Periods = {0, 10000, 3600000}
    Sizes = {0}
    Durations = {0}
INIT Init
NEXT Next
INVARIANT RetryLimitKept
