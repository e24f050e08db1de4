CONSTANTS
    Counts = {0, 10}
    Periods = {0, 30000}
    Sizes = {0, 2048}
    Durations <- MCDurations
INIT Init
NEXT Next
INVARIANT RevivalRoundTrip
