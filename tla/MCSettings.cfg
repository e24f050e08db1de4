CONSTANTS
    d = d
    c = c
    g1 = g1
    g2 = g2
    Procs = {d, c}
    Gos = {g1, g2}
    Faults = {}
    MaxStarts = 3
SPECIFICATION Spec
INVARIANT TypeOK
PROPERTIES StableGet GetReturns
