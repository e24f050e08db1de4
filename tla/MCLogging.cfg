CONSTANTS
    Sources = {"proc", "task"}
    Output <- MCOutput
    Clients = {"c1"}
    TailCounts <- MCTailCounts
    ChanCap = 1
    Prefix = "prefix"
SPECIFICATION Spec
INVARIANT TypeOK NoDuplicate InOrder
PROPERTY OutputDrains
