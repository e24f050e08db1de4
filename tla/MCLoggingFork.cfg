CONSTANTS
    Sources = {"proc", "task"}
    Output <- MCOutput
    Clients = {"c1"}
    TailCounts <- MCTailCounts
    ChanCap = 1
    Prefix = "prefix"
SPECIFICATION ForkSpec
INVARIANT InOrder
