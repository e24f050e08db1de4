CONSTANTS
    Sources = {"proc", "task"}
    Output <- MCOutput
    Clients = {"c1"}
    TailCounts <- MCTailCounts
    ChanCap = 3
    Prefix = "prefix"
SPECIFICATION Spec
INVARIANT FollowsAll
