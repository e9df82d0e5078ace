SPECIFICATION Spec
CONSTANTS
    MaxPosts = 3
    InitialPosts = 2
    RootOf <- Roots
    PageSize = 1
    SinceLimit = 3
    FaultKinds = {}
    MaxActions = 2
    MaxPending = 1
INVARIANTS RecentIsNewest
CHECK_DEADLOCK FALSE
