SPECIFICATION Spec
CONSTANTS
    MaxPosts = 4
    InitialPosts = 1
    RootOf <- Roots
    PageSize = 1
    SinceLimit = 2
    FaultKinds = {"stale", "skew"}
    MaxActions = 2
    MaxPending = 1
INVARIANTS TypeOK NoDuplicates NothingSkipped LostIsFetched
PROPERTIES RecentStays SyncClosesGaps
CHECK_DEADLOCK FALSE
