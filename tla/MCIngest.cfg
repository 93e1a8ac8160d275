CONSTANTS
    Hosts  = {1, 2}
    Batch  = 2
    MaxRow = 3
SPECIFICATION FairSpec
INVARIANTS StoredIsPrefix RecentIsExact
PROPERTIES AttributionIsKept ImplementsCopy EventuallyIngested
