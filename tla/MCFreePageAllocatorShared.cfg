SPECIFICATION Spec
CONSTANTS
    t1 = t1
    t2 = t2
    t3 = t3
    NoThread = NoThread
    Threads = {t1, t2}
    NumShards = 2
    Home <- Homes
    BucketLimits <- HotBucketLimits
    RefillBatch = 2
    ReserveLen = 2
    FirstPage = 1
    MaxPage = 5
INVARIANTS
    PageIdsUnique
