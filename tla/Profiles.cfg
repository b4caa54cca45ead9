SPECIFICATION FairSpec
CONSTANTS
    p1 = p1
    p2 = p2
    r1 = r1
    r2 = r2
    r3 = r3
    note = note
    deviceA = deviceA
    deviceB = deviceB
    Objects <- MCObjects
    BucketOf <- MCBucketOf
    Times <- MCTimes
    DeviceOf <- MCDeviceOf
    IsJson <- MCIsJson
    PagesOf <- MCPagesOf
    Concurrency = 2
    Window = 1
INVARIANTS LoadIsExact
PROPERTY LoadEnds
