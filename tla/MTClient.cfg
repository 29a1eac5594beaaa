SPECIFICATION FairSpec
CONSTANTS
    NThreads = 2
    NRequests = 2
    Workload <- DistinctPaths
    TooLong <- NoPaths
    Outcomes <- SomeOutcomes
    MaxSpurious = 1
INVARIANTS TypeOK MutualExclusion NoUnderflow QueueIsWindow NoLostWakeup
INVARIANTS KeptIntact NoLeftovers RequestsNotShared
PROPERTIES ImplementsWorkQueue Termination
