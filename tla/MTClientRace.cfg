SPECIFICATION Spec
CONSTANTS
    NThreads = 2
    NRequests = 1
    Workload <- OnePath
    TooLong <- NoPaths
    Outcomes <- OnlySuccess
    MaxSpurious = 0
INVARIANTS KeptIntact
