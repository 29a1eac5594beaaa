SPECIFICATION FairSpec
CONSTANTS
    NThreads = 2
    Names <- ThreeNames
    MaxLines = 3
    Paths = {"/b", "/c"}
    MaxRequests = 3
    MaxLoad = 4
    MaxSpurious = 1
INVARIANTS TypeOK QueueIsWindow NoLostWakeup AnsweredOnce FoundIfListed
PROPERTIES EveryoneServed
