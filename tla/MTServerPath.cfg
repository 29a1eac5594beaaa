SPECIFICATION Spec
CONSTANTS
    NThreads = 1
    Names <- TwoNames
    MaxLines = 2
    Paths = {"/a", "/b"}
    MaxRequests = 2
    MaxLoad = 4
    MaxSpurious = 0
INVARIANTS RightFile
