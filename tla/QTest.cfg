SPECIFICATION FairSpec
CONSTANTS
    Str = {a, b}
    NoStr = NoStr
    FailLimit = 2
    BigQueue = 1
    ErrLimit = 2
    MaxReps = 2
    MaxLen = 3
    MaxAlarms = 1
    MaxBlocks = 9
INVARIANTS QueueSound NoFalseVerdict ModesRestored CommandEffect
PROPERTIES ImplementsListQueue CommandsEnd
