SPECIFICATION FairSpec
CONSTANTS
    MainCommands = {"ok", "bad", "source", "quit", "limit"}
    SubCommands = {"ok", "bad", "timed bad", "timed quit"}
    MaxMain = 3
    MaxSub = 2
    ErrLimit = 2
INVARIANTS ExecutedInOrder StopsInTime ListsUsedAlive ExitStatus
PROPERTIES InputEnds
