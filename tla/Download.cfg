SPECIFICATION DownloadSpec
CONSTANTS
    FileLength = 11
    Chunk = 4
    Spaced = FALSE
    NRequests = 2
INVARIANTS HonestRefusal FilesAreCopies
PROPERTIES DownloadEnds
