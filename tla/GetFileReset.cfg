SPECIFICATION Spec
CONSTANTS
    FileLength = 11
    Chunk = 4
    Spaced = FALSE
INVARIANTS ClientSurvives
