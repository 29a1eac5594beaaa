SPECIFICATION Spec
CONSTANTS
    TestRange <- MCTestRange
    Samples <- MCSamples
    MaxTimeouts = 1
INVARIANTS SolutionsAgree ScoreEarned AllTested
