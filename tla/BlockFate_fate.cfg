CONSTANTS
    b1 = b1
    Finds = {b1}
    HeightOf <- FirstHeight
    MaxReorg = 1
    MaxTip = 4
    MaxReorgs = 2
    MaxForgets = 1
    Depth = 2
    InlineAttempts = 2
    MaxAttempts = 3
    MaxFailures = 3
    MaxRestarts = 1
SPECIFICATION FateLiveSpec
CHECK_DEADLOCK FALSE
INVARIANTS
    ConfirmedStays
    OrphanedStaysOff
    OutcomeIsTrue
PROPERTIES
    FoundIsDecided
