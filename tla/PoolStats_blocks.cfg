CONSTANTS
    b1 = b1
    b2 = b2
    r1 = r1
    r2 = r2
    Blocks = {b1}
    Reporters = {r1, r2}
    BlockOf <- TwoReports
    Outcomes = {TRUE, FALSE}
    Verdicts = {"confirmed", "orphaned", "abandoned"}
    MaxBacklog = 2
    MaxShares = 0
    MaxSnapshots = 0
    MaxFailures = 2
    MaxRestarts = 1
    MaxTime = 0
SPECIFICATION Spec
CHECK_DEADLOCK FALSE
SYMMETRY RenameBlocks
INVARIANTS
    NoBlockLost
PROPERTIES
    VerdictIsFinal
