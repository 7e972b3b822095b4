CONSTANTS
    b1 = b1
    b2 = b2
    r1 = r1
    r2 = r2
    Blocks = {b1, b2}
    Reporters = {r1, r2}
    BlockOf <- OneReport
    Outcomes = {TRUE}
    Verdicts = {}
    MaxBacklog = 4
    MaxShares = 2
    MaxSnapshots = 1
    MaxFailures = 2
    MaxRestarts = 1
    MaxTime = 1
SPECIFICATION Spec
CHECK_DEADLOCK FALSE
SYMMETRY RenameBlocks
INVARIANTS
    NoRoundResurrected
PROPERTIES
    BootEndsWonRounds
