CONSTANTS
    b1 = b1
    b2 = b2
    r1 = r1
    r2 = r2
    Blocks = {b1, b2}
    Reporters = {r1}
    BlockOf <- FirstReport
    Outcomes = {TRUE}
    Verdicts = {"confirmed"}
    MaxBacklog = 4
    MaxShares = 0
    MaxSnapshots = 0
    MaxFailures = 1
    MaxRestarts = 0
    MaxTime = 0
SPECIFICATION LiveSpec
CHECK_DEADLOCK FALSE
PROPERTIES
    ResolutionLands
