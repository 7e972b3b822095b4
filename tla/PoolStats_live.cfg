CONSTANTS
    b1 = b1
    b2 = b2
    r1 = r1
    r2 = r2
    Blocks = {b1, b2}
    Reporters = {r1, r2}
    BlockOf <- OneReport
    Outcomes = {TRUE, FALSE}
    Verdicts = {"confirmed", "orphaned"}
    MaxBacklog = 4
    MaxShares = 0
    MaxSnapshots = 0
    MaxFailures = 2
    MaxRestarts = 1
    MaxTime = 0
SPECIFICATION LiveSpec
CHECK_DEADLOCK FALSE

    
PROPERTIES
    PendingSettles
