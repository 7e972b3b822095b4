CONSTANTS
    Tips = {"A", "B"}
    Sessions = {"s"}
    strict_gbt_rules = TRUE
    JOB_BROADCAST_CAP = 2
    JOB_HISTORY_DEPTH = 2
    MaxTipChanges = 2
    MaxRuleChanges = 1
    MaxFaults = 1
    MaxDeaths = 0
    MaxLeaves = 1
SPECIFICATION LiveSpec
CHECK_DEADLOCK FALSE
INVARIANTS
    DrainedIsCurrent
    DrainedIsOnOneTip
PROPERTIES
    TipReachesMiners
