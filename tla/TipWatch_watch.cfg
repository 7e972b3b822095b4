CONSTANTS
    Tips = {"A", "B"}
    strict_gbt_rules = TRUE
    TEMPLATE_STALE_AFTER = 1
    ZMQ_MAX_BACKOFF = 3
    ZMQ_STABLE_AFTER = 2
    MaxTipChanges = 1
    MaxRuleChanges = 1
    MaxFaults = 2
    MaxDeaths = 1
SPECIFICATION LiveSpec
CHECK_DEADLOCK FALSE
PROPERTIES
    TipReachesEngine
    FreezeIsReported
