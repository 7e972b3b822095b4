CONSTANTS
    MinDifficulty = 2
    MaxDifficulty = 8
    InitialDifficulties = {1, 4}
    NetworkDifficulties = {0, 4}
    Suggestions = {1, 4, 9}
    Optima = {2, 4, 8}
    DeadzoneLow = 67
    DeadzoneHigh = 150
    MaxRetargetFactor = 10
    RetargetInterval = 3
    RetargetShares = 4
    EVIDENCE_SHARES = 3
    REDEEM_SHARES = 3
    RETARGET_GRACE = 2
    MaxChanges = 3
SPECIFICATION LiveSpec
INVARIANTS
    HonestIsBelieved
    OverpayIsBounded
PROPERTIES
    HonestIsRedeemed
