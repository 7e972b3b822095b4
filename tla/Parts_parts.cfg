CONSTANTS
    Names = {"A", "a", "B"}
    Identities = {"A", "B"}
    Canonical <- MCCanonical
    Nonces = {1}
    MaskBits = {"v"}
    JobIds = 2
    JOB_HISTORY_DEPTH = 2
    MaxShareSet = 1
    MaxInvalid = 2
    MaxAuthorizations = 2
    MaxJobs = 3
    MaxCredits = 2
    NoOne = NoOne
    NoShare = NoShare
    Configs <- MCConfigs
    Templates <- MCTemplates
    PayoutLengths <- MCPayoutLengths
    Delays = {0, 1}
    Base = 4
    Width = 6
    Sig = 3
    Diff1At = 1
    MinDifficulties = {1, 3}
    Difficulties = {1, 2, 3, 5, 16, 62, 100}
    DeviceTargets = {100, 1024, 4095}
    Exponents = {0, 1, 2, 3, 4, 5, 6, 7}
    Rigs = {r1, r2}
    Miners = {A, B}
    Tickets = {1, 2}
    ShortWindow = 1
    LongWindow = 2
    EvictAfter = 1
    MaxClock = 4
    MaxBoots = 1
    Never = Never
    HOUR = 4
    FINE_RETENTION = 4
    Windows <- MCWindows
    MaxMinute = 10
    Callers = {t1, t2}
    MaxStarts = 3
    Unreadable = Unreadable
    Explicit = Explicit
SPECIFICATION MCSpec
CHECK_DEADLOCK FALSE
INVARIANTS
    PaidIsCredited
    HeadersAgree
    BlocksAreValid
    ConfiguredCoinbaseBuilds
    TargetsAreExact
    
    MeteredOnce
    DecaysByTheClock
    HistoryIsExact
    RestartIsRecovered

    
