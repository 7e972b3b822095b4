CONSTANTS
    s1 = s1
    s2 = s2
    w1 = w1
    w2 = w2
    Shares = {s1, s2}
    Workers = {w1, w2}
    WorkerOf <- TwoWorkersOf
    MaxWorkers = 1
    MaxBacklog = 1
    HourLen = 2
    FineRetention = 0
    MaxFailures = 2
    MaxRestarts = 1
    MaxSteps = 1
    MaxTime = 2
SPECIFICATION LiveSpec
CHECK_DEADLOCK FALSE
INVARIANTS
    TypeOK
    NeverFiledEarly
    RowsNameTheirWorker
    ShutdownKeepsItsWord
    EveryShareOnce
PROPERTIES
    StagedIsFiled
