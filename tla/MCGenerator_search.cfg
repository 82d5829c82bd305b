SPECIFICATION Spec
CONSTANTS
    Concurrency = 2
    MaxAttempts = 3
    OverallTimeout = 3
    ConnectionTimeout = 2
    Interval = 1
    WorkTarget = 1
    Works <- MCWorks
    AttemptCap = 4
    MaxTime = 3
INVARIANTS
    BoundedConcurrency
    Accounting
    RateLimit
    ReturnedProofIsGood
    NoGoodProofSetAside
    ExhaustedMeansNoneGood
    CleanExit
    BestIsLeast
    PreflightIsEarned
PROPERTIES
    SearchSpec
