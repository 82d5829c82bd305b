SPECIFICATION FairSpec
CONSTANTS
    Concurrency = 2
    MaxAttempts = 0
    OverallTimeout = 0
    ConnectionTimeout = 2
    Interval = 1
    WorkTarget = 1
    Works <- MCWorks
    AttemptCap = 3
    MaxTime = 0
PROPERTIES
    GoodProofEndsSearch
