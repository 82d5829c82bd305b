SPECIFICATION FairSpec
CONSTANTS
    Concurrency = 2
    MaxAttempts = 2
    OverallTimeout = 0
    ConnectionTimeout = 2
    Interval = 1
    WorkTarget = 1
    Works <- MCWorks
    AttemptCap = 2
    MaxTime = 1
PROPERTIES
    Termination
