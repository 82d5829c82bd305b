SPECIFICATION TimedSpec
CONSTANTS
    Concurrency = 2
    MaxAttempts = 0
    OverallTimeout = 5
    ConnectionTimeout = 4
    Interval = 3
    WorkTarget = 1
    Works <- MCWorks
    AttemptCap = 3
    MaxTime = 8
    PollingPeriod = 2
INVARIANT ReadmeOverallTimeoutBoundsRun
