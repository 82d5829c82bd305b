SPECIFICATION Spec
CONSTANTS
    HashDigits = 2
    MaxIndex = 3
    MaxValidationTime = 6
    MaxDate = 4
    MaxLabel = 3
    MaxDomain = 5
    MaxPort = 2
    MaxConcurrency = 2
    NotFinite = 1000
    MaxSeconds = 2
    MaxFloat = 2
    Parsable = {"global4", "global6", "link", "private"}
    GlobalIps = {"global4", "global6"}
    Concurrency = 2
    MaxAttempts = 3
    OverallTimeout = 1
    AttemptCap = 3
    Keeper = Keeper
    Replacer = Replacer
    Nothing = Nothing
    Foreign = Foreign
    Arguments <- MCArguments
    Bundles <- MCBundles
    DnsAnswers <- MCDnsAnswers
INVARIANTS
    StatusIsTrue
    StartedContextIsUsable
    ConnectionsAreSpread
