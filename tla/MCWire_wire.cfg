SPECIFICATION Spec
CONSTANTS
    Base = 256
    Masks <- MCMasks
    Domain <- MCDomain
    Challenge <- MCChallenge
    RetryRandom <- MCRetryRandom
    Sessions <- MCSessions
    MaxSession = 2
    X25519Size = 2
    P256Size = 3
    MaxSize <- MCMaxSize
    MaxCaptured = 150
    MaxProof = 150
    MaxCertificates = 3
    MaxCertificate = 2
    ServerHellos <- MCServerHellos
    Flights <- MCFlights
    Edits <- MCEdits
INVARIANTS
    HellosAgree
    ParserStaysInside
    OnlyFlightIsRefused
    CapturedIsAllowed
    ParsedIsWhole
