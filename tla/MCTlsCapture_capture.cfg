SPECIFICATION FairSpec
CONSTANTS
    Flights <- MCFlights
    UnitsOf <- MCUnits
    MaxFragment = 4
    MaxBuffer = 7
    Timeout = 2
    Faults <- MCFaults
INVARIANTS
    TypeOK
    CaptureIsSound
    ConformingIsCaptured
PROPERTIES
    LooksBeforeReading
    CaptureEnds
