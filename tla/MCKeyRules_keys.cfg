SPECIFICATION Spec
CONSTANTS
    Base = 256
    Sha256 <- MCSha256
    Mgf1 <- MCMgf1
    IdRsassaPss <- MCIdRsassaPss
    MaxLengthBytes = 2
    MaxIntegerBytes = 4
    Leaves <- MCLeaves
INVARIANTS
    RestrictionsAreExact
    DerIsExact
