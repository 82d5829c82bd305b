SPECIFICATION Spec
CONSTANTS
    Bundles <- MCBundles
    Pinned = "pinned"
    BundleFlaw <- MCBundleFlaw
    Base = 4
    HexBase = 2
    HashSize = 2
    Target <- MCTarget
    Proofs <- MCProofs
    RootsVersion = 1
    MaxCandidates = 2
INVARIANTS
    PinnedRootsOnly
    BoundedExponentsOnly
    ReturnedVerifies
    TargetIsNumeric
