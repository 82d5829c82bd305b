SPECIFICATION Spec
CONSTANTS
    w1 = w1
    w2 = w2
    w3 = w3
    t1 = t1
    t2 = t2
    t3 = t3
    Dest = Dest
    Nothing = Nothing
    Foreign = Foreign
    Writers = {w1, w2, w3}
    Overwriters = {w1}
    StagingNames = {t1, t2}
    Faults <- MCFaultsReuse
INVARIANTS
    StagingIsExclusive
    NoStagingLeft
PROPERTIES
    AtomicSpec
