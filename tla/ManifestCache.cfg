SPECIFICATION FairSpec
CONSTANTS
    Replicas = {r1, r2}
    MayFail = TRUE
INVARIANTS
    TypeOK
PROPERTIES
    CacheCatchesUp
    LkgCatchesUp
    LkgStays
CHECK_DEADLOCK FALSE
