SPECIFICATION FairSpec
CONSTANTS
    staging = staging
    production = production
    Rows = 3
    Envs = {staging, production}
    MaxVersions = 3
    Limit <- MCLimit
    Percents = {0, 20}
    Bands <- MCBands
    KeepVersions = 1
    Freezes <- MCFreezes
INVARIANTS
    TypeOK
    OneVersionEach
    CanaryWellFormed
PROPERTIES
    FreezeHolds
    ImplementsContract
    RolloutsEnd
CHECK_DEADLOCK FALSE
