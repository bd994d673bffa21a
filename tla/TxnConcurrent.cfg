SPECIFICATION TxnSpec
CONSTANTS
    Workers = {w1, w2}
    NoWorker = NoWorker
    MaxVersions = 3
    MaxEvents = 3
    KeepVersions = 1
    Overrides = {TRUE, FALSE}
INVARIANTS
    TxnTypeOK
    SnapshotIsExact
    ChainIsLinear
PROPERTIES
    EveryChangeIsRecorded
    IsolatedImplementsContract
CHECK_DEADLOCK FALSE
