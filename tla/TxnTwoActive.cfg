SPECIFICATION TxnSpec
CONSTANTS
    Workers = {w1, w2}
    NoWorker = NoWorker
    MaxVersions = 3
    MaxEvents = 3
    KeepVersions = 1
    Overrides = {FALSE}
INVARIANTS
    OneActiveVersion
CHECK_DEADLOCK FALSE
