SPECIFICATION FairSpec
CONSTANTS
    MaxEvents = 2
    Batch = 2
    MaxFailures = 2
    MaxPatches = 1
    MaxCrashes = 1
    Runs = {r1, r2}
INVARIANTS
    NothingSkipped
PROPERTIES
    EventuallyStreamed
CHECK_DEADLOCK FALSE
