SPECIFICATION FairSpec
CONSTANTS
    Operations = {o1, o2, o3}
    Runs = {r1, r2}
    Batch = 2
INVARIANTS
    MadeAtMostOnce
PROPERTIES
    OperationsFinish
CHECK_DEADLOCK FALSE
