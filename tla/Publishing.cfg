SPECIFICATION FairSpec
CONSTANTS
    Workers = {w1}
    Inline = {i1}
    Jobs = {j1, j2}
    Retries = 1
    MaxChanges = 3
INVARIANTS
    NothingForgotten
PROPERTIES
    CopiesCatchUp
CHECK_DEADLOCK FALSE
