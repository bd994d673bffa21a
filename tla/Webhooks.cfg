SPECIFICATION FairSpec
CONSTANTS
    Owners = {"workspace", "org"}
    Events = {e1}
    Workers = {w1, w2}
    MaxRetries = 1
    JobRetries = 1
    MaxCrashes = 2
    MaxResends = 1
INVARIANTS
    NoEventVanishes
PROPERTIES
    DeliveriesEnd
CHECK_DEADLOCK FALSE
