SPECIFICATION FairSpec
CONSTANTS
    u1 = u1
    u2 = u2
    u3 = u3
    Requests = {r1}
    Users <- MCUsers
    Owners <- MCOwners
    Policies <- MCPolicies
    Calls = {c1, c2}
INVARIANTS
    TypeOK
    OneCallRuns
    QuorumIsNotLost
PROPERTIES
    ImplementsContract
    EveryRequestEnds
CHECK_DEADLOCK FALSE
