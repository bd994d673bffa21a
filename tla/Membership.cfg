SPECIFICATION Spec
CONSTANTS
    Users = {u1, u2}
    Owner = 2
    SteppedDown = 1
    Proposals = {p1}
    Workers = {w1, w2}
INVARIANTS
    TypeOK
    OwnerRemains
    KeysEndWithMembership
SYMMETRY Symmetry
CHECK_DEADLOCK FALSE
