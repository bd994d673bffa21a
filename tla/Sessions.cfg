SPECIFICATION SessionsSpec
CONSTANTS
    Families = {f1}
    MaxTokens = 3
    MaxStep = 1
    Calls = {c1, c2, c3}
SYMMETRY Symmetry
INVARIANTS
    SessionsTypeOK
    RotationIsLinear
    EndedStaysEnded
    CodesWorkOnce
CHECK_DEADLOCK FALSE
