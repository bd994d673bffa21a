SPECIFICATION ClientFairSpec
CONSTANTS
    Users = {"nobody", "u1"}
    NoUser = "nobody"
    Options <- Pages
    MaxChanges = 1
    MaxSwitches = 2
    MaxOutages = 1
INVARIANTS
    ClientTypeOK
    OnePollLoop
    EtagOfWhatIsShown
PROPERTIES
    CatchesUp
CHECK_DEADLOCK FALSE
