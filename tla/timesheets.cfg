SPECIFICATION TimersSpec
CONSTANTS
    Call = {c1, c2, c3}
    MaxTime = 3
    MaxSkew = 1
    MaxHours = 1
    NIL = NIL
SYMMETRY Symmetry
INVARIANTS
    HoursAreReal
    StoppedNotRunning
CHECK_DEADLOCK FALSE
