SPECIFICATION Spec
CONSTANTS
    Call = {c1, c2}
    Old = {o1, o2}
    Employee = {e1, e2}
    User = {u1}
    MaxTime = 2
    NONE = NONE
SYMMETRY Symmetry
INVARIANTS
    AtMostOneOpen
PROPERTIES
    ClosedStays
    RefusedRightly
CHECK_DEADLOCK FALSE
