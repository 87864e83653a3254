SPECIFICATION Spec
CONSTANTS
    Post = {p1, p2}
    MaxTries = 2
    NONE = NONE
INVARIANTS
    AtMostOneMessage
    ClassTellsEffect
    PostedAsAsked
CHECK_DEADLOCK FALSE
