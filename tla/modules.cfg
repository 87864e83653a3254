SPECIFICATION FairSpec
CONSTANTS
    Job = {j1, j2}
    Module = {sale}
    NONE = NONE
INVARIANTS
    ButtonAtMostOnce
    LockedOutOnlyAtTheEnd
    InfoIsUpdated
    RaisedEarlyChangesNothing
PROPERTIES
    JobsEnd
CHECK_DEADLOCK FALSE
