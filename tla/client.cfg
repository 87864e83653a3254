SPECIFICATION FairSpec
CONSTANTS
    Call = {c1}
    Auth = {a1, a2}
    Context = {x1, x2}
    Method <- MCMethod
    NONE = NONE
    UNDEFINED = UNDEFINED
INVARIANTS
    TypeOK
    EffectsAreApproved
    OnlyAskedWhenDue
    RefusalIsFinal
    CredentialsAreOneGrant
PROPERTIES
    SessionChangesHands
    CallsEnd
    KeepsPromise
CHECK_DEADLOCK FALSE
