SPECIFICATION Spec
CONSTANTS
    Call = {c1}
    Auth = {a1}
    Context = {x1}
    Method <- MCMethod
    NONE = NONE
    UNDEFINED = UNDEFINED
PROPERTIES
    DefaultGuards
CHECK_DEADLOCK FALSE
