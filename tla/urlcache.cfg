SPECIFICATION Spec
CONSTANTS
    Client = {cl1, cl2}
    Address = {ad1, ad2}
    Server = {s1, s2}
    Version = {v1}
    GetBaseUrl = {g1, g2}
    NONE = NONE
SYMMETRY Symmetry
INVARIANTS
    UrlOfOwnServer
    ForcedIsCurrent
CHECK_DEADLOCK FALSE
