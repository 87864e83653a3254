SPECIFICATION Spec
CONSTANTS
    Row <- MCRow
    Msg <- MCMsg
    MsgOf <- MCMsgOf
    Res = {"r1", "r2"}
    MaxDate = 1
    Limits <- MCLimits
    Scenario <- MCScenario
    GetHistory = h
    Reader = {h, other}
    Db = {d1}
    Model = {"sale.order", "crm.lead"}
    Field = {"f", "g"}
    Type = {"char", "many2one"}
    CHAR = "char"
    NONE = NONE
    Pages = 1
INVARIANTS
    Complete
    NewestKept
    ValuesAreShown
    NeverInvented
CHECK_DEADLOCK FALSE
