SPECIFICATION FairSpec
CONSTANTS
    Row <- MCRow
    Msg <- MCMsg
    MsgOf <- MCMsgOf
    Model = {sale, other}
    Res = {res1, res2}
    Field = {f1}
    model = sale
    BatchSizes = {1, 2}
    MaxFailures = 1
    NONE = NONE
INVARIANTS
    NothingSkipped
PROPERTIES
    KeepsPromise
    CompleteAtReturn
    EventuallyHandled
CHECK_DEADLOCK FALSE
