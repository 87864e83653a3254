SPECIFICATION Spec
CONSTANTS
    Move <- MCMove
    Invoice <- MCInvoice
    Line <- MCLine
    Receivable <- MCReceivable
    MoveOf <- MCMoveOf
    amount <- MCamount
    name <- MCname
    Journal <- MCJournal
    JournalType <- MCJournalType
    journal_id <- MCjournal_id
    Group = {g1, g2}
    MaxDate = 1
    Partner <- MCPartner
    partner_id <- MCpartner_id
    NONE = NONE
SYMMETRY Symmetry
INVARIANTS
    PaidIsSeen
    TraceIsWhole
PROPERTIES
    PaymentIsReconciled
CHECK_DEADLOCK FALSE
