----------------------------- MODULE Accounting -----------------------------
(***************************************************************************)
(* services/accounting/functions.py: trace_reconciliation,                 *)
(* calculate_days_to_pay and resolve_partner_from_move put their answer    *)
(* together from two or three reads, each an action here, while            *)
(* bookkeepers post, reconcile, undo reconciliations and delete entries in *)
(* between; the other functions are one read and one action.  Calls only   *)
(* read, so that one call at a time is enough.                             *)
(*                                                                         *)
(* A full reconciliation joins lines of several moves for as long as it    *)
(* exists; its id is never used again.                                     *)
(***************************************************************************)
EXTENDS Integers, FiniteSets, Functions

CONSTANTS
    Move,           \* account.move ids
    Invoice,        \* those that are invoices: the others have no invoice_date
    Line,           \* account.move.line ids
    Receivable,     \* those on receivable accounts, which can be reconciled
    MoveOf,         \* the move of each line
    amount,         \* debit - credit of each line
    name,           \* label of each line: "closing", "other", or empty
    Journal,        \* account.journal ids
    JournalType,    \* type of each journal
    journal_id,     \* the journal of each move
    Group,          \* full_reconcile_id values
    MaxDate,        \* dates are 0 .. MaxDate
    Partner,        \* res.partner ids
    partner_id,     \* partner of each move, or NONE
    NONE

AmountOf(L) == SumFunctionOnSet(amount, L)

Function ==
    {"trace_reconciliation", "calculate_days_to_pay", "resolve_partner_from_move",
     "get_cash_balance", "is_closing_entry", "get_cash_account_ids",
     "get_posted_move_lines"}

ASSUME AccountingConstants ==
    /\ Invoice \subseteq Move
    /\ Receivable \subseteq Line
    /\ MoveOf \in [Line -> Move]
    /\ amount \in [Line -> Int]
    /\ name \in [Line -> {"closing", "other", NONE}]
    /\ JournalType \in [Journal -> {"cash", "bank", "sale", "general"}]
    /\ journal_id \in [Move -> Journal]
    /\ MaxDate \in Nat
    /\ NONE \notin Group /\ NONE \notin Partner /\ NONE \notin 0 .. MaxDate
    /\ NONE \notin Function
    /\ IsFiniteSet(Line)
    /\ partner_id \in [Move -> Partner \cup {NONE}]

\* Odoo's rule of double entry: no unbalanced entry can be posted.
ASSUME DoubleEntry ==
    \A m \in Move : AmountOf({l \in Line : MoveOf[l] = m}) = 0

VARIABLES
    date,           \* accounting date of each move, and so of its lines
    invoice_date,   \* invoice_date, or empty
    existing,       \* moves that have not been deleted
    posted,         \* those that are posted: parent_state of their lines
    full_reconcile_id, \* of each line
    used            \* reconciliations there have ever been

VARIABLES
    pc, kind,       \* where the call is, and of which function
    move_id,        \* arguments
    move_line_id,
    full_rec_id,    \* what it has read
    payment_date, days_to_pay,  \* DaysToPayResult
    lines,          \* ReconciliationTrace, or the posted lines asked for
    partner,        \* ResolvedPartner
    answer          \* of the other functions

\* History: the move has been paid at every moment since the call began.
VARIABLE paid_throughout

booksVars == <<date, invoice_date>>
ledgerVars == <<existing, posted, full_reconcile_id, used>>
callVars == <<pc, kind, move_id, move_line_id, full_rec_id, payment_date, days_to_pay,
              lines, partner, answer>>
vars == <<booksVars, ledgerVars, callVars, paid_throughout>>

Date == 0 .. MaxDate

Init ==
    /\ date \in [Move -> Date]
    /\ invoice_date \in [Move -> Date \cup {NONE}]
    /\ \A m \in Move \ Invoice : invoice_date[m] = NONE
    /\ existing = Move
    /\ posted = {}
    /\ full_reconcile_id = [l \in Line |-> NONE]
    /\ used = {}
    /\ pc = "idle" /\ kind = NONE
    /\ move_id = NONE /\ move_line_id = NONE
    /\ full_rec_id = NONE
    /\ payment_date = NONE /\ days_to_pay = NONE
    /\ lines = {}
    /\ partner = NONE
    /\ answer = NONE
    /\ paid_throughout = FALSE

LinesOf(m) == {l \in Line : MoveOf[l] = m /\ m \in existing}

LinesIn(g) == {l \in Line : full_reconcile_id[l] = g}

Reconciled(m) == {l \in LinesOf(m) : full_reconcile_id[l] # NONE}

\* The move's receivable lines are all fully reconciled: payment_state "paid".
Paid(m) ==
    Reconciled(m) # {} /\ Reconciled(m) = LinesOf(m) \cap Receivable

-----------------------------------------------------------------------------
(* The bookkeepers *)

StillPaid == paid_throughout' = (paid_throughout /\ move_id \in Move /\ Paid(move_id)')

Reconcile(g, L) ==
    /\ g \notin used
    /\ \A l \in L : MoveOf[l] \in posted /\ full_reconcile_id[l] = NONE
    /\ Cardinality({MoveOf[l] : l \in L}) > 1
    /\ full_reconcile_id' = [l \in Line |-> IF l \in L THEN g ELSE full_reconcile_id[l]]
    /\ used' = used \cup {g}
    /\ UNCHANGED <<existing, posted, booksVars, callVars>>
    /\ StillPaid

Unreconcile(g) ==
    /\ LinesIn(g) # {}
    /\ full_reconcile_id' = [l \in Line |-> IF l \in LinesIn(g) THEN NONE
                                            ELSE full_reconcile_id[l]]
    /\ UNCHANGED <<existing, posted, used, booksVars, callVars>>
    /\ StillPaid

\* A draft is posted, or an entry no line of which is reconciled reset to draft.
SetState(m) ==
    /\ m \in existing
    /\ Reconciled(m) = {}
    /\ posted' = IF m \in posted THEN posted \ {m} ELSE posted \cup {m}
    /\ UNCHANGED <<existing, full_reconcile_id, used, booksVars, callVars>>
    /\ StillPaid

DeleteMove(m) ==
    /\ m \in existing \ posted
    /\ existing' = existing \ {m}
    /\ UNCHANGED <<posted, full_reconcile_id, used, booksVars, callVars>>
    /\ StillPaid

-----------------------------------------------------------------------------
(* trace_reconciliation *)

BeginTrace(l) ==
    /\ pc = "idle"
    /\ kind' = "trace_reconciliation"
    /\ move_line_id' = l
    /\ pc' = "trace_line"
    /\ UNCHANGED <<move_id, full_rec_id, payment_date, days_to_pay, lines, partner,
                   answer, booksVars, ledgerVars, paid_throughout>>

\* The line's full_reconcile_id: a line that is gone, or in none, has no trace.
ReadTracedLine ==
    /\ pc = "trace_line"
    /\ full_rec_id' = IF MoveOf[move_line_id] \in existing
                      THEN full_reconcile_id[move_line_id] ELSE NONE
    /\ pc' = IF full_rec_id' = NONE THEN "done" ELSE "trace_group"
    /\ UNCHANGED <<kind, move_id, move_line_id, payment_date, days_to_pay, lines, partner,
                   answer, booksVars, ledgerVars, paid_throughout>>

\* Fault: the lines of the traced line's own move are left out.
ReadGroup_OthersOnly ==
    /\ pc = "trace_group"
    /\ lines' = {l \in LinesIn(full_rec_id) : MoveOf[l] # MoveOf[move_line_id]}
    /\ pc' = "done"
    /\ UNCHANGED <<kind, move_id, move_line_id, full_rec_id, payment_date, days_to_pay,
                   partner, answer, booksVars, ledgerVars, paid_throughout>>

\* All lines with the same full_reconcile_id.
ReadGroup ==
    /\ pc = "trace_group"
    /\ lines' = LinesIn(full_rec_id)
    /\ pc' = "done"
    /\ UNCHANGED <<kind, move_id, move_line_id, full_rec_id, payment_date, days_to_pay,
                   partner, answer, booksVars, ledgerVars, paid_throughout>>

-----------------------------------------------------------------------------
(* calculate_days_to_pay *)

BeginDaysToPay(m) ==
    /\ pc = "idle"
    /\ kind' = "calculate_days_to_pay"
    /\ move_id' = m
    /\ paid_throughout' = Paid(m)
    /\ pc' = "move"
    /\ UNCHANGED <<move_line_id, full_rec_id, payment_date, days_to_pay, lines,
                   partner, answer, booksVars, ledgerVars>>

\* A move that is gone or has no invoice_date ends the call.
ReadMove ==
    /\ pc = "move"
    /\ pc' = IF move_id \in existing /\ invoice_date[move_id] # NONE
             THEN "line" ELSE "done"
    /\ UNCHANGED <<kind, move_id, move_line_id, full_rec_id, payment_date, days_to_pay,
                   lines, partner, answer, booksVars, ledgerVars, paid_throughout>>

\* One line of the move that is reconciled, limit=1 and no order: any of them.
ReadReconciledLine ==
    /\ pc = "line"
    /\ \/ /\ Reconciled(move_id) = {}
          /\ pc' = "done"
          /\ UNCHANGED full_rec_id
       \/ /\ \E l \in Reconciled(move_id) : full_rec_id' = full_reconcile_id[l]
          /\ pc' = "payments"
    /\ UNCHANGED <<kind, move_id, move_line_id, payment_date, days_to_pay, lines, partner,
                   answer, booksVars, ledgerVars, paid_throughout>>

\* Fault: a payment made in advance is not counted.
PaymentLines_AfterInvoice ==
    {l \in LinesIn(full_rec_id) :
        MoveOf[l] # move_id /\ date[MoveOf[l]] >= invoice_date[move_id]}

\* Fault: the move's own lines are not left out.
PaymentLines_All == LinesIn(full_rec_id)

\* The lines of that reconciliation that belong to other moves.
PaymentLines == {l \in LinesIn(full_rec_id) : MoveOf[l] # move_id}

\* max(days, 0)
Days(paid_on, invoiced_on) ==
    IF paid_on >= invoiced_on THEN paid_on - invoiced_on ELSE 0

\* order="date desc", limit=1
ReadPayments ==
    /\ pc = "payments"
    /\ \/ /\ PaymentLines = {}
          /\ UNCHANGED <<payment_date, days_to_pay>>
       \/ \E l \in PaymentLines :
              /\ \A k \in PaymentLines : date[MoveOf[k]] <= date[MoveOf[l]]
              /\ payment_date' = date[MoveOf[l]]
              /\ days_to_pay' = Days(date[MoveOf[l]], invoice_date[move_id])
    /\ pc' = "done"
    /\ UNCHANGED <<kind, move_id, move_line_id, full_rec_id, lines, partner, answer,
                   booksVars, ledgerVars, paid_throughout>>

-----------------------------------------------------------------------------
(* resolve_partner_from_move *)

BeginResolve(m) ==
    /\ pc = "idle"
    /\ kind' = "resolve_partner_from_move"
    /\ move_id' = m
    /\ pc' = "move_partner"
    /\ UNCHANGED <<move_line_id, full_rec_id, payment_date, days_to_pay, lines,
                   partner, answer, booksVars, ledgerVars, paid_throughout>>

\* The move's own partner_id; no other place is looked at.
ReadMovePartner ==
    /\ pc = "move_partner"
    /\ pc' = IF move_id \in existing /\ partner_id[move_id] # NONE
             THEN "partner" ELSE "done"
    /\ UNCHANGED <<kind, move_id, move_line_id, full_rec_id, payment_date, days_to_pay,
                   lines, partner, answer, booksVars, ledgerVars, paid_throughout>>

\* The partner's record, which may be gone once the move is.
ReadPartner ==
    /\ pc = "partner"
    /\ partner' \in {partner_id[move_id]} \cup (IF move_id \in existing THEN {} ELSE {NONE})
    /\ pc' = "done"
    /\ UNCHANGED <<kind, move_id, move_line_id, full_rec_id, payment_date, days_to_pay,
                   lines, answer, booksVars, ledgerVars, paid_throughout>>

-----------------------------------------------------------------------------
(* The functions that read once *)

Posted == {l \in Line : MoveOf[l] \in posted}

\* ("journal_id", "=", journal_id), ("parent_state", "=", "posted")
LinesOfJournal(j) == {l \in Posted : journal_id[MoveOf[l]] = j}

\* What a function returns, and its arguments if they are of interest.
Answer(function, value) ==
    /\ pc = "idle"
    /\ pc' = "done"
    /\ kind' = function
    /\ answer' = value
    /\ UNCHANGED <<move_id, move_line_id, full_rec_id, payment_date, days_to_pay,
                   partner, booksVars, ledgerVars, paid_throughout>>

get_cash_balance(j) ==
    /\ Answer("get_cash_balance", AmountOf(LinesOfJournal(j)))
    /\ UNCHANGED lines

\* is_closing_entry_from_lines: the lines cancel out and the name of one has
\* the word.  They come in any order, and lower() fails on a name that is empty
\* and so False.  No account is looked at.
ClosingAnswers(L) ==
    IF L = {} \/ AmountOf(L) # 0 THEN {"no"}
    ELSE LET names == {name[l] : l \in L}
         IN  (IF "closing" \in names THEN {"yes"} ELSE {})
                 \cup (IF NONE \in names THEN {"AttributeError"} ELSE {})
                 \cup (IF names = {"other"} THEN {"no"} ELSE {})

is_closing_entry(m) ==
    /\ \E value \in ClosingAnswers(LinesOf(m)) : Answer("is_closing_entry", value)
    /\ UNCHANGED lines

\* discover_cash_accounts, and the ids that get_cash_account_ids takes from it:
\* those of the journals.
get_cash_account_ids ==
    /\ Answer("get_cash_account_ids", {j \in Journal : JournalType[j] \in {"cash", "bank"}})
    /\ UNCHANGED lines

\* The caller's domain is one more condition, and with a limit some of the lines.
get_posted_move_lines(domain, limit) ==
    /\ lines' \in {L \in SUBSET (Posted \cap domain) :
                      \/ limit = NONE /\ L = Posted \cap domain
                      \/ limit # NONE /\ Cardinality(L) = limit
                      \/ limit # NONE /\ Cardinality(L) < limit /\ L = Posted \cap domain}
    /\ Answer("get_posted_move_lines", NONE)

-----------------------------------------------------------------------------

\* Any read may fail: the call ends with its exception.
Fail ==
    /\ pc \notin {"idle", "done", "failed"}
    /\ pc' = "failed"
    /\ UNCHANGED <<kind, move_id, move_line_id, full_rec_id, payment_date, days_to_pay,
                   lines, partner, answer, booksVars, ledgerVars, paid_throughout>>

Next ==
    \/ \E g \in Group : Unreconcile(g) \/ \E L \in SUBSET Receivable : Reconcile(g, L)
    \/ \E m \in Move :
           \/ SetState(m) \/ DeleteMove(m)
           \/ BeginDaysToPay(m) \/ BeginResolve(m) \/ is_closing_entry(m)
    \/ \E l \in Line : BeginTrace(l)
    \/ ReadTracedLine \/ ReadGroup
    \/ ReadMove \/ ReadReconciledLine \/ ReadPayments
    \/ ReadMovePartner \/ ReadPartner
    \/ \E j \in Journal : get_cash_balance(j)
    \/ get_cash_account_ids
    \/ \E m \in Move, limit \in {NONE, 1} :
           get_posted_move_lines({l \in Line : MoveOf[l] = m}, limit)
    \/ Fail

Spec == Init /\ [][Next]_vars

-----------------------------------------------------------------------------
(* Properties *)

\* The payment_date is the date of a line of another move that is at that moment
\* reconciled with one of the invoice, although the invoice's line was read
\* before.
PaymentIsReconciled ==
    [][payment_date' # payment_date =>
           \E i \in Reconciled(move_id), l \in Line :
               /\ MoveOf[l] # move_id
               /\ full_reconcile_id[l] = full_reconcile_id[i]
               /\ date[MoveOf[l]] = payment_date']_vars

\* docs/services/accounting.md: no days_to_pay means "Not yet paid".  An invoice
\* that was paid throughout the call, or in advance, has days_to_pay, which are not
\* negative.
PaidIsSeen ==
    pc = "done" /\ paid_throughout /\ invoice_date[move_id] # NONE =>
        days_to_pay # NONE /\ days_to_pay >= 0

\* A trace is whole: whatever is undone, reconciled anew or deleted between its
\* two reads, trace_reconciliation returns the line it was asked for together
\* with a line of another move, or else no lines (although the id it has read).
TraceIsWhole ==
    kind = "trace_reconciliation" /\ pc = "done" /\ lines # {} =>
        /\ move_line_id \in lines
        /\ \E l \in lines : MoveOf[l] # MoveOf[move_line_id]

-----------------------------------------------------------------------------
(* The inductive invariant the proofs rest on *)

\* Every variable has its type; what answer holds depends on the function.
TypeOK ==
    /\ date \in [Move -> Date]
    /\ invoice_date \in [Move -> Date \cup {NONE}]
    /\ existing \in SUBSET Move
    /\ posted \in SUBSET existing
    /\ full_reconcile_id \in [Line -> Group \cup {NONE}]
    /\ used \in SUBSET Group
    /\ pc \in {"idle", "trace_line", "trace_group", "move", "line", "payments",
               "move_partner", "partner", "done", "failed"}
    /\ kind \in Function \cup {NONE}
    /\ move_id \in Move \cup {NONE}
    /\ move_line_id \in Line \cup {NONE}
    /\ full_rec_id \in Group \cup {NONE}
    /\ payment_date \in Date \cup {NONE}
    /\ days_to_pay \in Date \cup {NONE}
    /\ lines \in SUBSET Line
    /\ partner \in Partner \cup {NONE}
    /\ paid_throughout \in BOOLEAN

\* A reconciled line is posted, and a reconciliation that exists has been used
\* up and joins at least two moves.
LedgerOK ==
    /\ \A l \in Line :
           full_reconcile_id[l] # NONE =>
               MoveOf[l] \in posted /\ full_reconcile_id[l] \in used
    /\ \A g \in Group, m \in Move :
           LinesIn(g) # {} => \E l \in LinesIn(g) : MoveOf[l] # m

\* The call along its way: the reconciliation it has read is one of a line of its
\* move, or is gone for good; and it has seen no end of a move that is paid.
CallOK ==
    /\ pc = "trace_line" => move_line_id \in Line
    /\ pc \in {"move", "line", "payments", "move_partner", "partner"} => move_id \in Move
    /\ pc \in {"line", "payments"} => invoice_date[move_id] # NONE
    /\ pc = "payments" =>
           /\ full_rec_id \in used
           /\ \/ LinesIn(full_rec_id) = {} /\ ~paid_throughout
              \/ \E i \in Reconciled(move_id) : full_reconcile_id[i] = full_rec_id
    /\ paid_throughout =>
           /\ pc \in {"move", "line", "payments", "done", "failed"}
           /\ kind = "calculate_days_to_pay"
           /\ move_id \in Move /\ Paid(move_id)

\* The reconciliation a trace has read is one of its line, or is gone for good.
TraceOK ==
    /\ pc # "done" => lines = {}
    /\ pc = "trace_group" =>
           /\ full_rec_id \in used
           /\ LinesIn(full_rec_id) = {} \/ move_line_id \in LinesIn(full_rec_id)
    /\ TraceIsWhole

\* What get_cash_balance returns: it adds up both sides of every entry of the
\* journal, and entries balance.  (No promise of the code's, whose docstring says
\* "the current balance for a cash/bank journal".)
BothSides == kind = "get_cash_balance" => answer = 0

AccountingInv == TypeOK /\ LedgerOK /\ CallOK /\ TraceOK /\ PaidIsSeen /\ BothSides

=============================================================================
