----------------------------- MODULE ChangeFeed -----------------------------
(***************************************************************************)
(* What get_feed promises a consumer that resumes with since_id, with no   *)
(* page, no cursor and no read in sight: a log to which transactions add   *)
(* rows and from which messages are deleted, and a list of events that     *)
(* grows by one row at a time.                                             *)
(***************************************************************************)
EXTENDS Naturals, Sequences

CONSTANTS
    Row,            \* ids of rows, in the order they are drawn
    Msg,            \* messages
    MsgOf           \* the message each row belongs to

VARIABLES
    wanted,         \* the rows of the changes that were asked for
    committed,      \* messages whose transaction has committed
    deleted,        \* messages deleted since
    overtaken,      \* rows that committed after a row with a higher id
    handled         \* the events so far

vars == <<wanted, committed, deleted, overtaken, handled>>

Existing == {r \in Row : MsgOf[r] \in committed \ deleted}

Handled == {handled[i] : i \in 1 .. Len(handled)}

Init ==
    /\ wanted \in SUBSET Row
    /\ committed = {}
    /\ deleted = {}
    /\ overtaken = {}
    /\ handled = <<>>

Commit(m) ==
    /\ m \notin committed
    /\ committed' = committed \cup {m}
    /\ overtaken' = overtaken \cup
           {r \in Row : MsgOf[r] = m /\ \E s \in Row : MsgOf[s] \in committed /\ r < s}
    /\ UNCHANGED <<wanted, deleted, handled>>

Delete(m) ==
    /\ m \in committed \ deleted
    /\ deleted' = deleted \cup {m}
    /\ UNCHANGED <<wanted, committed, overtaken, handled>>

\* The next event lies above the last one, and was asked for unless its message
\* is gone, so that nobody can tell; and no row that was asked for lies between
\* the two, but for those that came too late.
Deliver(r) ==
    /\ MsgOf[r] \in committed
    /\ \A s \in Handled : s < r
    /\ r \in wanted \/ MsgOf[r] \in deleted
    /\ \A s \in (Existing \cap wanted) \ overtaken : s < r => s \in Handled
    /\ handled' = Append(handled, r)
    /\ UNCHANGED <<wanted, committed, deleted, overtaken>>

Next ==
    \/ \E m \in Msg : Commit(m) \/ Delete(m)
    \/ \E r \in Row : Deliver(r)

Spec == Init /\ [][Next]_vars

=============================================================================
