------------------------------ MODULE CdcFeed ------------------------------
(***************************************************************************)
(* The change feed of services/cdc/functions.py: get_feed reads            *)
(* mail.tracking.value page by page in the order of the rows' ids, while   *)
(* the server keeps tracking changes and deleting messages, and a consumer *)
(* that iterates the feed, may stop or lose the connection at any point,   *)
(* and resumes with since_id = the last event it has handled.              *)
(*                                                                         *)
(* get_feed awaits each read and is suspended at each yield; an action is  *)
(* what runs between two of these points, or one turn of the for loop.     *)
(* The field metadata get_feed also awaits shapes the values of an event,  *)
(* which are not modelled: an event is the id of its row.                  *)
(*                                                                         *)
(* A mail.message carries the model and the record of a change and owns    *)
(* its tracking rows: they are created with it in one transaction and      *)
(* deleted with it.                                                        *)
(***************************************************************************)
EXTENDS Naturals, Sequences, FiniteSets

CONSTANTS
    Row,            \* ids of mail.tracking.value, in the order they are drawn
    Msg,            \* mail.message records
    MsgOf,          \* the message of each row
    Model,          \* models with tracked fields
    Res,            \* records of those models
    Field,          \* tracked fields
    model,          \* options.model
    BatchSizes,     \* values of options.batch_size
    MaxFailures,    \* bound on feeds that end in an exception
    NONE            \* Python's None

ASSUME LogAssumption ==
    /\ Row \subseteq Nat \ {0} /\ IsFiniteSet(Row)
    /\ MsgOf \in [Row -> Msg]
    /\ BatchSizes \subseteq Nat \ {0}
    /\ MaxFailures \in Nat
    /\ \A S \in SUBSET Res : NONE # S

VARIABLES
    about,          \* [model, res] of every message, field of every row
    options,        \* GetFeedOptions without the model and since_id
    committed,      \* messages whose transaction has committed
    deleted,        \* messages deleted since
    at,             \* where get_feed is
    cursor,         \* get_feed's cursor
    messages,       \* the messages read for res_ids
    page,           \* tracking_rows still to be looked at
    full,           \* tracking_rows had batch_size rows
    msg_map,        \* the messages whose data get_feed has
    handled,        \* ids of the events the consumer has handled, in order
    failures        \* feeds that have ended in an exception

\* History: the rows there were when the feed last began to read a page, and
\* those whose transaction committed after one with higher ids.
VARIABLES horizon, overtaken

serverVars == <<about, options, committed, deleted, overtaken>>
feedVars == <<at, cursor, messages, page, full, msg_map>>
consumerVars == <<handled, failures>>
vars == <<serverVars, feedVars, consumerVars, horizon>>

-----------------------------------------------------------------------------
(* The server's log *)

RowsOf(m) == {r \in Row : MsgOf[r] = m}

ExistingMsg == committed \ deleted

Existing == {r \in Row : MsgOf[r] \in ExistingMsg}

ModelOf(r) == about.model[MsgOf[r]]

InFields(r) == options.field_names = {} \/ about.field[r] \in options.field_names

\* What the consumer asked for: what the feed owes it.
Wanted(r) ==
    /\ ModelOf(r) = model
    /\ options.res_ids # NONE => about.res[MsgOf[r]] \in options.res_ids
    /\ InFields(r)

\* Ids are drawn when a row is inserted and seen when its transaction commits.
Commit(m) ==
    /\ m \notin committed
    /\ committed' = committed \cup {m}
    /\ overtaken' = overtaken \cup
                     {r \in RowsOf(m) : \E s \in Row : MsgOf[s] \in committed /\ r < s}
    /\ UNCHANGED <<about, options, deleted, feedVars, consumerVars, horizon>>

Delete(m) ==
    /\ m \in ExistingMsg
    /\ deleted' = deleted \cup {m}
    /\ UNCHANGED <<about, options, committed, overtaken, feedVars, consumerVars, horizon>>

-----------------------------------------------------------------------------

Init ==
    /\ about \in [model : [Msg -> Model], res : [Msg -> Res], field : [Row -> Field]]
    /\ options \in [res_ids : {NONE} \cup SUBSET Res,
                    field_names : SUBSET Field,
                    batch_size : BatchSizes]
    /\ committed = {}
    /\ deleted = {}
    /\ at = "stopped"
    /\ cursor = 0
    /\ messages = {}
    /\ page = {}
    /\ full = FALSE
    /\ msg_map = {}
    /\ handled = <<>>
    /\ failures = 0
    /\ horizon = {}
    /\ overtaken = {}

Least(S) == CHOOSE x \in S : \A y \in S : x <= y

\* Fault: order="id desc", as get_history has it.
FirstRows_Descending(S, n) == {r \in S : Cardinality({s \in S : s > r}) < n}

\* order="id asc", limit=n
FirstRows(S, n) == {r \in S : Cardinality({s \in S : s < r}) < n}

last_seen == IF handled = <<>> THEN 0 ELSE handled[Len(handled)]

\* The top of the while loop: whether messages or rows are read first.
top == IF options.res_ids # NONE THEN "messages" ELSE "rows"

\* A new feed, from where the consumer left off.
Start ==
    /\ at = "stopped"
    /\ cursor' = last_seen
    /\ at' = top
    /\ horizon' = Existing
    /\ UNCHANGED <<messages, page, full, msg_map, serverVars, consumerVars>>

\* The generator returns or is dropped, and its locals with it.
Ended ==
    /\ at' = "stopped"
    /\ cursor' = 0
    /\ messages' = {}
    /\ page' = {}
    /\ full' = FALSE
    /\ msg_map' = {}
    /\ horizon' = {}

\* res_ids: the messages of the wanted records; none at all ends the feed.
ReadMessages ==
    /\ at = "messages"
    /\ LET found == {m \in ExistingMsg : /\ about.model[m] = model
                                         /\ about.res[m] \in options.res_ids}
       IN  \/ found = {} /\ Ended
           \/ /\ found # {}
              /\ messages' = found
              /\ msg_map' = found
              /\ at' = "rows"
              /\ UNCHANGED <<cursor, page, full, horizon>>
    /\ UNCHANGED <<serverVars, consumerVars>>

\* Fault: the domain has ">=" for ">".
Matching_FromCursor ==
    {r \in Existing :
        /\ r >= cursor
        /\ options.res_ids # NONE => MsgOf[r] \in messages
        /\ InFields(r)}

\* The rows above the cursor, of those messages or of any message at all.
Matching ==
    {r \in Existing :
        /\ r > cursor
        /\ options.res_ids # NONE => MsgOf[r] \in messages
        /\ InFields(r)}

Tracking == FirstRows(Matching, options.batch_size)

ReadRows ==
    /\ at = "rows"
    /\ \/ Tracking = {} /\ Ended
       \/ /\ Tracking # {}
          /\ page' = Tracking
          /\ full' = (Cardinality(Tracking) >= options.batch_size)
          /\ at' = IF options.res_ids = NONE THEN "annotate" ELSE "loop"
          /\ UNCHANGED <<cursor, messages, msg_map, horizon>>
    /\ UNCHANGED <<serverVars, consumerVars>>

\* Without res_ids the messages of the page are read after its rows: those
\* deleted in between are missing from msg_map.
ReadMsgMap ==
    /\ at = "annotate"
    /\ msg_map' = {MsgOf[r] : r \in page} \cap ExistingMsg
    /\ at' = "loop"
    /\ UNCHANGED <<cursor, messages, page, full, serverVars, consumerVars, horizon>>

\* The row's message is known and belongs to another model.
Foreign(r) ==
    /\ options.res_ids = NONE
    /\ MsgOf[r] \in msg_map
    /\ ModelOf(r) # model

\* Fault: the cursor only moves when an event is yielded.
SkipRow_NoCursor ==
    /\ at = "loop"
    /\ page # {}
    /\ Foreign(Least(page))
    /\ page' = page \ {Least(page)}
    /\ UNCHANGED <<at, cursor, messages, full, msg_map, serverVars, consumerVars,
                   horizon>>

\* continue: the cursor moves on although nothing is yielded.
SkipRow ==
    /\ at = "loop"
    /\ page # {}
    /\ Foreign(Least(page))
    /\ cursor' = Least(page)
    /\ page' = page \ {Least(page)}
    /\ UNCHANGED <<at, messages, full, msg_map, serverVars, consumerVars, horizon>>

YieldRow ==
    /\ at = "loop"
    /\ page # {}
    /\ ~Foreign(Least(page))
    /\ at' = "yielded"
    /\ UNCHANGED <<cursor, messages, page, full, msg_map, serverVars,
                   consumerVars, horizon>>

\* The consumer has handled the event and asks for the next one: get_feed goes
\* on after its yield.
Handle ==
    /\ at = "yielded"
    /\ handled' = Append(handled, Least(page))
    /\ cursor' = Least(page)
    /\ page' = page \ {Least(page)}
    /\ at' = "loop"
    /\ UNCHANGED <<messages, full, msg_map, serverVars, failures, horizon>>

\* Fault: the feed ends with its first page.
EndPage_First ==
    /\ at = "loop"
    /\ page = {}
    /\ Ended
    /\ UNCHANGED <<serverVars, consumerVars>>

\* The page is used up: a short one was the last.
EndPage ==
    /\ at = "loop"
    /\ page = {}
    /\ \/ ~full /\ Ended
       \/ /\ full
          /\ at' = top
          /\ horizon' = Existing
          /\ full' = FALSE
          /\ messages' = {}
          /\ msg_map' = {}
          /\ UNCHANGED <<cursor, page>>
    /\ UNCHANGED <<serverVars, consumerVars>>

\* A read raises, or the consumer leaves the loop before it has handled the
\* event it holds: the generator and its cursor are gone.
Break ==
    /\ at \in {"messages", "rows", "annotate", "yielded"}
    /\ failures < MaxFailures
    /\ failures' = failures + 1
    /\ Ended
    /\ UNCHANGED <<serverVars, handled>>

-----------------------------------------------------------------------------

FeedStep ==
    \/ ReadMessages \/ ReadRows \/ ReadMsgMap
    \/ SkipRow \/ YieldRow \/ Handle \/ EndPage

Next ==
    \/ \E m \in Msg : Commit(m) \/ Delete(m)
    \/ Start
    \/ FeedStep
    \/ Break

\* Reads return, and the consumer handles what it is given, reads on, and
\* starts a new feed after each.  Nothing has to be committed or deleted.
Fairness == WF_vars(Start) /\ WF_vars(FeedStep)

Spec == Init /\ [][Next]_vars

FairSpec == Spec /\ Fairness

-----------------------------------------------------------------------------
(* Properties *)

\* Every variable has its type.
TypeOK ==
    /\ about \in [model : [Msg -> Model], res : [Msg -> Res], field : [Row -> Field]]
    /\ options \in [res_ids : {NONE} \cup SUBSET Res,
                    field_names : SUBSET Field,
                    batch_size : BatchSizes]
    /\ committed \in SUBSET Msg
    /\ deleted \in SUBSET committed
    /\ at \in {"stopped", "messages", "rows", "annotate", "loop", "yielded"}
    /\ cursor \in Row \cup {0}
    /\ messages \in SUBSET Msg
    /\ page \in SUBSET Row
    /\ full \in BOOLEAN
    /\ msg_map \in SUBSET Msg
    /\ handled \in Seq(Row)
    /\ failures \in 0 .. MaxFailures
    /\ horizon \in SUBSET Row
    /\ overtaken \in SUBSET Row

HandledRows == {handled[i] : i \in 1 .. Len(handled)}

\* What the consumer can count on: the wanted rows that are there, but for those
\* whose transaction committed after one with higher ids.
Owed == {r \in Existing \ overtaken : Wanted(r)}

\* docs/services/cdc.md: the id cursor keeps events from being "skipped".
\* A wanted row that is still there and lies at or below the last handled one
\* has been handled, on whichever page or feed it was read, unless its
\* transaction committed after one with higher ids.
NothingSkipped ==
    \A r \in Owed : r <= last_seen => r \in HandledRows

Promise == INSTANCE ChangeFeed WITH wanted <- {r \in Row : Wanted(r)}

\* docs/services/cdc.md: with an id cursor no events are "skipped or
\* duplicated".  Across pages, failures and resumed feeds, whose reads see the
\* log at different times, the events are those of ChangeFeed: each above the
\* last, none skipped, none foreign unless its message is gone.
KeepsPromise == Promise!Spec

\* A feed that ends by itself has handed out everything that was there when it
\* began to read its last page, but for the rows a cursor cannot find.
CompleteAtReturn ==
    [][at # "stopped" /\ at' = "stopped" /\ failures' = failures =>
         horizon \cap Owed \subseteq HandledRows]_vars

\* A consumer that keeps resuming handles every wanted change in the end, unless
\* its message is deleted first or it was committed out of order, even when
\* page after page holds nothing but other models' rows.
EventuallyHandled ==
    \A r \in Row :
        r \in Existing /\ Wanted(r)
            ~> r \in HandledRows \/ r \notin Existing \/ r \in overtaken

-----------------------------------------------------------------------------
(* The inductive invariant the proofs rest on *)

\* The events are committed rows in the order of their ids, none above a
\* cursor; and the feed knows of nothing that is not committed.
LogOK ==
    /\ \A i, j \in 1 .. Len(handled) : i < j => handled[i] < handled[j]
    /\ \A r \in HandledRows \cup page \cup horizon : MsgOf[r] \in committed
    /\ cursor # 0 => MsgOf[cursor] \in committed
    /\ messages \subseteq committed
    /\ at # "stopped" => last_seen <= cursor

\* With res_ids, a wanted row whose message was not among those read lies above
\* every row whose message was, and was not there when the page began.
MessagesOK ==
    /\ at = "messages" => options.res_ids # NONE
    /\ at = "annotate" => options.res_ids = NONE
    /\ options.res_ids # NONE =>
           \A m \in messages : about.model[m] = model /\ about.res[m] \in options.res_ids
    /\ options.res_ids # NONE /\ at \in {"rows", "loop", "yielded"} =>
           \A r \in Owed : \/ MsgOf[r] \in messages
                           \/ /\ r \notin horizon
                              /\ \A p \in Row : MsgOf[p] \in messages => p < r

\* A page lies above the cursor and no row that is owed is missing between its
\* rows; the message of each is known or gone.
PageOK ==
    /\ at \in {"stopped", "messages", "rows"} => page = {}
    /\ \A p \in page :
           /\ cursor < p
           /\ InFields(p)
           /\ options.res_ids # NONE => MsgOf[p] \in messages
           /\ options.res_ids = NONE /\ at \in {"loop", "yielded"} =>
                  MsgOf[p] \in msg_map \cup deleted
           /\ \A r \in Owed : cursor < r /\ r < p => r \in page
    /\ at = "yielded" => page # {} /\ ~Foreign(Least(page))

\* How far the consumer has been brought.
Reached == IF at = "stopped" THEN last_seen ELSE cursor

\* What is owed up to there is handled, and after a short page the rest of what
\* was there when the page began is on it.
PassedOK ==
    /\ \A r \in Owed : r <= Reached => r \in HandledRows
    /\ at \in {"annotate", "loop", "yielded"} /\ ~full =>
           \A r \in horizon \cap Owed : r <= cursor \/ r \in page

FeedInv == TypeOK /\ LogOK /\ MessagesOK /\ PageOK /\ PassedOK

=============================================================================
