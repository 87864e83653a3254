----------------------------- MODULE CdcHistory -----------------------------
(***************************************************************************)
(* services/cdc/functions.py, get_history: the newest messages of a record *)
(* are read first, the tracking values of those messages second, and the   *)
(* types of their fields last, which resolver.py needs to tell in which    *)
(* columns a row holds its values.  Each read is one action; messages are  *)
(* committed and deleted in between, and take their tracking values with   *)
(* them.                                                                   *)
(*                                                                         *)
(* The last read is ensure_fields_cached: get_history is one Reader of an  *)
(* instance of FieldCache, beside the other readers of the process.        *)
(***************************************************************************)
EXTENDS Naturals, FiniteSets, Resolver

CONSTANTS
    Row,            \* mail.tracking.value ids
    Msg,            \* mail.message ids
    MsgOf,          \* the message each row belongs to
    Res,            \* records of the model
    MaxDate,        \* dates are 0 .. MaxDate
    Limits,         \* values options.limit may have, NONE among them
    Scenario,       \* the starting points that are looked at
    GetHistory      \* the Reader that get_history is

\* Constants of FieldCache.
CONSTANTS Reader, Db, Model, Field, Type, CHAR, NONE, Pages

\* The log: the messages that are ever posted, record and date of each, field
\* of each row.
VARIABLES about, committed, deleted

\* The call.
VARIABLES
    pc,             \* where it is
    res_id, options,\* its arguments
    messages,       \* the messages it has read
    events,         \* the rows it returns
    shown           \* the columns each of them shows

\* Variables of FieldCache, its pc as rpc.
VARIABLES ttype, _cache, db, model, wanted, rpc, missing, records, result, page, ever

VARIABLES
    throughout,     \* history: rows that have been there since the call began
    wrote,          \* history: the type its field had when a row was written
    busy            \* the scenario's: other readers and changed fields, or none

logVars == <<about, committed, deleted, wrote>>
callVars == <<pc, res_id, options, messages, events, shown, throughout, busy>>
cacheVars == <<ttype, _cache, db, model, wanted, rpc, missing, records, result, page, ever>>
vars == <<logVars, callVars, cacheVars>>

Cache == INSTANCE FieldCache WITH pc <- rpc

Date == 0 .. MaxDate

About == [posted : SUBSET Msg, res : [Msg -> Res], date : [Msg -> Date],
          field : [Row -> Field]]

Options == [field_names : SUBSET Field, limit : Limits, since : Date]

ASSUME HistoryConstants ==
    /\ MsgOf \in [Row -> Msg]
    /\ MaxDate \in Nat
    /\ Limits \subseteq Nat \cup {NONE}
    /\ GetHistory \in Reader
    /\ CHAR \in Type /\ NONE \notin Type /\ Type \subseteq FieldType
    /\ Pages \in Nat
    /\ Scenario \subseteq
           [about : About, res_id : Res, options : Options,
            ttype : [Model \X Field -> Type], model : Model, busy : BOOLEAN]

Init ==
    /\ \E s \in Scenario :
           /\ about = s.about
           /\ res_id = s.res_id
           /\ options = s.options
           /\ ttype = [d \in Db |-> s.ttype]
           /\ model \in [Reader -> IF s.busy THEN Model ELSE {s.model}]
           /\ model[GetHistory] = s.model
           /\ busy = s.busy
    /\ Cache!Init
    /\ committed = {}
    /\ deleted = {}
    /\ wrote = [r \in Row |-> NONE]
    /\ pc = "idle"
    /\ messages = {}
    /\ events = {}
    /\ shown = [r \in Row |-> NONE]
    /\ throughout = {}

\* Bound: the log is quiet once get_history has read what it reads of it, and
\* everything once it has ended.
LogIsRead == pc \in {"idle", "messages", "rows"}

Ended == pc \in {"done", "failed"}

ExistingMsg == committed \ deleted

Existing == {r \in Row : MsgOf[r] \in ExistingMsg}

DateOf(r) == about.date[MsgOf[r]]

TypeOf(r) == ttype[db[GetHistory]][<<model[GetHistory], about.field[r]>>]

\* Transactions commit in any order.  A row is stored by the type its field has.
Commit(m) ==
    /\ LogIsRead
    /\ m \in about.posted \ committed
    /\ \A r \in Row : MsgOf[r] = m => TypeOf(r) # NONE
    /\ committed' = committed \cup {m}
    /\ wrote' = [r \in Row |-> IF MsgOf[r] = m THEN TypeOf(r) ELSE wrote[r]]
    /\ UNCHANGED <<about, deleted, callVars, cacheVars>>

Delete(m) ==
    /\ LogIsRead
    /\ m \in ExistingMsg
    /\ deleted' = deleted \cup {m}
    /\ throughout' = {r \in throughout : MsgOf[r] # m}
    /\ UNCHANGED <<about, committed, wrote, pc, res_id, options, messages, events,
                   shown, busy, cacheVars>>

\* What else goes on in the process and in the databases.  Bound: one change
\* of a field, and only in the scenarios that say so.
ChangeField(d, k, t) ==
    /\ busy /\ ~Ended
    /\ \A n \in Model \X Field : Cardinality(ever[n]) = 1
    /\ Cache!ChangeField(d, k, t)
    /\ UNCHANGED <<logVars, callVars>>

OtherReader(r) ==
    /\ busy /\ ~Ended
    /\ r # GetHistory
    /\ \/ \E names \in (SUBSET Field) \ {{}} : Cache!Lookup(r, names)
       \/ Cache!ServerReads(r) \/ Cache!Store(r) \/ Cache!Fail(r)
    /\ UNCHANGED <<logVars, callVars>>

clear_cache ==
    /\ busy /\ ~Ended
    /\ Cache!clear_cache
    /\ UNCHANGED <<logVars, callVars>>

-----------------------------------------------------------------------------

Begin ==
    /\ pc = "idle"
    /\ pc' = "messages"
    /\ throughout' = Existing
    /\ UNCHANGED <<logVars, res_id, options, messages, events, shown, busy, cacheVars>>

\* Fault: ">" for ">=".
Since_Strict(m) == options.since = 0 \/ about.date[m] > options.since

\* ("date", ">=", opts.since), for a since that is given; 0 stands for none.
Since(m) == about.date[m] >= options.since

\* Fault: order="date asc".
Newest_Ascending(S, n) ==
    {T \in SUBSET S : /\ Cardinality(T) = n
                      /\ \A m \in T, k \in S \ T : about.date[m] <= about.date[k]}

\* order="date desc", limit=n: any of several equals may come first.
Newest(S, n) ==
    {T \in SUBSET S : /\ Cardinality(T) = n
                      /\ \A m \in T, k \in S \ T : about.date[m] >= about.date[k]}

\* A limit of None or 0 is none.
Selections(S) ==
    IF options.limit \in {NONE, 0} \/ Cardinality(S) <= options.limit
    THEN {S} ELSE Newest(S, options.limit)

ReadMessages ==
    /\ pc = "messages"
    /\ messages' \in Selections({m \in ExistingMsg : about.res[m] = res_id /\ Since(m)})
    /\ pc' = IF messages' = {} THEN "done" ELSE "rows"
    /\ UNCHANGED <<logVars, res_id, options, events, shown, throughout, busy, cacheVars>>

InFields(r) == options.field_names = {} \/ about.field[r] \in options.field_names

\* The tracking values of those messages that still exist.
ReadRows ==
    /\ pc = "rows"
    /\ events' = {r \in Existing : MsgOf[r] \in messages /\ InFields(r)}
    /\ pc' = IF events' = {} THEN "done" ELSE "types"
    /\ UNCHANGED <<logVars, res_id, options, messages, shown, throughout, busy, cacheVars>>

\* ensure_fields_cached has returned, and without another await the events are
\* put together: with the type it gave for their field.
Resolve(metadata) ==
    /\ shown' = [r \in Row |-> IF r \in events
                               THEN resolve_values(metadata[about.field[r]]) ELSE NONE]
    /\ pc' = "done"
    /\ UNCHANGED <<logVars, res_id, options, messages, events, throughout, busy>>

\* Is every field cached?  Otherwise the missing ones are fetched.
LookupTypes ==
    /\ pc = "types"
    /\ Cache!Lookup(GetHistory, {about.field[r] : r \in events})
    /\ \/ rpc' # rpc /\ UNCHANGED <<logVars, callVars>>
       \/ rpc' = rpc /\ Resolve(result'[GetHistory])

ReadTypes ==
    /\ pc = "types"
    /\ Cache!ServerReads(GetHistory)
    /\ UNCHANGED <<logVars, callVars>>

StoreTypes ==
    /\ pc = "types"
    /\ Cache!Store(GetHistory)
    /\ Resolve(result'[GetHistory])

\* A read raises.
Fail ==
    /\ pc' = "failed"
    /\ \/ pc \in {"messages", "rows"} /\ UNCHANGED cacheVars
       \/ pc = "types" /\ Cache!Fail(GetHistory)
    /\ UNCHANGED <<logVars, res_id, options, messages, events, shown, throughout, busy>>

Next ==
    \/ \E m \in Msg : Commit(m) \/ Delete(m)
    \/ Begin \/ ReadMessages \/ ReadRows \/ LookupTypes \/ ReadTypes \/ StoreTypes \/ Fail
    \/ \E d \in Db, k \in Model \X Field, t \in Type \cup {NONE} : ChangeField(d, k, t)
    \/ \E r \in Reader : OtherReader(r)
    \/ clear_cache

Spec == Init /\ [][Next]_vars

-----------------------------------------------------------------------------
(* Properties *)

Wanted(r) ==
    /\ about.res[MsgOf[r]] = res_id
    /\ DateOf(r) >= options.since
    /\ InFields(r)

\* docs/services/cdc.md: get_history returns "all tracked changes for a single
\* record".  Without a limit, no change that was there from the call's begin to
\* its end is missing, whatever is committed or deleted around it, and no change
\* of another record is returned.
Complete ==
    pc = "done" /\ options.limit \in {NONE, 0} =>
        /\ \A r \in throughout : Wanted(r) => r \in events
        /\ \A r \in events : Wanted(r)

\* A limit drops the oldest: what is missing is no newer than what is there.
NewestKept ==
    pc = "done" =>
        \A r \in throughout, e \in events :
            Wanted(r) /\ DateOf(r) > DateOf(e) => r \in events

\* Each event shows the columns its row was stored in, raw value and text both,
\* although the type that tells which comes from a cache that other readers
\* fill, clear and share: as long as its field has never had another type, and
\* except for texts, whose column is not looked at.
ValuesAreShown ==
    pc = "done" =>
        \A r \in events :
            /\ ever[<<model[GetHistory], about.field[r]>>] = {wrote[r]}
            /\ wrote[r] # "text"
            => Shows(shown[r], wrote[r])

\* The types that interleaved readers are given: FieldCache's NeverInvented.
NeverInvented == Cache!NeverInvented

-----------------------------------------------------------------------------
(* The inductive invariant the proofs rest on *)

\* Every variable of the log and of the call has its type.
TypeOK ==
    /\ about \in About
    /\ committed \in SUBSET Msg
    /\ deleted \in SUBSET Msg
    /\ wrote \in [Row -> Type \cup {NONE}]
    /\ pc \in {"idle", "messages", "rows", "types", "done", "failed"}
    /\ res_id \in Res
    /\ options \in Options
    /\ messages \in SUBSET Msg
    /\ events \in SUBSET Row
    /\ throughout \in SUBSET Row

\* The messages are of the record and the time asked for, and the events theirs.
\* A row that was there throughout is read with its message, or no message that
\* was read is older than its own.
ReadOK ==
    /\ throughout \subseteq Existing
    /\ pc \in {"idle", "messages"} => messages = {}
    /\ pc \in {"idle", "messages", "rows"} => events = {}
    /\ \A m \in messages : about.res[m] = res_id /\ Since(m)
    /\ \A r \in events : MsgOf[r] \in messages /\ InFields(r)
    /\ pc \in {"rows", "types", "done"} =>
           \A r \in throughout :
               Wanted(r) => \/ MsgOf[r] \in messages /\ (pc = "rows" \/ r \in events)
                            \/ /\ options.limit \notin {NONE, 0}
                               /\ \A m \in messages : about.date[m] >= DateOf(r)

\* The names that are fetched are those of the events, and an event that has been
\* put together shows the columns of a type its field has had.
ShownOK ==
    /\ pc = "types" => events # {}
    /\ rpc[GetHistory] \in {"fetch", "store"} =>
           pc = "types" /\ wanted[GetHistory] = {about.field[r] : r \in events}
    /\ pc = "done" =>
           \A r \in events : \E t \in ever[<<model[GetHistory], about.field[r]>>] :
                                 shown[r] = resolve_values(t)

HistoryInv == Cache!CacheInv /\ TypeOK /\ ReadOK /\ ShownOK

=============================================================================
