----------------------------- MODULE Timesheets -----------------------------
(***************************************************************************)
(* services/timesheets/functions.py: a timer is an account.analytic.line   *)
(* with unit_amount 0; stop_timer reads it and writes the hours since its  *)
(* create_date, which is the server's clock, up to now, the client's.      *)
(* Every RPC is one action.  Others delete entries in between, and a       *)
(* request whose caller has given up may reach the server late.            *)
(*                                                                         *)
(* Time runs in steps of 18 s, half a hundredth of an hour: the unit at    *)
(* which max(_, 0.01) and round(_, 2) matter.  unit_amount is in           *)
(* hundredths of an hour.                                                  *)
(***************************************************************************)
EXTENDS Integers, FiniteSets

CONSTANTS
    Call,           \* invocations of start_timer, stop_timer and log_time
    MaxTime,        \* the server's clock stops here
    MaxSkew,        \* most a client's clock is ahead or behind
    MaxHours,       \* most hundredths log_time is given
    NIL             \* no record, no entry

Time == 0 .. MaxTime
Entry == [create_date : Time, unit_amount : Nat]

ASSUME TimesheetConstants ==
    /\ MaxTime \in Nat /\ MaxSkew \in Nat /\ MaxHours \in Nat
    /\ NIL \notin Call \cup Entry

VARIABLES
    entry,          \* account.analytic.line; an id is the call that creates it
    clock,          \* the server's clock
    skew,           \* the client's clock minus the server's
    at, kind,       \* where each call is, and which function it runs
    timesheet_id,   \* the entry it is about
    rec,            \* what it has read of it
    hours,          \* the unit_amount it writes
    late            \* calls whose request may still reach the server

callVars == <<at, kind, timesheet_id, rec, hours, late>>
timersVars == <<entry, clock, skew, callVars>>

Function == {"start_timer", "stop_timer", "log_time"}

TimersInit ==
    /\ entry = [c \in Call |-> NIL]
    /\ clock = 0
    /\ skew \in -MaxSkew .. MaxSkew
    /\ at = [c \in Call |-> "idle"]
    /\ kind \in [Call -> Function]
    /\ timesheet_id = [c \in Call |-> NIL]
    /\ rec = [c \in Call |-> NIL]
    /\ hours = [c \in Call |-> 0]
    /\ late = {}

Exists(i) == entry[i] # NIL

\* get_running_timers, of the one employee there is.
Running == {i \in Call : Exists(i) /\ entry[i].unit_amount = 0}

Largest(a, b) == IF a >= b THEN a ELSE b

\* Fault: no least amount.
ElapsedHours_NoMinimum(elapsed) == {Largest(elapsed, 0) \div 2, (Largest(elapsed, 0) + 1) \div 2}

\* round(max(elapsed, 0.01), 2): the float is on either side of a half.
ElapsedHours(elapsed) ==
    {Largest(elapsed, 2) \div 2, (Largest(elapsed, 2) + 1) \div 2}

-----------------------------------------------------------------------------
(* start_timer and log_time *)

BeginStart(c) ==
    /\ at[c] = "idle" /\ kind[c] = "start_timer"
    /\ at' = [at EXCEPT ![c] = "create"]
    /\ UNCHANGED <<entry, clock, skew, kind, timesheet_id, rec, hours, late>>

\* Hours that are not positive raise before any request.
BeginLog(c, h) ==
    /\ at[c] = "idle" /\ kind[c] = "log_time"
    /\ hours' = [hours EXCEPT ![c] = h]
    /\ at' = [at EXCEPT ![c] = IF h = 0 THEN "raised" ELSE "create"]
    /\ UNCHANGED <<entry, clock, skew, kind, timesheet_id, rec, late>>

NewEntry(c) ==
    entry' = [entry EXCEPT ![c] = [create_date |-> clock, unit_amount |-> hours[c]]]

Create(c) ==
    /\ at[c] = "create"
    /\ NewEntry(c)
    /\ timesheet_id' = [timesheet_id EXCEPT ![c] = c]
    /\ at' = [at EXCEPT ![c] = "read_back"]
    /\ UNCHANGED <<clock, skew, kind, rec, hours, late>>

\* records[0] of the new entry: an entry that is gone raises.
ReadBack(c) ==
    /\ at[c] = "read_back"
    /\ rec' = [rec EXCEPT ![c] = entry[c]]
    /\ at' = [at EXCEPT ![c] = IF Exists(c) THEN "done" ELSE "raised"]
    /\ UNCHANGED <<entry, clock, skew, kind, timesheet_id, hours, late>>

-----------------------------------------------------------------------------
(* stop_timer *)

\* Any id may be given: that of a timer, of a logged entry, of a deleted one.
BeginStop(c, i) ==
    /\ at[c] = "idle" /\ kind[c] = "stop_timer"
    /\ timesheet_id' = [timesheet_id EXCEPT ![c] = i]
    /\ at' = [at EXCEPT ![c] = "read"]
    /\ UNCHANGED <<entry, clock, skew, kind, rec, hours, late>>

Read(c) ==
    /\ at[c] = "read"
    /\ rec' = [rec EXCEPT ![c] = entry[timesheet_id[c]]]
    /\ at' = [at EXCEPT ![c] = IF Exists(timesheet_id[c]) THEN "elapsed" ELSE "raised"]
    /\ UNCHANGED <<entry, clock, skew, kind, timesheet_id, hours, late>>

\* Fault: the hours are added to those the entry has.
Elapsed_Adds(c) ==
    /\ at[c] = "elapsed"
    /\ \E h \in ElapsedHours(clock + skew - rec[c].create_date) :
           hours' = [hours EXCEPT ![c] = h + rec[c].unit_amount]
    /\ at' = [at EXCEPT ![c] = "write"]
    /\ UNCHANGED <<entry, clock, skew, kind, timesheet_id, rec, late>>

\* The answer arrives: now, and the hours.
Elapsed(c) ==
    /\ at[c] = "elapsed"
    /\ \E h \in ElapsedHours(clock + skew - rec[c].create_date) :
           hours' = [hours EXCEPT ![c] = h]
    /\ at' = [at EXCEPT ![c] = "write"]
    /\ UNCHANGED <<entry, clock, skew, kind, timesheet_id, rec, late>>

WriteHours(c) ==
    /\ Exists(timesheet_id[c])
    /\ entry' = [entry EXCEPT ![timesheet_id[c]].unit_amount = hours[c]]

\* client.write: the server raises for an entry that is gone.
Write(c) ==
    /\ at[c] = "write"
    /\ WriteHours(c)
    /\ at' = [at EXCEPT ![c] = "done"]
    /\ UNCHANGED <<clock, skew, kind, timesheet_id, rec, hours, late>>

-----------------------------------------------------------------------------

\* A request fails or times out; a create or write may arrive all the same.
Fail(c) ==
    /\ at[c] \in {"create", "read_back", "read", "write"}
    /\ at' = [at EXCEPT ![c] = "raised"]
    /\ late' \in {late, IF at[c] \in {"create", "write"} THEN late \cup {c} ELSE late}
    /\ UNCHANGED <<entry, clock, skew, kind, timesheet_id, rec, hours>>

LateRequest(c) ==
    /\ c \in late
    /\ late' = late \ {c}
    /\ \/ kind[c] # "stop_timer" /\ NewEntry(c)
       \/ kind[c] = "stop_timer" /\ WriteHours(c)
       \/ UNCHANGED entry
    /\ UNCHANGED <<clock, skew, at, kind, timesheet_id, rec, hours>>

\* Someone deletes an entry.
Unlink(i) ==
    /\ Exists(i)
    /\ entry' = [entry EXCEPT ![i] = NIL]
    /\ UNCHANGED <<clock, skew, callVars>>

Tick ==
    /\ clock < MaxTime
    /\ clock' = clock + 1
    /\ UNCHANGED <<entry, skew, callVars>>

TimersNext ==
    \/ \E c \in Call :
           \/ BeginStart(c) \/ Create(c) \/ ReadBack(c)
           \/ Read(c) \/ Elapsed(c) \/ Write(c) \/ Fail(c) \/ LateRequest(c)
           \/ \E h \in 0 .. MaxHours : BeginLog(c, h)
           \/ \E i \in Call : BeginStop(c, i)
           \/ Unlink(c)
    \/ Tick

TimersSpec == TimersInit /\ [][TimersNext]_timersVars

-----------------------------------------------------------------------------
(* Properties *)

\* Every variable has its type.
TimersTypeOK ==
    /\ entry \in [Call -> Entry \cup {NIL}]
    /\ clock \in Time
    /\ skew \in -MaxSkew .. MaxSkew
    /\ at \in [Call -> {"idle", "create", "read_back", "read", "elapsed", "write",
                        "done", "raised"}]
    /\ kind \in [Call -> Function]
    /\ timesheet_id \in [Call -> Call \cup {NIL}]
    /\ rec \in [Call -> Entry \cup {NIL}]
    /\ hours \in [Call -> Nat]
    /\ late \in SUBSET Call

\* "compute elapsed hours from create_date": the hours of an entry are those it
\* was created with or no more than half a hundredth above the time that has
\* passed since, on the two clocks, or the least amount.  Two stop_timer of one
\* timer, one after the other, at once or late, do not add up.
HoursAreReal ==
    \A i \in {c \in Call : Exists(c)} :
        \/ entry[i].unit_amount = hours[i]
        \/ 2 * entry[i].unit_amount - 1 <= Largest(clock + skew - entry[i].create_date, 2)

\* A timer that stop_timer has stopped is not running: not when it ran for less
\* than a rounding step, and not when the client's clock is behind the server's.
StoppedNotRunning ==
    \A c \in Call :
        kind[c] = "stop_timer" /\ at[c] = "done" => timesheet_id[c] \notin Running

-----------------------------------------------------------------------------
(* The inductive invariant the proofs rest on *)

\* The call i has created its entry, or never will.
Settled(i) ==
    kind[i] # "stop_timer" /\ at[i] \notin {"idle", "create"} /\ i \notin late

EntryOK(i) == Exists(i) => Settled(i)

\* stop_timer has read its entry.
HasRead(c) == kind[c] = "stop_timer" /\ (at[c] \in {"elapsed", "write", "done"} \/ c \in late)

\* stop_timer writes no less than the least amount, and no more than has passed.
HasHours(c) == kind[c] = "stop_timer" /\ (at[c] \in {"write", "done"} \/ c \in late)

CallOK(c) ==
    /\ c \in late => at[c] = "raised"
    /\ kind[c] = "stop_timer" => at[c] \notin {"create", "read_back"}
    /\ at[c] \in {"read", "elapsed", "write"} => kind[c] = "stop_timer"
    /\ kind[c] = "stop_timer" /\ at[c] # "idle" => timesheet_id[c] \in Call
    /\ HasRead(c) =>
           /\ rec[c] # NIL
           /\ Settled(timesheet_id[c])
           /\ Exists(timesheet_id[c]) =>
                  entry[timesheet_id[c]].create_date = rec[c].create_date
    /\ HasHours(c) =>
           /\ hours[c] > 0
           /\ 2 * hours[c] - 1 <= Largest(clock + skew - rec[c].create_date, 2)

TimesheetsInv ==
    /\ TimersTypeOK
    /\ \A c \in Call : EntryOK(c) /\ CallOK(c)
    /\ HoursAreReal
    /\ StoppedNotRunning

=============================================================================
