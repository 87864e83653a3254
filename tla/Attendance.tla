----------------------------- MODULE Attendance -----------------------------
(***************************************************************************)
(* services/attendance/functions.py: clock_in and clock_out decide on what *)
(* get_status has read, stamp the moment of the decision and write.  Every *)
(* RPC is one action, at the moment the server handles it, and calls of    *)
(* different programs interleave.  A create or write whose caller has      *)
(* given up may reach the server late.                                     *)
(*                                                                         *)
(* check_in and check_out are what the clocks of the programs show, to the *)
(* second.  Each program has its own, which need not agree with another's  *)
(* and may be set back.  The server may refuse any request, and is not     *)
(* relied on to do so.                                                     *)
(***************************************************************************)
EXTENDS Naturals, FiniteSets

CONSTANTS
    Call,           \* invocations of clock_in and clock_out
    Old,            \* ids of attendances there are before
    Employee,       \* hr.employee ids
    User,           \* uids a session may have
    MaxTime,        \* the latest time a clock shows
    NONE            \* Python's None

Time == 0 .. MaxTime

Record == [employee_id : Employee, check_in : Time, check_out : Time \cup {NONE}]

ASSUME AttendanceConstants ==
    /\ MaxTime \in Nat
    /\ Call \cap Old = {}
    /\ NONE \notin Employee \cup User \cup Time \cup Record

VARIABLES
    attendance,     \* hr.attendance on the server; the id of a new record is
                    \* the call that creates it
    session,        \* uid of the client's session
    employee_of,    \* the employee linked to each user
    pc, kind,       \* where each call is, and which function it runs
    employee_id,    \* whom it is about
    status,         \* its AttendanceStatus
    now,            \* its timestamp, datetime.now(UTC) of its program
    late            \* calls whose request may still reach the server

\* History: employees of whom a record was written between another call's read
\* and its write; and employees an attendance of whom, open at first or made by
\* clock_in, did not begin after all the others on record.
VARIABLES crossed, misdated

serverVars == <<attendance, session, employee_of>>
historyVars == <<crossed, misdated>>
callVars == <<pc, kind, employee_id, status, now, late>>
vars == <<serverVars, callVars, historyVars>>

Id == Call \cup Old

NotClockedIn == [is_clocked_in |-> FALSE, last_attendance_id |-> NONE]

Of(e) == {a \in Id : attendance[a] # NONE /\ attendance[a].employee_id = e}

IsOpen(a) == attendance[a] # NONE /\ attendance[a].check_out = NONE

Open(e) == {a \in Of(e) : IsOpen(a)}

\* a began after every other attendance of e.
BeganLast(a, e) ==
    \A b \in Of(e) \ {a} : attendance[b].check_in < attendance[a].check_in

\* The table may hold anything: other programs and people write it too.
Init ==
    /\ \E old \in [Old -> Record \cup {NONE}] :
           attendance = [a \in Id |-> IF a \in Old THEN old[a] ELSE NONE]
    /\ session \in User \cup {NONE}
    /\ employee_of \in [User -> Employee \cup {NONE}]
    /\ pc = [c \in Call |-> "idle"]
    /\ kind \in [Call -> {"clock_in", "clock_out"}]
    /\ employee_id = [c \in Call |-> NONE]
    /\ status = [c \in Call |-> NotClockedIn]
    /\ now = [c \in Call |-> NONE]
    /\ late = {}
    /\ crossed = {}
    /\ misdated = {e \in Employee : \E a \in Open(e) : ~BeganLast(a, e)}

\* Fault: order="check_in".
Latest_Ascending(e) ==
    {a \in Of(e) : \A b \in Of(e) : attendance[a].check_in <= attendance[b].check_in}

\* order="check_in desc", limit=1: which of several equals comes first is the
\* database's choice.
Latest(e) ==
    {a \in Of(e) : \A b \in Of(e) : attendance[a].check_in >= attendance[b].check_in}

-----------------------------------------------------------------------------

\* resolve_employee_id up to its first await: an employee given, or the one of
\* the session.
Begin(c, e) ==
    /\ pc[c] = "idle"
    /\ employee_id' = [employee_id EXCEPT ![c] = e]
    /\ pc' = [pc EXCEPT ![c] = IF e # NONE THEN "get_status"
                               ELSE IF session = NONE THEN "raised" ELSE "resolve"]
    /\ UNCHANGED <<serverVars, historyVars, kind, status, now, late>>

\* The search for the employee of session.uid.
ResolveEmployee(c) ==
    /\ pc[c] = "resolve"
    /\ employee_id' = [employee_id EXCEPT ![c] = employee_of[session]]
    /\ pc' = [pc EXCEPT ![c] = IF employee_of[session] = NONE THEN "raised"
                               ELSE "get_status"]
    /\ UNCHANGED <<serverVars, historyVars, kind, status, now, late>>

\* What get_status may answer.
Statuses(e) ==
    IF Of(e) = {} THEN {NotClockedIn}
    ELSE {[is_clocked_in |-> IsOpen(a), last_attendance_id |-> a] : a \in Latest(e)}

GetStatus(c) ==
    /\ pc[c] = "get_status"
    /\ \E s \in Statuses(employee_id[c]) : status' = [status EXCEPT ![c] = s]
    /\ pc' = [pc EXCEPT ![c] = "decide"]
    /\ UNCHANGED <<serverVars, historyVars, kind, employee_id, now, late>>

\* Fault: clock_in does not ask.
Allowed_In(c) == kind[c] = "clock_in" \/ status[c].is_clocked_in

\* Fault: clock_out does not ask.
Allowed_Out(c) == kind[c] = "clock_out" \/ ~status[c].is_clocked_in

Allowed(c) == (kind[c] = "clock_out") = status[c].is_clocked_in

\* The answer of get_status arrives: raise, or stamp the moment, by the clock of
\* the program that calls.
Decide(c) ==
    /\ pc[c] = "decide"
    /\ \/ /\ ~Allowed(c)
          /\ pc' = [pc EXCEPT ![c] = "refused"]
          /\ UNCHANGED now
       \/ /\ Allowed(c)
          /\ \E t \in Time : now' = [now EXCEPT ![c] = t]
          /\ pc' = [pc EXCEPT ![c] = "write"]
    /\ UNCHANGED <<serverVars, historyVars, kind, employee_id, status, late>>

\* c knows a status, and what it writes by it may still be to come.
Informed(c) == pc[c] \in {"decide", "write"} \/ c \in late

\* Another call knows a status of e that a write of c may change.
Crosses(c, e) == \E d \in Call \ {c} : employee_id[d] = e /\ Informed(d)

NoteCrossing(c) ==
    crossed' = IF Crosses(c, employee_id[c]) THEN crossed \cup {employee_id[c]} ELSE crossed

\* client.create(_MODEL, {"employee_id": eid, "check_in": now})
Create(c) ==
    /\ kind[c] = "clock_in"
    /\ attendance' = [attendance EXCEPT ![c] = [employee_id |-> employee_id[c],
                                                check_in |-> now[c],
                                                check_out |-> NONE]]
    /\ NoteCrossing(c)
    /\ misdated' = IF \E a \in Of(employee_id[c]) : now[c] <= attendance[a].check_in
                   THEN misdated \cup {employee_id[c]} ELSE misdated

\* client.write(_MODEL, status.last_attendance_id, {"check_out": now})
WriteCheckOut(c) ==
    /\ kind[c] = "clock_out"
    /\ attendance' = [attendance EXCEPT ![status[c].last_attendance_id].check_out = now[c]]
    /\ NoteCrossing(c)
    /\ UNCHANGED misdated

Write(c) ==
    /\ pc[c] = "write"
    /\ Create(c) \/ WriteCheckOut(c)
    /\ pc' = [pc EXCEPT ![c] = "done"]
    /\ UNCHANGED <<session, employee_of, kind, employee_id, status, now, late>>

\* A request fails or times out; the last one may arrive all the same.
Fail(c) ==
    /\ pc[c] \in {"resolve", "get_status", "write"}
    /\ pc' = [pc EXCEPT ![c] = "raised"]
    /\ late' \in {late, IF pc[c] = "write" THEN late \cup {c} ELSE late}
    /\ UNCHANGED <<serverVars, historyVars, kind, employee_id, status, now>>

LateWrite(c) ==
    /\ c \in late
    /\ late' = late \ {c}
    /\ Create(c) \/ WriteCheckOut(c) \/ UNCHANGED <<attendance, historyVars>>
    /\ UNCHANGED <<session, employee_of, pc, kind, employee_id, status, now>>

Next ==
    \E c \in Call :
        \/ \E e \in Employee \cup {NONE} : Begin(c, e)
        \/ ResolveEmployee(c) \/ GetStatus(c) \/ Decide(c) \/ Write(c)
        \/ Fail(c) \/ LateWrite(c)

Spec == Init /\ [][Next]_vars

-----------------------------------------------------------------------------
(* Properties *)

\* docs/services/attendance.md, "Clock in twice -- raises an error if the
\* employee already has an open attendance": nobody gets a second one.  The code
\* looks at the latest attendance only, and reads before it writes, so that this
\* does not hold of employees whose calls have crossed, or of whom an attendance
\* began no later than another, as it may if clocks differ or are set back.
AtMostOneOpen ==
    \A e \in Employee \ (crossed \cup misdated) : Cardinality(Open(e)) <= 1

\* docs/services/attendance.md, "Clock out without being clocked in -- raises
\* an error if no open attendance exists": what is closed stays as it is,
\* whatever the clocks show, and even if the write of a call that failed arrives
\* late, but for crossed calls.
ClosedStays ==
    [][\A a \in Id :
           attendance[a] # NONE /\ ~IsOpen(a) =>
               attendance'[a] = attendance[a] \/ attendance[a].employee_id \in crossed']_vars

\* Unless calls have crossed, one is refused only for the reason its error gives:
\* clock_in while there is an open attendance of its employee, whatever the
\* clocks show, and clock_out while there is none, unless one began no later
\* than another.
RefusedRightly ==
    [][\A c \in Call :
           pc[c] = "decide" /\ pc'[c] = "refused" /\ employee_id[c] \notin crossed =>
               IF kind[c] = "clock_in"
               THEN Open(employee_id[c]) # {}
               ELSE employee_id[c] \in misdated \/ Open(employee_id[c]) = {}]_vars

-----------------------------------------------------------------------------
(* The inductive invariant the proofs rest on *)

\* Every variable has its type.
TypeOK ==
    /\ attendance \in [Id -> Record \cup {NONE}]
    /\ session \in User \cup {NONE}
    /\ employee_of \in [User -> Employee \cup {NONE}]
    /\ pc \in [Call -> {"idle", "resolve", "get_status", "decide", "write",
                        "refused", "raised", "done"}]
    /\ kind \in [Call -> {"clock_in", "clock_out"}]
    /\ employee_id \in [Call -> Employee \cup {NONE}]
    /\ status \in [Call -> [is_clocked_in : BOOLEAN, last_attendance_id : Id \cup {NONE}]]
    /\ now \in [Call -> Time \cup {NONE}]
    /\ late \in SUBSET Call
    /\ crossed \in SUBSET Employee
    /\ misdated \in SUBSET Employee

\* A call creates one record at most, of an employee it knows; it takes an
\* attendance for open that is its employee's; and it writes only when allowed.
CallOK(c) ==
    /\ pc[c] = "resolve" => session # NONE
    /\ pc[c] = "get_status" \/ Informed(c) => employee_id[c] \in Employee
    /\ c \in late => pc[c] = "raised"
    /\ attendance[c] # NONE => pc[c] \in {"raised", "done"} /\ c \notin late
    /\ Informed(c) /\ status[c].is_clocked_in =>
           /\ status[c].last_attendance_id \in Id
           /\ status[c].last_attendance_id \in Of(employee_id[c])
    /\ pc[c] = "write" \/ c \in late => Allowed(c) /\ now[c] # NONE

\* An open attendance began after every other of its employee.
EmployeeOK(e) == \A a \in Open(e) : BeganLast(a, e)

\* What the call was answered is still so.
StatusOK(c) == status[c] \in Statuses(employee_id[c])

AttendanceInv ==
    /\ TypeOK
    /\ \A c \in Call : CallOK(c)
    /\ \A e \in Employee \ (crossed \cup misdated) : EmployeeOK(e)
    /\ \A c \in Call : Informed(c) /\ employee_id[c] \notin crossed => StatusOK(c)

=============================================================================
