-------------------------- MODULE Attendance_proofs --------------------------
(***************************************************************************)
(* Proofs about Attendance, for any number of calls and employees.         *)
(*                                                                         *)
(* The argument: as long as the requests of an employee's calls do not     *)
(* cross, what a call was answered is still so when it writes (StatusOK),  *)
(* so that an attendance it takes for open is open (StatusOpen).  As long  *)
(* as each attendance begins after those on record, too, the open one is   *)
(* the latest (EmployeeOK), and the one attendance get_status looks at     *)
(* tells whether there is an open one (StatusTells).                       *)
(***************************************************************************)
EXTENDS Attendance, FiniteSetTheorems, TLAPS

-----------------------------------------------------------------------------
(* Attendances *)

LEMMA OfEmployee ==
    ASSUME TypeOK, NEW e, NEW a \in Of(e)
    PROVE  /\ a \in Id /\ attendance[a] # NONE /\ attendance[a] \in Record
           /\ attendance[a].employee_id = e
           /\ attendance[a].check_in \in Nat
BY AttendanceConstants DEF TypeOK, Of, Record, Time

\* An attendance that get_status reports as open is so.
LEMMA StatusOpen ==
    ASSUME TypeOK, NEW e, NEW s \in Statuses(e)
    PROVE  s.is_clocked_in => s.last_attendance_id \in Open(e)
<1>1. CASE Of(e) = {}
  BY <1>1 DEF Statuses, NotClockedIn
<1>2. CASE Of(e) # {}
  <2>1. PICK l \in Latest(e) : s = [is_clocked_in |-> IsOpen(l), last_attendance_id |-> l]
    BY <1>2 DEF Statuses
  <2>2. l \in Of(e) /\ s.is_clocked_in = IsOpen(l) /\ s.last_attendance_id = l
    BY <2>1 DEF Latest
  <2>3. QED BY <2>2 DEF Open
<1>3. QED BY <1>1, <1>2

\* The attendance get_status looks at tells whether any is open, and which.
LEMMA StatusTells ==
    ASSUME TypeOK, NEW e, EmployeeOK(e), NEW s \in Statuses(e)
    PROVE  /\ s.is_clocked_in \in BOOLEAN
           /\ s.is_clocked_in <=> Open(e) # {}
           /\ s.is_clocked_in => s.last_attendance_id \in Open(e)
<1>1. CASE Of(e) = {}
  <2>1. s = NotClockedIn
    BY <1>1 DEF Statuses
  <2>2. s.is_clocked_in = FALSE
    BY <2>1 DEF NotClockedIn
  <2>3. Open(e) = {}
    BY <1>1 DEF Open
  <2>4. QED BY <2>2, <2>3
<1>2. CASE Of(e) # {}
  <2>1. PICK l \in Latest(e) : s = [is_clocked_in |-> IsOpen(l), last_attendance_id |-> l]
    BY <1>2 DEF Statuses
  <2>2. l \in Of(e) /\ s.is_clocked_in = IsOpen(l) /\ s.last_attendance_id = l
    BY <2>1 DEF Latest
  <2>3. ASSUME NEW a \in Open(e) PROVE a = l
    <3>1. a \in Of(e)
      BY DEF Open
    <3>2. a # l => attendance[l].check_in < attendance[a].check_in
      BY <2>2 DEF EmployeeOK, BeganLast
    <3>3. attendance[l].check_in >= attendance[a].check_in
      BY <2>1, <3>1 DEF Latest
    <3>4. attendance[l].check_in \in Nat /\ attendance[a].check_in \in Nat
      BY <2>2, <3>1, OfEmployee
    <3>5. QED BY <3>2, <3>3, <3>4
  <2>4. IsOpen(l) \in BOOLEAN /\ (IsOpen(l) => l \in Open(e))
    BY <2>2 DEF Open, IsOpen
  <2>5. CASE IsOpen(l)
    BY <2>2, <2>4, <2>5
  <2>6. CASE ~IsOpen(l)
    <3>1. s.is_clocked_in = FALSE
      BY <2>2, <2>4, <2>6
    <3>2. Open(e) = {}
      BY <2>3, <2>6 DEF Open
    <3>3. QED BY <3>1, <3>2
  <2>7. QED BY <2>5, <2>6
<1>3. QED BY <1>1, <1>2

\* A status is of the attendances there are.
LEMMA StatusType ==
    ASSUME TypeOK, NEW e, NEW s \in Statuses(e)
    PROVE  /\ s \in [is_clocked_in : BOOLEAN, last_attendance_id : Id \cup {NONE}]
           /\ s.is_clocked_in => s.last_attendance_id \in Of(e)
<1>1. CASE Of(e) = {}
  <2>1. s = [is_clocked_in |-> FALSE, last_attendance_id |-> NONE]
    BY <1>1 DEF Statuses, NotClockedIn
  <2>2. QED BY <2>1
<1>2. CASE Of(e) # {}
  <2>1. PICK l \in Latest(e) : s = [is_clocked_in |-> IsOpen(l), last_attendance_id |-> l]
    BY <1>2 DEF Statuses
  <2>2. l \in Of(e) /\ l \in Id /\ IsOpen(l) \in BOOLEAN
    BY <2>1 DEF Latest, Of, IsOpen
  <2>3. QED BY <2>1, <2>2
<1>3. QED BY <1>1, <1>2

\* A step that writes no attendance.
LEMMA SameAttendance ==
    ASSUME UNCHANGED attendance
    PROVE  \A e : /\ Of(e)' = Of(e) /\ Open(e)' = Open(e)
                  /\ Statuses(e)' = Statuses(e)
                  /\ EmployeeOK(e)' = EmployeeOK(e)
<1>1. \A e : Of(e)' = Of(e) /\ Open(e)' = Open(e) /\ Latest(e)' = Latest(e)
  BY DEF Of, Open, IsOpen, Latest
<1>2. \A a : IsOpen(a)' = IsOpen(a)
  BY DEF IsOpen
<1>3. \A e : Statuses(e)' = Statuses(e)
  BY <1>1, <1>2 DEF Statuses
<1>4. \A e : EmployeeOK(e)' = EmployeeOK(e)
  BY <1>1 DEF EmployeeOK, BeganLast
<1>5. QED BY <1>1, <1>3, <1>4

\* An attendance that is written is nobody's but its employee's.
LEMMA OtherEmployees ==
    ASSUME TypeOK, NEW x \in Id, NEW e, NEW f, f # e,
           attendance[x] = NONE \/ attendance[x].employee_id = e,
           attendance'[x].employee_id = e,
           \A a \in Id \ {x} : attendance'[a] = attendance[a]
    PROVE  /\ Of(f)' = Of(f)
           /\ \A a \in Of(f) : attendance'[a] = attendance[a]
           /\ Statuses(f)' = Statuses(f)
           /\ EmployeeOK(f)' = EmployeeOK(f)
<1>1. \A a \in Id : a \in Of(f)' <=> a \in Of(f)
  BY DEF Of
<1>2. Of(f)' = Of(f)
  BY <1>1 DEF Of
<1>3. \A a \in Of(f) : attendance'[a] = attendance[a]
  BY DEF Of
<1>4. \A a \in Of(f) : IsOpen(a)' = IsOpen(a)
  BY <1>3 DEF IsOpen
<1>5. Latest(f)' = Latest(f) /\ Open(f)' = Open(f)
  BY <1>2, <1>3, <1>4 DEF Latest, Open
<1>6. \A a \in Latest(f) : IsOpen(a)' = IsOpen(a)
  BY <1>4 DEF Latest
<1>7. Statuses(f)' = Statuses(f)
  BY <1>2, <1>5, <1>6 DEF Statuses
<1>8. EmployeeOK(f)' = EmployeeOK(f)
  BY <1>2, <1>3, <1>5 DEF EmployeeOK, BeganLast, Open
<1>9. QED BY <1>2, <1>3, <1>7, <1>8

-----------------------------------------------------------------------------
(* Writing *)

\* What a call writes: one attendance of its employee, new, or open unless that
\* employee's calls have crossed.
LEMMA WriteEffect ==
    ASSUME AttendanceInv, NEW c \in Call, NEW e, e = employee_id[c],
           pc[c] = "write" \/ c \in late, Create(c) \/ WriteCheckOut(c)
    PROVE  \E x \in Id :
               /\ attendance' \in [Id -> Record \cup {NONE}]
               /\ \A a \in Id \ {x} : attendance'[a] = attendance[a]
               /\ attendance'[x] # NONE
               /\ attendance'[x].employee_id = e
               /\ attendance[x] = NONE \/ attendance[x].employee_id = e
               /\ attendance[x] = NONE => x = c
               /\ crossed' \in {crossed, crossed \cup {e}}
               /\ misdated' \in {misdated, misdated \cup {e}}
               /\ e \notin crossed' => ~Crosses(c, e) /\ (attendance[x] = NONE \/ IsOpen(x))
               /\ e \notin crossed' \cup misdated' => EmployeeOK(e)'
<1>0. TypeOK /\ CallOK(c)
  BY DEF AttendanceInv
<1>1. /\ e \in Employee /\ Allowed(c) /\ Informed(c)
      /\ now[c] \in Time /\ now[c] \in Nat /\ now[c] # NONE
  BY <1>0 DEF CallOK, TypeOK, Informed, Time
<1>2. ASSUME e \notin crossed
      PROVE  /\ status[c].is_clocked_in => status[c].last_attendance_id \in Open(e)
             /\ e \notin misdated =>
                    EmployeeOK(e) /\ (status[c].is_clocked_in <=> Open(e) # {})
  <2>1. StatusOK(c) /\ (e \notin misdated => EmployeeOK(e))
    BY <1>1, <1>2 DEF AttendanceInv
  <2>2. QED BY <1>0, <2>1, StatusOpen, StatusTells DEF StatusOK
<1>3. CASE Create(c)
  <2> DEFINE rec == [employee_id |-> e, check_in |-> now[c], check_out |-> NONE]
  <2>1. c \in Id /\ attendance[c] = NONE /\ kind[c] = "clock_in"
    BY <1>0, <1>3 DEF Create, CallOK, Id
  <2>2. rec \in Record /\ rec # NONE
    BY <1>1, AttendanceConstants DEF Record
  <2>3. /\ attendance' \in [Id -> Record \cup {NONE}]
        /\ attendance'[c] = rec
        /\ \A a \in Id \ {c} : attendance'[a] = attendance[a]
    BY <1>0, <1>3, <2>1, <2>2 DEF Create, TypeOK
  <2>4. /\ crossed' \in {crossed, crossed \cup {e}}
        /\ misdated' \in {misdated, misdated \cup {e}}
        /\ e \notin crossed' => ~Crosses(c, e) /\ e \notin crossed
    BY <1>3 DEF Create, NoteCrossing
  <2>5. ASSUME e \notin crossed' \cup misdated' PROVE EmployeeOK(e)'
    <3>1. e \notin crossed /\ e \notin misdated
          /\ \A a \in Of(e) : ~(now[c] <= attendance[a].check_in)
      BY <1>3, <2>4, <2>5 DEF Create
    <3>2. Open(e) = {}
      BY <1>0, <1>1, <1>2, <2>1, <3>1 DEF Allowed, TypeOK
    <3>3. \A a \in Of(e) : attendance[a].check_in < now[c]
      BY <1>0, <1>1, <3>1, OfEmployee
    <3>4. Of(e)' = Of(e) \cup {c}
      <4>1. c \in Of(e)'
        BY <2>1, <2>2, <2>3 DEF Of
      <4>2. \A a \in Id \ {c} : a \in Of(e)' <=> a \in Of(e)
        BY <2>3 DEF Of
      <4>3. QED BY <2>1, <4>1, <4>2 DEF Of
    <3>5. Open(e)' \subseteq {c}
      BY <2>3, <3>2, <3>4 DEF Open, IsOpen, Of
    <3>6. ASSUME NEW a \in Open(e)', NEW b \in Of(e)' \ {a}
          PROVE  attendance'[b].check_in < attendance'[a].check_in
      <4>1. a = c /\ b \in Of(e)
        BY <3>4, <3>5, <3>6
      <4>2. attendance'[b] = attendance[b] /\ attendance'[a].check_in = now[c]
        BY <2>3, <3>6, <4>1 DEF Of
      <4>3. QED BY <3>3, <4>1, <4>2
    <3>7. QED BY <3>6 DEF EmployeeOK, BeganLast
  <2>6. QED BY <1>1, <2>1, <2>2, <2>3, <2>4, <2>5
<1>4. CASE WriteCheckOut(c)
  <2>1. kind[c] = "clock_out" /\ status[c].is_clocked_in
    BY <1>1, <1>4 DEF WriteCheckOut, Allowed
  <2>2. PICK x \in Id : x = status[c].last_attendance_id /\ x \in Of(e)
    BY <1>0, <1>1, <2>1 DEF CallOK
  <2>3. /\ attendance[x] \in Record /\ attendance[x] # NONE
        /\ attendance[x].employee_id = e /\ attendance[x].check_in \in Nat
    BY <1>0, <2>2, OfEmployee
  <2>4. attendance' = [attendance EXCEPT ![x].check_out = now[c]]
    BY <1>4, <2>2 DEF WriteCheckOut
  <2>5. /\ attendance'[x] = [attendance[x] EXCEPT !.check_out = now[c]]
        /\ \A a \in Id \ {x} : attendance'[a] = attendance[a]
    BY <1>0, <2>2, <2>4 DEF TypeOK
  <2>6. /\ attendance'[x] \in Record
        /\ attendance'[x].employee_id = e
        /\ attendance'[x].check_in = attendance[x].check_in
        /\ attendance'[x].check_out = now[c]
    BY <1>1, <2>3, <2>5 DEF Record
  <2>7. attendance' \in [Id -> Record \cup {NONE}] /\ attendance'[x] # NONE
    BY <1>0, <2>2, <2>4, <2>6, AttendanceConstants DEF TypeOK
  <2>8. /\ crossed' \in {crossed, crossed \cup {e}} /\ misdated' = misdated
        /\ e \notin crossed' => ~Crosses(c, e) /\ e \notin crossed
    BY <1>4 DEF WriteCheckOut, NoteCrossing
  <2>9. e \notin crossed' => x \in Open(e) /\ IsOpen(x)
    BY <1>2, <2>1, <2>2, <2>8 DEF Open
  <2>10. ASSUME e \notin crossed' \cup misdated' PROVE EmployeeOK(e)'
    <3>1. x \in Open(e) /\ EmployeeOK(e)
      BY <1>2, <2>8, <2>9, <2>10
    <3>2. Open(e)' \subseteq Open(e) \ {x} /\ Of(e)' = Of(e)
      <4>1. x \in Of(e)' /\ \A a \in Id \ {x} : a \in Of(e)' <=> a \in Of(e)
        BY <2>2, <2>5, <2>6, <2>7 DEF Of
      <4>2. Of(e)' = Of(e)
        BY <2>2, <4>1 DEF Of
      <4>3. ~IsOpen(x)' /\ \A a \in Id \ {x} : IsOpen(a)' = IsOpen(a)
        BY <1>1, <2>5, <2>6 DEF IsOpen
      <4>4. QED BY <4>2, <4>3 DEF Open, Of
    <3>3. \A a \in Of(e) : attendance'[a].check_in = attendance[a].check_in
      BY <2>5, <2>6 DEF Of
    <3>4. QED BY <3>1, <3>2, <3>3 DEF EmployeeOK, BeganLast, Open
  <2>11. QED BY <2>2, <2>3, <2>5, <2>6, <2>7, <2>8, <2>9, <2>10
<1>5. QED BY <1>3, <1>4

\* A write of a call, in time or late, that reaches the server.
Writes(c) == (pc[c] = "write" \/ c \in late) /\ (Create(c) \/ WriteCheckOut(c))

\* It takes no attendance away from anybody, and gives none to another call.
LEMMA WriteKeeps ==
    ASSUME AttendanceInv, NEW c \in Call, Writes(c)
    PROVE  /\ attendance' \in [Id -> Record \cup {NONE}]
           /\ \A f : Of(f) \subseteq Of(f)'
           /\ \A d \in Call \ {c} : attendance'[d] # NONE => attendance[d] # NONE
           /\ crossed' \in {crossed, crossed \cup {employee_id[c]}}
           /\ misdated' \in {misdated, misdated \cup {employee_id[c]}}
           /\ employee_id[c] \in Employee
<1>0. CallOK(c)
  BY DEF AttendanceInv
<1>1. PICK e : e = employee_id[c]
  OBVIOUS
<1>2. PICK x \in Id :
               /\ attendance' \in [Id -> Record \cup {NONE}]
               /\ \A a \in Id \ {x} : attendance'[a] = attendance[a]
               /\ attendance'[x] # NONE
               /\ attendance'[x].employee_id = e
               /\ attendance[x] = NONE \/ attendance[x].employee_id = e
               /\ attendance[x] = NONE => x = c
               /\ crossed' \in {crossed, crossed \cup {e}}
               /\ misdated' \in {misdated, misdated \cup {e}}
  BY <1>1, WriteEffect DEF Writes
<1>3. ASSUME NEW f, NEW a \in Of(f) PROVE a \in Of(f)'
  BY <1>2, <1>3 DEF Of
<1>4. \A d \in Call \ {c} : attendance'[d] # NONE => attendance[d] # NONE
  BY <1>2 DEF Id
<1>5. employee_id[c] \in Employee
  BY <1>0 DEF CallOK, Informed, Writes
<1>6. QED BY <1>1, <1>2, <1>3, <1>4, <1>5

\* It leaves the attendances of other employees alone, and its own employee's
\* in order, or that one is misdated or its calls have crossed.
LEMMA WriteOrCross ==
    ASSUME AttendanceInv, NEW c \in Call, Writes(c), NEW f \in Employee, f \notin crossed'
    PROVE  /\ f \notin misdated' => EmployeeOK(f)'
           /\ IF f = employee_id[c] THEN ~Crosses(c, f)
                                    ELSE /\ Statuses(f)' = Statuses(f)
                                         /\ Of(f)' = Of(f)
                                         /\ \A a \in Of(f) : attendance'[a] = attendance[a]
<1>0. TypeOK
  BY DEF AttendanceInv
<1>1. PICK e : e = employee_id[c]
  OBVIOUS
<1>2. PICK x \in Id :
               /\ \A a \in Id \ {x} : attendance'[a] = attendance[a]
               /\ attendance'[x].employee_id = e
               /\ attendance[x] = NONE \/ attendance[x].employee_id = e
               /\ crossed' \in {crossed, crossed \cup {e}}
               /\ misdated' \in {misdated, misdated \cup {e}}
               /\ e \notin crossed' => ~Crosses(c, e)
               /\ e \notin crossed' \cup misdated' => EmployeeOK(e)'
  BY <1>1, WriteEffect DEF Writes
<1>3. CASE f = e
  BY <1>1, <1>2, <1>3
<1>4. CASE f # e
  <2>1. f \notin misdated' => EmployeeOK(f)
    BY <1>2 DEF AttendanceInv
  <2>2. QED BY <1>0, <1>1, <1>2, <1>4, <2>1, OtherEmployees
<1>5. QED BY <1>3, <1>4

-----------------------------------------------------------------------------
(* Initial states and types *)

LEMMA InitInv == Init => AttendanceInv
<1> SUFFICES ASSUME Init PROVE AttendanceInv
  OBVIOUS
<1>1. TypeOK
  <2>1. attendance \in [Id -> Record \cup {NONE}]
    <3>1. PICK old \in [Old -> Record \cup {NONE}] :
               attendance = [a \in Id |-> IF a \in Old THEN old[a] ELSE NONE]
      BY DEF Init
    <3>2. QED BY <3>1
  <2>2. misdated \in SUBSET Employee
    BY DEF Init
  <2>3. QED BY <2>1, <2>2 DEF Init, TypeOK, NotClockedIn
<1>2. \A c \in Call : attendance[c] = NONE /\ ~Informed(c)
  BY AttendanceConstants DEF Init, Informed, Id
<1>3. \A c \in Call : CallOK(c)
  BY <1>2 DEF Init, CallOK
<1>4. \A e \in Employee \ misdated : EmployeeOK(e)
  BY DEF Init, EmployeeOK
<1>5. QED BY <1>1, <1>2, <1>3, <1>4 DEF AttendanceInv

LEMMA NextType == AttendanceInv /\ [Next]_vars => TypeOK'
<1> SUFFICES ASSUME AttendanceInv, [Next]_vars PROVE TypeOK'
  OBVIOUS
<1> USE DEF TypeOK, serverVars, callVars, historyVars
<1>0. TypeOK
  BY DEF AttendanceInv
<1>1. ASSUME NEW c \in Call, NEW e \in Employee \cup {NONE}, Begin(c, e) PROVE TypeOK'
  BY <1>0, <1>1 DEF Begin
<1>2. ASSUME NEW c \in Call, ResolveEmployee(c) PROVE TypeOK'
  <2>1. session \in User
    BY <1>0, <1>2 DEF AttendanceInv, CallOK, ResolveEmployee
  <2>2. QED BY <1>0, <1>2, <2>1 DEF ResolveEmployee
<1>3. ASSUME NEW c \in Call, GetStatus(c) PROVE TypeOK'
  <2>1. PICK s \in Statuses(employee_id[c]) : status' = [status EXCEPT ![c] = s]
    BY <1>3 DEF GetStatus
  <2>2. s \in [is_clocked_in : BOOLEAN, last_attendance_id : Id \cup {NONE}]
    BY <1>0, StatusType
  <2>3. QED BY <1>0, <1>3, <2>1, <2>2 DEF GetStatus
<1>4. ASSUME NEW c \in Call, Decide(c) PROVE TypeOK'
  <2>1. \/ now' = now
        \/ \E t \in Time : now' = [now EXCEPT ![c] = t]
    BY <1>4 DEF Decide
  <2>2. now' \in [Call -> Time \cup {NONE}]
    BY <1>0, <2>1
  <2>3. QED BY <1>0, <1>4, <2>2 DEF Decide
<1>5. ASSUME NEW c \in Call, Writes(c) PROVE /\ attendance' \in [Id -> Record \cup {NONE}]
                                             /\ crossed' \in SUBSET Employee
                                             /\ misdated' \in SUBSET Employee
  BY <1>0, <1>5, WriteKeeps
<1>6. ASSUME NEW c \in Call, Write(c) PROVE TypeOK'
  BY <1>0, <1>5, <1>6 DEF Write, Writes
<1>7. ASSUME NEW c \in Call, Fail(c) PROVE TypeOK'
  BY <1>0, <1>7 DEF Fail
<1>8. ASSUME NEW c \in Call, LateWrite(c) PROVE TypeOK'
  BY <1>0, <1>5, <1>8 DEF LateWrite, Writes
<1>9. CASE UNCHANGED vars
  BY <1>0, <1>9 DEF vars
<1>10. QED
  BY <1>1, <1>2, <1>3, <1>4, <1>6, <1>7, <1>8, <1>9 DEF Next

-----------------------------------------------------------------------------
(* The calls *)

\* A step of one call leaves the others as they are.
LEMMA OtherCalls ==
    ASSUME TypeOK, NEW c \in Call, NEW d \in Call \ {c},
           \/ \E e \in Employee \cup {NONE} : Begin(c, e)
           \/ ResolveEmployee(c) \/ GetStatus(c) \/ Decide(c) \/ Write(c) \/ Fail(c)
           \/ LateWrite(c)
    PROVE  /\ pc'[d] = pc[d] /\ kind'[d] = kind[d] /\ employee_id'[d] = employee_id[d]
           /\ status'[d] = status[d] /\ now'[d] = now[d]
           /\ d \in late' <=> d \in late
           /\ session' = session
<1> USE DEF TypeOK, serverVars
<1>1. ASSUME NEW e \in Employee \cup {NONE}, Begin(c, e)
      PROVE  /\ pc'[d] = pc[d] /\ employee_id'[d] = employee_id[d]
             /\ UNCHANGED <<kind, status, now, late, session>>
  BY <1>1 DEF Begin
<1>2. CASE ResolveEmployee(c)
  BY <1>2 DEF ResolveEmployee
<1>3. CASE GetStatus(c)
  BY <1>3 DEF GetStatus
<1>4. CASE Decide(c)
  BY <1>4 DEF Decide
<1>5. CASE Write(c)
  BY <1>5 DEF Write
<1>6. CASE Fail(c)
  BY <1>6 DEF Fail
<1>7. CASE LateWrite(c)
  BY <1>7 DEF LateWrite
<1>8. QED BY <1>1, <1>2, <1>3, <1>4, <1>5, <1>6, <1>7

\* What a call knows stays true of it while no attendance is taken away.
LEMMA CallStays ==
    ASSUME TypeOK, NEW d \in Call, CallOK(d),
           pc'[d] = pc[d], kind'[d] = kind[d], employee_id'[d] = employee_id[d],
           status'[d] = status[d], now'[d] = now[d], d \in late' <=> d \in late,
           session' = session,
           \A f : Of(f) \subseteq Of(f)',
           attendance'[d] # NONE => attendance[d] # NONE
    PROVE  CallOK(d)' /\ (Informed(d)' <=> Informed(d))
<1>1. Informed(d)' <=> Informed(d)
  BY DEF Informed
<1>2. Allowed(d)' <=> Allowed(d)
  BY DEF Allowed
<1>3. PICK e : e = employee_id[d]
  OBVIOUS
<1>4. Of(e) \subseteq Of(e)'
  OBVIOUS
<1>5. status[d].last_attendance_id \in Of(e) =>
          status'[d].last_attendance_id \in Of(employee_id[d])'
  BY <1>3, <1>4 DEF Of
<1>6. QED BY <1>1, <1>2, <1>3, <1>5 DEF CallOK

LEMMA NextCall == AttendanceInv /\ [Next]_vars => \A d \in Call : CallOK(d)'
<1> SUFFICES ASSUME AttendanceInv, [Next]_vars, NEW d \in Call PROVE CallOK(d)'
  OBVIOUS
<1> USE DEF serverVars, callVars
<1>0. TypeOK /\ CallOK(d)
  BY DEF AttendanceInv
<1>1. ASSUME NEW c \in Call, c # d,
             \/ \E e \in Employee \cup {NONE} : Begin(c, e)
             \/ ResolveEmployee(c) \/ GetStatus(c) \/ Decide(c) \/ Write(c) \/ Fail(c)
             \/ LateWrite(c)
      PROVE  CallOK(d)'
  <2>1. Writes(c) \/ UNCHANGED attendance
    BY <1>1 DEF Begin, ResolveEmployee, GetStatus, Decide, Write, Fail, LateWrite, Writes
  <2>2. /\ \A f : Of(f) \subseteq Of(f)'
        /\ attendance'[d] # NONE => attendance[d] # NONE
    BY <1>1, <2>1, WriteKeeps, SameAttendance
  <2>3. QED BY <1>0, <1>1, <2>2, OtherCalls, CallStays
<1>2. ASSUME NEW e \in Employee \cup {NONE}, Begin(d, e) PROVE CallOK(d)'
  BY <1>0, <1>2 DEF Begin, CallOK, Informed, TypeOK
<1>3. CASE ResolveEmployee(d)
  <2>1. employee_of[session] \in Employee \cup {NONE}
    BY <1>0, <1>3 DEF ResolveEmployee, CallOK, TypeOK
  <2>2. QED BY <1>0, <1>3, <2>1 DEF ResolveEmployee, CallOK, Informed, TypeOK
<1>4. CASE GetStatus(d)
  <2>1. PICK s \in Statuses(employee_id[d]) : status' = [status EXCEPT ![d] = s]
    BY <1>4 DEF GetStatus
  <2>2. /\ status'[d] = s /\ pc[d] = "get_status" /\ pc'[d] = "decide"
        /\ UNCHANGED <<attendance, session, employee_id, late>>
    BY <1>0, <1>4, <2>1 DEF GetStatus, TypeOK
  <2>3. PICK e : e = employee_id[d]
    OBVIOUS
  <2>4. s.is_clocked_in => s.last_attendance_id \in Of(e) /\ s.last_attendance_id \in Id
    BY <1>0, <2>1, <2>3, StatusType DEF Of
  <2>5. s.is_clocked_in => status'[d].last_attendance_id \in Of(employee_id[d])'
    BY <2>2, <2>3, <2>4 DEF Of
  <2>6. d \notin late /\ employee_id[d] \in Employee /\ attendance[d] = NONE
    BY <1>0, <2>2 DEF CallOK
  <2>7. QED BY <2>2, <2>4, <2>5, <2>6 DEF CallOK
<1>5. CASE Decide(d)
  <2>1. /\ pc[d] = "decide" /\ pc'[d] \in {"refused", "write"}
        /\ UNCHANGED <<attendance, session, kind, employee_id, status, late>>
        /\ pc'[d] = "write" => Allowed(d) /\ now'[d] \in Time
    BY <1>0, <1>5 DEF Decide, TypeOK
  <2>2. /\ pc'[d] = "write" => now'[d] # NONE
        /\ Informed(d) /\ (Allowed(d)' <=> Allowed(d))
    BY <2>1, AttendanceConstants DEF Informed, Allowed
  <2>3. \A f : Of(f)' = Of(f)
    BY <2>1, SameAttendance
  <2>4. PICK e : e = employee_id[d]
    OBVIOUS
  <2>5. status[d].last_attendance_id \in Of(e) =>
            status'[d].last_attendance_id \in Of(employee_id[d])'
    BY <2>1, <2>4 DEF Of
  <2>6. QED BY <1>0, <2>1, <2>2, <2>4, <2>5 DEF CallOK
<1>6. CASE Write(d)
  <2>1. pc[d] = "write" /\ pc'[d] = "done" /\ UNCHANGED <<session, employee_id, late>>
    BY <1>0, <1>6 DEF Write, TypeOK
  <2>2. d \notin late
    BY <1>0, <2>1 DEF CallOK
  <2>3. QED BY <2>1, <2>2 DEF CallOK, Informed
<1>7. CASE Fail(d)
  <2>1. /\ pc[d] \in {"resolve", "get_status", "write"} /\ pc'[d] = "raised"
        /\ UNCHANGED <<attendance, session, kind, employee_id, status, now>>
        /\ d \in late' => pc[d] = "write" \/ d \in late
    BY <1>0, <1>7 DEF Fail, TypeOK
  <2>2. d \notin late
    BY <1>0, <2>1 DEF CallOK
  <2>3. (Allowed(d)' <=> Allowed(d)) /\ attendance[d] = NONE
    BY <1>0, <2>1 DEF Allowed, CallOK
  <2>4. PICK e : e = employee_id[d]
    OBVIOUS
  <2>5. status[d].last_attendance_id \in Of(e) =>
            status'[d].last_attendance_id \in Of(employee_id[d])'
    BY <2>1, <2>4 DEF Of
  <2>6. d \in late' => Informed(d)
    BY <2>1, <2>2 DEF Informed
  <2>7. QED BY <1>0, <2>1, <2>2, <2>3, <2>4, <2>5, <2>6 DEF CallOK, Informed
<1>8. CASE LateWrite(d)
  <2>1. d \in late /\ d \notin late' /\ UNCHANGED <<session, employee_id, pc>>
    BY <1>8 DEF LateWrite
  <2>2. pc[d] = "raised"
    BY <1>0, <2>1 DEF CallOK
  <2>3. QED BY <2>1, <2>2 DEF CallOK, Informed
<1>9. CASE UNCHANGED vars
  <2>1. UNCHANGED <<attendance, session, callVars>>
    BY <1>9 DEF vars
  <2>2. \A f : Of(f)' = Of(f)
    BY <2>1, SameAttendance
  <2>3. QED BY <1>0, <2>1, <2>2, CallStays
<1>10. QED
  BY <1>1, <1>2, <1>3, <1>4, <1>5, <1>6, <1>7, <1>8, <1>9 DEF Next

-----------------------------------------------------------------------------
(* What calls know of employees *)

LEMMA NextEmployee ==
    AttendanceInv /\ [Next]_vars =>
        \A e \in Employee \ (crossed' \cup misdated') : EmployeeOK(e)'
<1> SUFFICES ASSUME AttendanceInv, [Next]_vars, NEW e \in Employee, e \notin crossed',
                    e \notin misdated'
             PROVE  EmployeeOK(e)'
  OBVIOUS
<1>1. ASSUME NEW c \in Call, Writes(c) PROVE EmployeeOK(e)'
  BY <1>1, WriteOrCross
<1>2. CASE UNCHANGED <<attendance, historyVars>>
  BY <1>2, SameAttendance DEF AttendanceInv, historyVars
<1>3. (\E c \in Call : Writes(c)) \/ UNCHANGED <<attendance, historyVars>>
  BY DEF Next, Begin, ResolveEmployee, GetStatus, Decide, Write, Fail, LateWrite,
         Writes, vars, serverVars
<1>4. QED BY <1>1, <1>2, <1>3

LEMMA StatusStays ==
    ASSUME NEW d \in Call, StatusOK(d),
           UNCHANGED attendance, employee_id'[d] = employee_id[d],
           status'[d] = status[d]
    PROVE  StatusOK(d)'
<1>1. PICK e : e = employee_id[d]
  OBVIOUS
<1>2. Of(e)' = Of(e) /\ Statuses(e)' = Statuses(e)
  BY SameAttendance
<1>3. Of(employee_id[d])' = Of(e)' /\ Statuses(employee_id[d])' = Statuses(e)'
  BY <1>1 DEF Of, Statuses, Latest
<1>4. QED BY <1>1, <1>2, <1>3 DEF StatusOK

LEMMA NextStatus ==
    AttendanceInv /\ [Next]_vars =>
        \A d \in Call : Informed(d)' /\ employee_id'[d] \notin crossed' => StatusOK(d)'
<1> SUFFICES ASSUME AttendanceInv, [Next]_vars, NEW d \in Call, Informed(d)',
                    employee_id'[d] \notin crossed'
             PROVE  StatusOK(d)'
  OBVIOUS
<1> USE DEF serverVars, callVars, historyVars
<1>0. /\ TypeOK /\ CallOK(d)
      /\ Informed(d) /\ employee_id[d] \notin crossed => StatusOK(d)
  BY DEF AttendanceInv
<1>1. ASSUME NEW c \in Call, c # d,
             \/ \E e \in Employee \cup {NONE} : Begin(c, e)
             \/ ResolveEmployee(c) \/ GetStatus(c) \/ Decide(c) \/ Write(c) \/ Fail(c)
             \/ LateWrite(c)
      PROVE  StatusOK(d)'
  <2>1. /\ pc'[d] = pc[d] /\ employee_id'[d] = employee_id[d]
        /\ status'[d] = status[d]
        /\ d \in late' <=> d \in late
    BY <1>0, <1>1, OtherCalls
  <2>2. Informed(d)
    BY <2>1 DEF Informed
  <2>3. CASE UNCHANGED <<attendance, crossed>>
    BY <1>0, <2>1, <2>2, <2>3, StatusStays
  <2>4. CASE Writes(c)
    <3>1. PICK e : e = employee_id[d]
      OBVIOUS
    <3>2. e \in Employee /\ e \notin crossed' /\ e \notin crossed
      BY <1>0, <2>1, <2>2, <2>4, <3>1, WriteKeeps DEF CallOK
    <3>3. Crosses(c, e)
      BY <1>1, <2>2, <3>1 DEF Crosses
    <3>4. CASE e # employee_id[c]
      <4>1. Statuses(e)' = Statuses(e)
        BY <2>4, <3>2, <3>4, WriteOrCross
      <4>2. Statuses(employee_id[d])' = Statuses(e)'
        BY <2>1, <3>1 DEF Of, Statuses, Latest
      <4>3. StatusOK(d)
        BY <1>0, <2>2, <3>1, <3>2
      <4>4. QED BY <2>1, <3>1, <4>1, <4>2, <4>3 DEF StatusOK
    <3>5. CASE e = employee_id[c]
      BY <2>4, <3>2, <3>3, <3>5, WriteOrCross
    <3>6. QED BY <3>4, <3>5
  <2>5. QED
    BY <1>1, <2>3, <2>4
       DEF Begin, ResolveEmployee, GetStatus, Decide, Write, Fail, LateWrite, Writes
<1>2. CASE GetStatus(d)
  <2>1. PICK s \in Statuses(employee_id[d]) : status' = [status EXCEPT ![d] = s]
    BY <1>2 DEF GetStatus
  <2>2. PICK e : e = employee_id[d]
    OBVIOUS
  <2>3. status'[d] \in Statuses(e) /\ employee_id'[d] = e /\ UNCHANGED attendance
    BY <1>0, <1>2, <2>1, <2>2 DEF GetStatus, TypeOK
  <2>4. Statuses(employee_id[d])' = Statuses(e)
    BY <2>3 DEF Statuses, Of, Latest, IsOpen
  <2>5. QED BY <2>3, <2>4 DEF StatusOK
<1>3. CASE Decide(d) \/ Fail(d)
  <2>1. /\ UNCHANGED <<attendance, crossed, employee_id, status>>
        /\ pc[d] = "decide" \/ (pc'[d] = "raised" /\ (d \in late' => pc[d] = "write" \/ d \in late))
    BY <1>0, <1>3 DEF Decide, Fail, TypeOK
  <2>2. Informed(d)
    BY <2>1 DEF Informed
  <2>3. QED BY <1>0, <2>1, <2>2, StatusStays
\* The other steps of a call leave it uninformed.
<1>4. CASE \/ \E e \in Employee \cup {NONE} : Begin(d, e)
           \/ ResolveEmployee(d) \/ Write(d) \/ LateWrite(d)
  <2>1. ~Informed(d)'
    BY <1>0, <1>4 DEF Begin, ResolveEmployee, Write, LateWrite, Informed, CallOK, TypeOK
  <2>2. QED BY <2>1
<1>5. CASE UNCHANGED vars
  <2>1. UNCHANGED <<attendance, callVars, crossed>>
    BY <1>5 DEF vars
  <2>2. Informed(d)
    BY <2>1 DEF Informed
  <2>3. QED BY <1>0, <2>1, <2>2, StatusStays
<1>6. QED
  BY <1>1, <1>2, <1>3, <1>4, <1>5 DEF Next

LEMMA NextInv == AttendanceInv /\ [Next]_vars => AttendanceInv'
BY NextType, NextCall, NextEmployee, NextStatus DEF AttendanceInv

-----------------------------------------------------------------------------
(* Theorems *)

\* What calls know of an employee fits the attendances there are, unless calls
\* have crossed; and an open attendance is the latest, unless one began no later
\* than another, besides.  Nothing is assumed of the clocks, nor of the records
\* there are at first.
THEOREM AttendanceInvariance == Spec => []AttendanceInv
<1>1. QED BY InitInv, NextInv, PTL DEF Spec

\* clock_in and clock_out leave an employee with one open attendance at most,
\* unless requests about that employee have crossed, or one of its attendances
\* began no later than another.
THEOREM OneOpen == Spec => []AtMostOneOpen
<1>1. ASSUME AttendanceInv PROVE AtMostOneOpen
  <2>1. SUFFICES ASSUME NEW e \in Employee \ (crossed \cup misdated)
                 PROVE  Cardinality(Open(e)) <= 1
    BY DEF AtMostOneOpen
  <2>2. ASSUME NEW a \in Open(e), NEW b \in Open(e) PROVE a = b
    <3>1. TypeOK /\ EmployeeOK(e)
      BY <1>1 DEF AttendanceInv
    <3>2. a \in Of(e) /\ b \in Of(e)
      BY DEF Open
    <3>3. attendance[a].check_in \in Nat /\ attendance[b].check_in \in Nat
      BY <3>1, <3>2, OfEmployee
    <3>4. a # b => /\ attendance[b].check_in < attendance[a].check_in
                   /\ attendance[a].check_in < attendance[b].check_in
      BY <3>1, <3>2 DEF EmployeeOK, BeganLast
    <3>5. QED BY <3>3, <3>4
  <2>3. CASE Open(e) = {}
    BY <2>3, FS_EmptySet
  <2>4. CASE Open(e) # {}
    <3>1. PICK a : Open(e) = {a}
      BY <2>2, <2>4
    <3>2. Cardinality({a}) = 1
      BY FS_Singleton
    <3>3. QED BY <3>1, <3>2
  <2>5. QED BY <2>3, <2>4
<1>2. QED BY <1>1, AttendanceInvariance, PTL

\* clock_out closes an open attendance, and clock_in writes a new one: no step
\* changes one that is closed, unless requests about its employee have crossed,
\* whatever the clocks show.
THEOREM ClosedStaysClosed == Spec => ClosedStays
<1> DEFINE Stays(a) ==
               attendance[a] # NONE /\ ~IsOpen(a) =>
                   attendance'[a] = attendance[a] \/ attendance[a].employee_id \in crossed'
<1>1. ASSUME AttendanceInv, [Next]_vars, NEW a \in Id PROVE Stays(a)
  <2>1. CASE UNCHANGED attendance
    BY <2>1
  <2>2. ASSUME NEW c \in Call, Writes(c) PROVE Stays(a)
    <3>1. PICK e : e = employee_id[c]
      OBVIOUS
    <3>2. PICK x \in Id :
                   /\ \A b \in Id \ {x} : attendance'[b] = attendance[b]
                   /\ attendance[x] = NONE \/ attendance[x].employee_id = e
                   /\ e \notin crossed' => attendance[x] = NONE \/ IsOpen(x)
      BY <1>1, <2>2, <3>1, WriteEffect DEF Writes
    <3>3. QED BY <3>2
  <2>3. (\E c \in Call : Writes(c)) \/ UNCHANGED attendance
    BY <1>1 DEF Next, Begin, ResolveEmployee, GetStatus, Decide, Write, Fail, LateWrite,
                Writes, vars, serverVars
  <2>4. QED BY <2>1, <2>2, <2>3
<1>2. AttendanceInv /\ [Next]_vars => [\A a \in Id : Stays(a)]_vars
  BY <1>1
<1>3. QED BY <1>2, AttendanceInvariance, PTL DEF Spec, ClosedStays

\* The errors of clock_in and clock_out are true unless calls have crossed:
\* there is an open attendance when the one is refused, and none when the other
\* is, unless an attendance began no later than another.
THEOREM RefusalsAreRight == Spec => RefusedRightly
<1> DEFINE Right(c) ==
               pc[c] = "decide" /\ pc'[c] = "refused" /\ employee_id[c] \notin crossed =>
                   IF kind[c] = "clock_in"
                   THEN Open(employee_id[c]) # {}
                   ELSE employee_id[c] \in misdated \/ Open(employee_id[c]) = {}
<1>1. ASSUME AttendanceInv, [Next]_vars, NEW c \in Call PROVE Right(c)
  <2>1. SUFFICES ASSUME pc[c] = "decide", pc'[c] = "refused", employee_id[c] \notin crossed
                 PROVE  IF kind[c] = "clock_in"
                        THEN Open(employee_id[c]) # {}
                        ELSE employee_id[c] \in misdated \/ Open(employee_id[c]) = {}
    OBVIOUS
  <2>2. /\ TypeOK /\ Informed(c) /\ employee_id[c] \in Employee
        /\ StatusOK(c)
        /\ employee_id[c] \notin misdated => EmployeeOK(employee_id[c])
    BY <1>1, <2>1 DEF AttendanceInv, CallOK, Informed
  <2>3. ~Allowed(c)
    <3>1. ASSUME NEW d \in Call, d # c,
                 \/ \E e \in Employee \cup {NONE} : Begin(d, e)
                 \/ ResolveEmployee(d) \/ GetStatus(d) \/ Decide(d) \/ Write(d) \/ Fail(d)
                 \/ LateWrite(d)
          PROVE  FALSE
      BY <2>1, <2>2, <3>1, OtherCalls
    <3>2. CASE Decide(c)
      BY <2>1, <2>2, <3>2 DEF Decide, TypeOK
    <3>3. CASE \/ \E e \in Employee \cup {NONE} : Begin(c, e)
               \/ ResolveEmployee(c) \/ GetStatus(c) \/ Write(c) \/ Fail(c) \/ LateWrite(c)
      BY <2>1, <2>2, <3>3
         DEF Begin, ResolveEmployee, GetStatus, Write, Fail, LateWrite, TypeOK
    <3>4. CASE UNCHANGED vars
      BY <2>1, <3>4 DEF vars, callVars
    <3>5. QED BY <1>1, <3>1, <3>2, <3>3, <3>4 DEF Next
  <2>4. /\ status[c].is_clocked_in => Open(employee_id[c]) # {}
        /\ employee_id[c] \notin misdated =>
               (status[c].is_clocked_in <=> Open(employee_id[c]) # {})
    BY <2>2, StatusOpen, StatusTells DEF StatusOK
  <2>5. kind[c] = "clock_in" <=> status[c].is_clocked_in
    BY <2>2, <2>3 DEF Allowed, TypeOK
  <2>6. QED BY <2>4, <2>5
<1>2. AttendanceInv /\ [Next]_vars => [\A c \in Call : Right(c)]_vars
  BY <1>1
<1>3. QED BY <1>2, AttendanceInvariance, PTL DEF Spec, RefusedRightly

=============================================================================
