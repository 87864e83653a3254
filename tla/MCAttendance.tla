---------------------------- MODULE MCAttendance ----------------------------
(***************************************************************************)
(* Attendance for TLC: calls, employees and users are model values.        *)
(***************************************************************************)
EXTENDS Attendance, TLC

Symmetry == Permutations(Call) \cup Permutations(Old) \cup Permutations(Employee)

=============================================================================
