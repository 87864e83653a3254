---------------------------- MODULE MCTimesheets ----------------------------
(***************************************************************************)
(* Timesheets for TLC: the calls are interchangeable.                      *)
(***************************************************************************)
EXTENDS Timesheets, TLC

Symmetry == Permutations(Call)

=============================================================================
