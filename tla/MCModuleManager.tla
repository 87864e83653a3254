-------------------------- MODULE MCModuleManager --------------------------
(***************************************************************************)
(* ModuleManager for TLC: jobs that install, uninstall and upgrade the     *)
(* same module at once.                                                    *)
(***************************************************************************)
EXTENDS ModuleManager

=============================================================================
