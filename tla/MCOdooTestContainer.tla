------------------------- MODULE MCOdooTestContainer -------------------------
(***************************************************************************)
(* OdooTestContainer for TLC: three modules; waits of three polls, of two  *)
(* after a failed installation.                                            *)
(***************************************************************************)
EXTENDS OdooTestContainer

=============================================================================
