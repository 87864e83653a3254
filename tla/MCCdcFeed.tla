----------------------------- MODULE MCCdcFeed -----------------------------
(***************************************************************************)
(* CdcFeed for TLC: three rows in two messages, the second of which has    *)
(* two rows that a page of one or two rows tears apart.                    *)
(***************************************************************************)
EXTENDS CdcFeed

MCRow == 1 .. 3
MCMsg == 1 .. 2
MCMsgOf == <<1, 2, 2>>

=============================================================================
