------------------------------- MODULE MCMail -------------------------------
(***************************************************************************)
(* Mail for TLC: posts that are tried again beside each other; and errors  *)
(* as they are told apart by their codes.                                  *)
(***************************************************************************)
EXTENDS Mail

\* Every class of errors.py has a code of its own, which it does not inherit.
ASSUME CodesTellClasses ==
    /\ DOMAIN to_json = OdooClass
    /\ \A j, k \in OdooClass : to_json[j] = to_json[k] => j = k

\* The server's errors become classes that the guide has handlers for, and
\* never one that says nothing was answered.
ASSUME ServerErrorsAreAnswers ==
    \A k \in raises("rpc_error") : k \in OdooClass /\ ~IsInstance(k, "OdooNetworkError")

=============================================================================
