------------------------------- MODULE Errors -------------------------------
(***************************************************************************)
(* errors.py and the places that choose one of its classes: which          *)
(* exceptions OdooClient.call ends with, which except clause catches them, *)
(* and the code to_json gives them.                                        *)
(*                                                                         *)
(* There is no state: OdooClient tells the ways apart in which a call can  *)
(* end, and the operators here say what its caller sees of each.           *)
(***************************************************************************)

\* How OdooClient.call can end.
Outcome ==
    {"ok", "rpc_error", "network_error", "protocol_error", "closed_error",
     "auth_error", "safety_error", "callback_error", "cancelled"}

\* The outcomes after which the server has not carried the call out, and will
\* not.
Refusals == {"auth_error", "safety_error", "callback_error", "closed_error", "rpc_error"}

-----------------------------------------------------------------------------
(* The class hierarchy *)

\* The classes of errors.py and those of others that a call may raise.
Parent ==
    [OdooError           |-> "Exception",
     OdooRpcError        |-> "OdooError",
     OdooAuthError       |-> "OdooRpcError",
     OdooNetworkError    |-> "OdooRpcError",
     OdooTimeoutError    |-> "OdooNetworkError",
     OdooValidationError |-> "OdooRpcError",
     OdooAccessError     |-> "OdooRpcError",
     OdooMissingError    |-> "OdooRpcError",
     OdooSafetyError     |-> "OdooError",
     RuntimeError        |-> "Exception",
     TypeError           |-> "Exception",
     ValueError          |-> "Exception",
     KeyError            |-> "Exception",
     JSONDecodeError     |-> "ValueError",
     CallbackError       |-> "Exception",
     Exception           |-> "BaseException",
     CancelledError      |-> "BaseException"]

Class == DOMAIN Parent

\* isinstance: the hierarchy is at most five classes deep.
WithParents(S) == S \cup {Parent[k] : k \in S \cap Class}

Lineage(k) == WithParents(WithParents(WithParents(WithParents(WithParents({k})))))

IsInstance(k, handled) == handled \in Lineage(k)

OdooClass == {k \in Class : IsInstance(k, "OdooError")}

\* Each class overrides the code of the one above.
to_json ==
    [OdooError           |-> "ODOO_ERROR",
     OdooRpcError        |-> "RPC_ERROR",
     OdooAuthError       |-> "AUTH_ERROR",
     OdooNetworkError    |-> "NETWORK_ERROR",
     OdooTimeoutError    |-> "TIMEOUT_ERROR",
     OdooValidationError |-> "VALIDATION_ERROR",
     OdooAccessError     |-> "ACCESS_ERROR",
     OdooMissingError    |-> "MISSING_ERROR",
     OdooSafetyError     |-> "SAFETY_BLOCKED"]

-----------------------------------------------------------------------------
(* JsonRpcTransport._categorize_error *)

\* What the code looks for in data.exception_type, and as part of data.name.
ExceptionType ==
    {"access_denied", "access_error", "validation_error", "user_error",
     "missing_error", "other"}

NamePart == {"accessdenied", "accesserror", "validationerror", "usererror", "missingerror"}

\* The data of an error: its exception_type, and the parts its name contains.
ErrorData == [exception_type : ExceptionType, name : SUBSET NamePart]

\* The first of these that applies: exception_type before any part of the
\* name, and for both in this order.
_categorize_error(data) ==
    CASE data.exception_type = "access_denied" -> "OdooAuthError"
      [] data.exception_type = "access_error"  -> "OdooAccessError"
      [] data.exception_type \in {"validation_error", "user_error"} -> "OdooValidationError"
      [] data.exception_type = "missing_error" -> "OdooMissingError"
      [] data.exception_type = "other" ->
           IF "accessdenied" \in data.name THEN "OdooAuthError"
           ELSE IF "accesserror" \in data.name THEN "OdooAccessError"
           ELSE IF data.name \cap {"validationerror", "usererror"} # {}
           THEN "OdooValidationError"
           ELSE IF "missingerror" \in data.name THEN "OdooMissingError"
           ELSE "OdooRpcError"

-----------------------------------------------------------------------------
(* What a call raises *)

\* Fault: HTTP 401 and 403 are taken for an expired session.
post_raises_StatusIsAuth == {"OdooNetworkError", "OdooAuthError"}

\* A post that failed: an HTTP error status, a connection error, a timeout.  A
\* timeout is one of httpx's request errors like any other: OdooTimeoutError is
\* never raised.
post_raises == {"OdooNetworkError"}

\* The classes of exception a call that ended so may raise.
raises(how) ==
    CASE how = "ok"             -> {}
      [] how = "rpc_error"      -> {_categorize_error(data) : data \in ErrorData}
      [] how = "network_error"  -> post_raises
      [] how = "protocol_error" -> {"JSONDecodeError", "KeyError", "TypeError"}
      [] how = "closed_error"   -> {"RuntimeError"}
      [] how = "auth_error"     -> {"OdooAuthError"}
      [] how = "safety_error"   -> {"OdooSafetyError"}
      [] how = "callback_error" -> {"CallbackError"}
      [] how = "cancelled"      -> {"CancelledError"}

=============================================================================
