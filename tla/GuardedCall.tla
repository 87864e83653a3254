---------------------------- MODULE GuardedCall ----------------------------
(***************************************************************************)
(* What OdooClient.call promises its caller, with no wire, no session and  *)
(* no guard in sight: a call takes effect on the server at most once, a    *)
(* call that returns normally took effect exactly once, and a call that is *)
(* refused never takes effect, however late.  A call that fails tells its  *)
(* caller nothing: its effect may already have happened, may still happen  *)
(* after the failure was reported, or may never happen.                    *)
(***************************************************************************)
EXTENDS Naturals

CONSTANT
    Call            \* one member per invocation of OdooClient.call

VARIABLES
    status,         \* status[c]: what the caller of c has been told: "idle",
                    \* "pending", "ok", "refused" or "failed"
    effects         \* effects[c]: how often the server carried c out

vars == <<status, effects>>

Init ==
    /\ status = [c \in Call |-> "idle"]
    /\ effects = [c \in Call |-> 0]

Invoke(c) ==
    /\ status[c] = "idle"
    /\ status' = [status EXCEPT ![c] = "pending"]
    /\ UNCHANGED effects

\* The effect may come before the answer or after the caller has given up.
TakeEffect(c) ==
    /\ status[c] \in {"pending", "failed"}
    /\ effects[c] = 0
    /\ effects' = [effects EXCEPT ![c] = 1]
    /\ UNCHANGED status

ReturnOk(c) ==
    /\ status[c] = "pending"
    /\ effects[c] = 1
    /\ status' = [status EXCEPT ![c] = "ok"]
    /\ UNCHANGED effects

\* A refusal is given at once (an unauthenticated call) or after some waiting.
Refuse(c) ==
    /\ status[c] \in {"idle", "pending"}
    /\ effects[c] = 0
    /\ status' = [status EXCEPT ![c] = "refused"]
    /\ UNCHANGED effects

Fail(c) ==
    /\ status[c] = "pending"
    /\ status' = [status EXCEPT ![c] = "failed"]
    /\ UNCHANGED effects

Next ==
    \E c \in Call :
        Invoke(c) \/ TakeEffect(c) \/ ReturnOk(c) \/ Refuse(c) \/ Fail(c)

Spec == Init /\ [][Next]_vars

=============================================================================
