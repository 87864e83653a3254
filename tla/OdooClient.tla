----------------------------- MODULE OdooClient -----------------------------
(***************************************************************************)
(* One godoo OdooClient (client.py) with its JsonRpcTransport              *)
(* (rpc/transport.py) and the safety guard (safety/__init__.py), shared by *)
(* any number of asyncio tasks of one event loop.                          *)
(*                                                                         *)
(* Each member of Call is one invocation of OdooClient.call and each       *)
(* member of Auth one invocation of OdooClient.authenticate.  A coroutine  *)
(* runs without interruption from one await to the next, so an action is   *)
(* the code between two awaits: call awaits the confirm callback and then  *)
(* the HTTP post; authenticate awaits its post.  The tasks that log out,   *)
(* swap the safety context or close the client do so between those steps.  *)
(*                                                                         *)
(* The Odoo server and httpx are outside the repository: a posted request  *)
(* is carried out at most once, rejected, or lost, and the post may fail   *)
(* at any time, before or after the server has acted on it.                *)
(***************************************************************************)
EXTENDS Naturals, Errors

CONSTANTS
    Call,           \* invocations of OdooClient.call
    Auth,           \* invocations of OdooClient.authenticate
    Method,         \* RPC method names the tasks use
    Context,        \* SafetyContext objects of the application
    NONE,           \* Python's None
    UNDEFINED       \* client.py's _UNDEFINED sentinel

ASSUME SentinelAssumption ==
    /\ NONE # UNDEFINED
    /\ {NONE, UNDEFINED} \cap Context = {}
    /\ NONE \notin Auth \cup {"result", "error"} \cup Outcome

VARIABLES
    session,                \* transport._session: the authentication that made it
    password,               \* transport._password: the authentication that stored it
    closed,                 \* the httpx client has been closed
    safety_context,         \* client._safety_context
    config_safety,          \* client._config.safety
    default_safety_context, \* safety._default_safety_context
    apc,                    \* where each authentication is
    pc,                     \* where each call is
    op,                     \* the method each call was invoked with
    asked,                  \* the context whose confirm a call awaits or awaited
    request,                \* the credentials a call's payload carries
    outcome,                \* how each call ended
    wire,                   \* posted requests that have not reached the server
    reply,                  \* the server's answer to each call
    effects                 \* how often the server carried each call out

\* History variables: read by the properties, by no guard.
VARIABLES
    due,            \* the context whose approval the call needed when it began
    approvals       \* <<context, call>> for every confirm that returned True

clientVars == <<session, password, closed>>
safetyVars == <<safety_context, config_safety, default_safety_context>>
callVars   == <<pc, op, asked, request, outcome, due, approvals>>
serverVars == <<wire, reply, effects>>
vars == <<clientVars, safetyVars, callVars, serverVars, apc>>

-----------------------------------------------------------------------------
(* safety/__init__.py *)

READ_METHODS ==
    {"search", "read", "search_read", "search_count", "fields_get",
     "name_get", "name_search", "default_get", "onchange", "load_views",
     "check_access_rights", "check_access_rule", "read_group"}

DELETE_METHODS == {"unlink"}

infer_safety_level(m) ==
    IF m \in READ_METHODS THEN "READ"
    ELSE IF m \in DELETE_METHODS THEN "DELETE" ELSE "WRITE"

resolve_safety_context(ctx, undefined) ==
    IF undefined THEN default_safety_context ELSE ctx

\* The methods the client's own CRUD helpers pass to call; each adds only its
\* arguments.
Helper == {"search", "read", "search_read", "search_count", "create", "write", "unlink"}

\* Fault: an explicit None taken for "not set".
effective_safety_NoneIsUnset ==
    IF safety_context \in {UNDEFINED, NONE}
    THEN resolve_safety_context(config_safety, FALSE)
    ELSE resolve_safety_context(safety_context, FALSE)

\* The default is never consulted: both branches pass undefined=False.
effective_safety ==
    IF safety_context = UNDEFINED
    THEN resolve_safety_context(config_safety, FALSE)
    ELSE resolve_safety_context(safety_context, FALSE)

\* What the guard of a call of method m does before its first await: NONE
\* lets the call through, a context's confirm has to be awaited.
guard_asks(m) ==
    IF infer_safety_level(m) = "READ" THEN NONE ELSE effective_safety

-----------------------------------------------------------------------------

NoRequest == [uid |-> NONE, password |-> NONE]

Init ==
    /\ session = NONE
    /\ password = NONE
    /\ closed = FALSE
    /\ safety_context = UNDEFINED
    /\ config_safety \in Context \cup {NONE}
    /\ default_safety_context = NONE
    /\ apc = [a \in Auth |-> "idle"]
    /\ pc = [c \in Call |-> "idle"]
    /\ op \in [Call -> Method]
    /\ asked = [c \in Call |-> NONE]
    /\ request = [c \in Call |-> NoRequest]
    /\ outcome = [c \in Call |-> NONE]
    /\ wire = {}
    /\ reply = [c \in Call |-> NONE]
    /\ effects = [c \in Call |-> 0]
    /\ due = [c \in Call |-> NONE]
    /\ approvals = {}

-----------------------------------------------------------------------------
(* JsonRpcTransport *)

Finish(c, how) ==
    /\ pc' = [pc EXCEPT ![c] = "done"]
    /\ outcome' = [outcome EXCEPT ![c] = how]

\* transport.call up to its await: the session is checked again, because a
\* confirm may have been awaited since call checked it, and the payload takes
\* uid and password as they are now.  A closed httpx client raises.
transport_call(c) ==
    \/ /\ session = NONE
       /\ Finish(c, "auth_error")
       /\ UNCHANGED <<request, wire>>
    \/ /\ session # NONE
       /\ closed
       /\ Finish(c, "closed_error")
       /\ UNCHANGED <<request, wire>>
    \/ /\ session # NONE
       /\ ~closed
       /\ request' = [request EXCEPT ![c] = [uid |-> session, password |-> password]]
       /\ wire' = wire \cup {c}
       /\ pc' = [pc EXCEPT ![c] = "posted"]
       /\ UNCHANGED outcome

\* Fault: the password is stored before the server has answered.
Authenticate_EarlyPassword(a) ==
    /\ apc[a] = "idle"
    /\ apc' = [apc EXCEPT ![a] = IF closed THEN "failed" ELSE "posted"]
    /\ password' = a
    /\ UNCHANGED <<session, closed, safetyVars, callVars, serverVars>>

\* authenticate: post the login, with the configured user name and password.
Authenticate(a) ==
    /\ apc[a] = "idle"
    /\ apc' = [apc EXCEPT ![a] = IF closed THEN "failed" ELSE "posted"]
    /\ UNCHANGED <<clientVars, safetyVars, callVars, serverVars>>

\* The server answered with a uid: both fields are set before the next await.
AuthGranted(a) ==
    /\ apc[a] = "posted"
    /\ session' = a
    /\ password' = a
    /\ apc' = [apc EXCEPT ![a] = "granted"]
    /\ UNCHANGED <<closed, safetyVars, callVars, serverVars>>

\* Fault: a failed authentication drops the session there was.
AuthFailed_DropsSession(a) ==
    /\ apc[a] = "posted"
    /\ apc' = [apc EXCEPT ![a] = "failed"]
    /\ session' = NONE
    /\ password' = NONE
    /\ UNCHANGED <<closed, safetyVars, callVars, serverVars>>

\* A falsy uid, an RPC or a network error, or a cancelled task: an exception,
\* and whatever session there was is still there.
AuthFailed(a) ==
    /\ apc[a] = "posted"
    /\ apc' = [apc EXCEPT ![a] = "failed"]
    /\ UNCHANGED <<clientVars, safetyVars, callVars, serverVars>>

\* Fault: logout leaves _UNDEFINED, not None, in the session.
Logout_Undefined ==
    /\ session' = UNDEFINED
    /\ password' = NONE
    /\ UNCHANGED <<closed, safetyVars, callVars, serverVars, apc>>

Logout ==
    /\ session' = NONE
    /\ password' = NONE
    /\ UNCHANGED <<closed, safetyVars, callVars, serverVars, apc>>

Aclose ==
    /\ closed' = TRUE
    /\ UNCHANGED <<session, password, safetyVars, callVars, serverVars, apc>>

-----------------------------------------------------------------------------
(* OdooClient.call and the safety guard *)

SetSafetyContext(x) ==
    /\ safety_context' = x
    /\ UNCHANGED <<clientVars, config_safety, default_safety_context,
                   callVars, serverVars, apc>>

SetDefaultSafetyContext(x) ==
    /\ default_safety_context' = x
    /\ UNCHANGED <<clientVars, safety_context, config_safety,
                   callVars, serverVars, apc>>

\* The context in force for a client as the guide describes it, leaving the
\* global default out: an explicit one, "even None", else the configuration's.
ContextInForce ==
    IF safety_context = UNDEFINED THEN config_safety ELSE safety_context

\* History: the approval this call needs, fixed when call is entered.
NoteDue(c) ==
    due' = [due EXCEPT ![c] =
               IF op[c] \in READ_METHODS THEN NONE ELSE ContextInForce]

\* call's first line: no session, no call.
CallUnauthenticated(c) ==
    /\ pc[c] = "idle"
    /\ session = NONE
    /\ NoteDue(c)
    /\ Finish(c, "auth_error")
    /\ UNCHANGED <<clientVars, safetyVars, op, asked, request, approvals,
                   serverVars, apc>>

\* The guard returns without an await: call runs on into the post.
CallUnguarded(c) ==
    /\ pc[c] = "idle"
    /\ session # NONE
    /\ guard_asks(op[c]) = NONE
    /\ NoteDue(c)
    /\ transport_call(c)
    /\ UNCHANGED <<clientVars, safetyVars, op, asked, approvals, reply, effects,
                   apc>>

\* Fault: the request is posted while the confirm is still awaited.
CallGuarded_Eager(c) ==
    /\ pc[c] = "idle"
    /\ session # NONE
    /\ guard_asks(op[c]) # NONE
    /\ NoteDue(c)
    /\ asked' = [asked EXCEPT ![c] = guard_asks(op[c])]
    /\ pc' = [pc EXCEPT ![c] = "confirming"]
    /\ request' = [request EXCEPT ![c] = [uid |-> session, password |-> password]]
    /\ wire' = wire \cup {c}
    /\ UNCHANGED <<clientVars, safetyVars, op, outcome, approvals, reply,
                   effects, apc>>

\* The guard awaits ctx.confirm(op).
CallGuarded(c) ==
    /\ pc[c] = "idle"
    /\ session # NONE
    /\ guard_asks(op[c]) # NONE
    /\ NoteDue(c)
    /\ asked' = [asked EXCEPT ![c] = guard_asks(op[c])]
    /\ pc' = [pc EXCEPT ![c] = "confirming"]
    /\ UNCHANGED <<clientVars, safetyVars, op, request, outcome, approvals,
                   serverVars, apc>>

\* confirm returned True: on to the transport, which checks the session again.
ConfirmAllows(c) ==
    /\ pc[c] = "confirming"
    /\ approvals' = approvals \cup {<<asked[c], c>>}
    /\ transport_call(c)
    /\ UNCHANGED <<clientVars, safetyVars, op, asked, due, reply, effects,
                   apc>>

\* Fault: the answer False is not acted upon.
ConfirmDenies_Ignored(c) ==
    /\ pc[c] = "confirming"
    /\ transport_call(c)
    /\ UNCHANGED <<clientVars, safetyVars, op, asked, due, approvals, reply,
                   effects, apc>>

\* confirm returned False: OdooSafetyError, and no RPC.
ConfirmDenies(c) ==
    /\ pc[c] = "confirming"
    /\ Finish(c, "safety_error")
    /\ UNCHANGED <<clientVars, safetyVars, op, asked, request, due, approvals,
                   serverVars, apc>>

\* confirm raised: its exception is the caller's.
ConfirmRaises(c) ==
    /\ pc[c] = "confirming"
    /\ Finish(c, "callback_error")
    /\ UNCHANGED <<clientVars, safetyVars, op, asked, request, due, approvals,
                   serverVars, apc>>

\* The task is cancelled at either of its awaits.  A request it has posted
\* may be dropped with the connection or go on to the server.
Cancel(c) ==
    /\ pc[c] \in {"confirming", "posted"}
    /\ Finish(c, "cancelled")
    /\ wire' \in {wire, wire \ {c}}
    /\ UNCHANGED <<clientVars, safetyVars, op, asked, request, due, approvals,
                   reply, effects, apc>>

\* call_rpc returns the result, or raises what _categorize_error makes of the
\* server's error.
ReplyArrives(c) ==
    /\ pc[c] = "posted"
    /\ reply[c] # NONE
    /\ Finish(c, IF reply[c] = "result" THEN "ok" ELSE "rpc_error")
    /\ UNCHANGED <<clientVars, safetyVars, op, asked, request, due, approvals,
                   serverVars, apc>>

\* Fault: a failed post is tried once more.
PostFails_Retries(c, how) ==
    /\ pc[c] = "posted"
    /\ effects[c] < 2
    /\ wire' = wire \cup {c}
    /\ UNCHANGED <<clientVars, safetyVars, callVars, reply, effects, apc>>

\* Fault: no timeout, so that only an answer ends a post.
PostFails_NoTimeout(c, how) ==
    /\ pc[c] = "posted"
    /\ reply[c] # NONE
    /\ Finish(c, how)
    /\ wire' \in {wire, wire \ {c}}
    /\ UNCHANGED <<clientVars, safetyVars, op, asked, request, due, approvals,
                   reply, effects, apc>>

\* The post fails: an HTTP error status, a connection error or httpx's timeout
\* (OdooNetworkError), or a body that is no JSON-RPC answer (an exception of
\* json or a KeyError).  Nothing is retried.
PostFails(c, how) ==
    /\ pc[c] = "posted"
    /\ Finish(c, how)
    /\ wire' \in {wire, wire \ {c}}
    /\ UNCHANGED <<clientVars, safetyVars, op, asked, request, due, approvals,
                   reply, effects, apc>>

-----------------------------------------------------------------------------
(* The Odoo server *)

\* Odoo checks the password against the uid and carries the request out.
ServerExecutes(c) ==
    /\ c \in wire
    /\ request[c].uid = request[c].password
    /\ wire' = wire \ {c}
    /\ effects' = [effects EXCEPT ![c] = @ + 1]
    /\ reply' = [reply EXCEPT ![c] = "result"]
    /\ UNCHANGED <<clientVars, safetyVars, callVars, apc>>

\* A wrong password, a missing right, a validation error: rolled back.
ServerRejects(c) ==
    /\ c \in wire
    /\ wire' = wire \ {c}
    /\ reply' = [reply EXCEPT ![c] = "error"]
    /\ UNCHANGED <<clientVars, safetyVars, callVars, effects, apc>>

-----------------------------------------------------------------------------

ConfirmReturns(c) == ConfirmAllows(c) \/ ConfirmDenies(c) \/ ConfirmRaises(c)

\* httpx's default timeout ends every post that nothing else ends.
PostEnds(c) ==
    \/ ReplyArrives(c)
    \/ \E how \in {"network_error", "protocol_error"} : PostFails(c, how)

Next ==
    \/ \E a \in Auth : Authenticate(a) \/ AuthGranted(a) \/ AuthFailed(a)
    \/ Logout
    \/ Aclose
    \/ \E x \in Context \cup {NONE} :
           SetSafetyContext(x) \/ SetDefaultSafetyContext(x)
    \/ \E c \in Call :
           \/ CallUnauthenticated(c) \/ CallUnguarded(c) \/ CallGuarded(c)
           \/ ConfirmReturns(c)
           \/ Cancel(c)
           \/ PostEnds(c)
           \/ ServerExecutes(c) \/ ServerRejects(c)

\* The application's confirm returns and httpx times out; nobody has to log
\* out, cancel or answer.
Fairness ==
    /\ \A c \in Call : WF_vars(ConfirmReturns(c)) /\ WF_vars(PostEnds(c))

Spec == Init /\ [][Next]_vars

FairSpec == Spec /\ Fairness

-----------------------------------------------------------------------------
(* Type invariant *)

MaybeAuth == Auth \cup {NONE}

MaybeContext == Context \cup {NONE}

\* Every variable has its type: the transport's two fields, the three places a
\* safety context is kept in, and the state of every call and authentication.
TypeOK ==
    /\ session \in MaybeAuth
    /\ password \in MaybeAuth
    /\ closed \in BOOLEAN
    /\ safety_context \in MaybeContext \cup {UNDEFINED}
    /\ config_safety \in MaybeContext
    /\ default_safety_context \in MaybeContext
    /\ apc \in [Auth -> {"idle", "posted", "granted", "failed"}]
    /\ pc \in [Call -> {"idle", "confirming", "posted", "done"}]
    /\ op \in [Call -> Method]
    /\ asked \in [Call -> MaybeContext]
    /\ request \in [Call -> [uid : MaybeAuth, password : MaybeAuth]]
    /\ outcome \in [Call -> Outcome \cup {NONE}]
    /\ wire \in SUBSET Call
    /\ reply \in [Call -> {"result", "error", NONE}]
    /\ effects \in [Call -> Nat]
    /\ due \in [Call -> MaybeContext]
    /\ approvals \in SUBSET (MaybeContext \X Call)

-----------------------------------------------------------------------------
(* Safety *)

\* docs/guides/safety-guards.md: the callback is called "before any non-read
\* operation", and a denied one is "blocked locally".  Whatever is swapped,
\* logged out or cancelled while the confirm is awaited, the server carries out
\* a call only if the context in force when it began, if any, approved it.
EffectsAreApproved ==
    \A c \in Call :
        effects[c] > 0 /\ due[c] # NONE => <<due[c], c>> \in approvals

\* The guard never asks needlessly: a read is never put to a confirm callback,
\* nor is any call of a client whose guard is explicitly disabled, and the
\* context that is asked is the one in force when the call began.
OnlyAskedWhenDue ==
    \A c \in Call : asked[c] # NONE => asked[c] = due[c]

\* Authentications that overlap never mix: uid and password on the transport,
\* and in every payload built from them, stem from one authentication, and the
\* server granted it.
CredentialsAreOneGrant ==
    /\ session = password
    /\ session # NONE => apc[session] = "granted"
    /\ \A c \in wire : /\ request[c].uid = request[c].password
                       /\ request[c].uid # NONE
                       /\ apc[request[c].uid] = "granted"

\* The client never sends a call twice, so the server never carries one out
\* twice, whatever was lost, timed out or cancelled on the way.
AtMostOnce == \A c \in Call : effects[c] <= 1

\* A call that was refused is finished with: the server did not carry it out
\* and no request of it is still under way.
RefusalIsFinal ==
    \A c \in Call :
        outcome[c] \in Refusals => effects[c] = 0 /\ c \notin wire

\* docs/guides/safety-guards.md: a default "for all clients that do not have
\* an explicit safety context" guards them.  While a default is set, a call of
\* such a client that is not a read is put to a confirm before it is posted.
DefaultGuards ==
    [][\A c \in Call :
         /\ pc[c] = "idle" /\ pc'[c] = "posted"
         /\ op[c] \notin READ_METHODS
         /\ safety_context = UNDEFINED /\ config_safety = NONE
         => default_safety_context = NONE]_vars

-----------------------------------------------------------------------------
(* Action properties and liveness *)

\* A failed authentication never costs the session there is: only logout ends
\* one, and only a granted authentication replaces it.
SessionChangesHands ==
    [][session' # session =>
         \/ session' = NONE /\ UNCHANGED apc
         \/ /\ session' # NONE
            /\ apc[session'] = "posted"
            /\ apc'[session'] = "granted"]_vars

\* Every call that began ends, even when its request or the answer is lost.
CallsEnd ==
    \A c \in Call : pc[c] \in {"confirming", "posted"} ~> pc[c] = "done"

-----------------------------------------------------------------------------
(* The inductive invariant behind the safety properties *)

Approved(c) == due[c] # NONE => <<due[c], c>> \in approvals

\* Before its post a call has touched nothing and has no outcome, and the
\* confirm it awaits is the one that is due.
QuietUntilPosted(c) ==
    /\ pc[c] = "idle" => asked[c] = NONE
    /\ pc[c] = "confirming" => asked[c] # NONE /\ asked[c] = due[c]
    /\ pc[c] \in {"idle", "confirming"} => reply[c] = NONE /\ c \notin wire

\* What is posted was approved, and is answered once.
PostedIsApproved(c) ==
    /\ pc[c] = "posted" => Approved(c)
    /\ c \in wire => Approved(c) /\ reply[c] = NONE
    /\ reply[c] # NONE => Approved(c)

\* The server's answer tells what the server did.
ReplyTells(c) ==
    effects[c] = IF reply[c] = "result" THEN 1 ELSE 0

\* The outcome tells what the caller may conclude.
OutcomeTells(c) ==
    /\ (pc[c] = "done") <=> (outcome[c] # NONE)
    /\ outcome[c] = "ok" => reply[c] = "result"
    /\ outcome[c] \in Refusals => reply[c] # "result" /\ c \notin wire

CallOK(c) ==
    /\ QuietUntilPosted(c)
    /\ PostedIsApproved(c)
    /\ ReplyTells(c)
    /\ OutcomeTells(c)
    /\ asked[c] # NONE => asked[c] = due[c]

CallsOK == \A c \in Call : CallOK(c)

IInv == TypeOK /\ CredentialsAreOneGrant /\ CallsOK

-----------------------------------------------------------------------------
(* Refinement: the client implements GuardedCall *)

StatusOf(c) ==
    IF pc[c] = "idle" THEN "idle"
    ELSE IF pc[c] # "done" THEN "pending"
    ELSE IF outcome[c] = "ok" THEN "ok"
    ELSE IF outcome[c] \in Refusals THEN "refused"
    ELSE "failed"

status == [c \in Call |-> StatusOf(c)]

Promise == INSTANCE GuardedCall WITH Call <- Call, status <- status, effects <- effects

\* OdooClient.call keeps GuardedCall's promise: at most one effect, exactly one
\* when it returns, none ever when it is refused.
KeepsPromise == Promise!Spec

=============================================================================
