-------------------------------- MODULE Mail --------------------------------
(***************************************************************************)
(* services/mail/functions.py: post_internal_note and post_open_message,   *)
(* called by tasks that handle errors as docs/guides/error-handling.md     *)
(* advises: after an OdooAuthError they authenticate and try again.        *)
(*                                                                         *)
(* The client below is not modelled again: each try is one call of         *)
(* GuardedCall, the specification OdooClient is shown to implement, and    *)
(* the classes of exception it may end with are those of Errors.  What is  *)
(* added is the code before the call, the code after it, and the message   *)
(* the server makes.                                                       *)
(***************************************************************************)
EXTENDS Naturals, FiniteSets, Errors

CONSTANTS
    Post,           \* invocations of the two functions
    MaxTries,       \* how often a task tries before it gives up
    NONE

ASSUME TriesAssumption == MaxTries \in Nat \ {0}

Kind == {"note", "open"}

\* Bodies, by what ensure_html_body looks for: nothing, white space only, no
\* tag, or something between angle brackets, in HTML or in plain text.
Body == {"empty", "spaces", "text", "html", "text<>"}

\* Answers to message_post, by what _extract_id finds in them: the id as it is,
\* first on a list (Odoo 19), in a dict or as text; or none of these.
HoldsId == {"id", "[id]", "{id}", "numeral"}

Form == HoldsId \cup {"{}", "False", "True", "None", "[]", "word"}

ASSUME NoneAssumption == NONE \notin Class \cup Form \cup Nat

Try == Post \X (1 .. MaxTries)

VARIABLES
    status,         \* of GuardedCall: what each try has been told
    effects,        \* of GuardedCall: how often the server carried each out
    args,           \* kind and body each invocation was made with
    pc,             \* "idle", "calling", "reauthenticating" or "done"
    tries,          \* how many tries each task has begun
    messages,       \* the server's mail.message: id, and the try that made it
    answered,       \* the form of the answer each invocation has had
    returned,       \* what each invocation returned, if it did
    raised          \* the class of exception each ended with, if it did

vars == <<status, effects, args, pc, tries, messages, answered, returned, raised>>

Client == INSTANCE GuardedCall WITH Call <- Try

-----------------------------------------------------------------------------

\* Fault: white space is not stripped before the check.
ensure_html_body_NoStrip(body) ==
    IF body = "empty" THEN NONE ELSE [content |-> body, wrapped |-> body \in {"text", "spaces"}]

\* The HTML to send, or NONE where the code raises OdooValidationError.
ensure_html_body(body) ==
    IF body \in {"empty", "spaces"} THEN NONE
    ELSE [content |-> body, wrapped |-> body \notin {"html", "text<>"}]

\* What tells the two functions apart.
MessageValues(kind) ==
    [subtype |-> IF kind = "note" THEN "mail.mt_note" ELSE "mail.mt_comment",
     is_internal |-> kind = "note"]

\* int() takes a number out of an answer, which is 0 for a dict without an id;
\* a bool is an int to isinstance, and is returned as it is.
_extract_id(form, id) ==
    IF form \in HoldsId THEN id ELSE IF form = "True" THEN 1 ELSE 0

\* Fault: an answer without an id is called invalid.
extract_id_raises_Validation(form) ==
    IF form \in {"None", "[]", "word"} THEN {"OdooValidationError"} ELSE {}

\* int() of nothing, of an empty list too, is a TypeError, and of a text that is
\* no number a ValueError.
extract_id_raises(form) ==
    CASE form \in {"None", "[]"}                      -> {"TypeError"}
      [] form = "word"                                -> {"ValueError"}
      [] form \in HoldsId \cup {"{}", "False", "True"} -> {}

RefusalClass == UNION {raises(how) : how \in Refusals}

FailureClass == UNION {raises(how) : how \in Outcome \ Refusals}

-----------------------------------------------------------------------------

Init ==
    /\ Client!Init
    /\ args \in [Post -> [kind : Kind, body : Body]]
    /\ pc = [p \in Post |-> "idle"]
    /\ tries = [p \in Post |-> 0]
    /\ messages = {}
    /\ answered = [p \in Post |-> NONE]
    /\ returned = [p \in Post |-> NONE]
    /\ raised = [p \in Post |-> NONE]

Current(p) == <<p, tries[p]>>

Raise(p, class) ==
    /\ pc' = [pc EXCEPT ![p] = "done"]
    /\ raised' = [raised EXCEPT ![p] = class]
    /\ UNCHANGED returned

\* The body is looked at before anything is sent.
RejectBody(p) ==
    /\ pc[p] = "idle"
    /\ ensure_html_body(args[p].body) = NONE
    /\ Raise(p, "OdooValidationError")
    /\ UNCHANGED <<status, effects, args, tries, messages, answered>>

\* client.call(model, "message_post", ...), for the first time or once more
\* after an authentication.
CallMessagePost(p) ==
    /\ pc[p] \in {"idle", "reauthenticating"}
    /\ ensure_html_body(args[p].body) # NONE
    /\ Client!Invoke(<<p, tries[p] + 1>>)
    /\ tries' = [tries EXCEPT ![p] = @ + 1]
    /\ pc' = [pc EXCEPT ![p] = "calling"]
    /\ UNCHANGED <<args, messages, answered, returned, raised>>

\* The server carries message_post out, in time or when nobody waits for it.
MakeMessage(p, n) ==
    /\ Client!TakeEffect(<<p, n>>)
    /\ messages' = messages \cup
           {[id |-> Cardinality(messages) + 1, try |-> <<p, n>>,
             body |-> ensure_html_body(args[p].body), values |-> MessageValues(args[p].kind)]}
    /\ UNCHANGED <<args, pc, tries, answered, returned, raised>>

\* The answer arrives, and the id is taken out of it.
Return(p) ==
    /\ pc[p] = "calling"
    /\ Client!ReturnOk(Current(p))
    /\ \E form \in Form, m \in {k \in messages : k.try = Current(p)} :
           /\ answered' = [answered EXCEPT ![p] = form]
           /\ \/ \E class \in extract_id_raises(form) : Raise(p, class)
              \/ /\ extract_id_raises(form) = {}
                 /\ returned' = [returned EXCEPT ![p] = _extract_id(form, m.id)]
                 /\ pc' = [pc EXCEPT ![p] = "done"]
                 /\ UNCHANGED raised
    /\ UNCHANGED <<args, tries, messages>>

\* The exception reaches the task: after an OdooAuthError it authenticates.
Catch(p, class) ==
    \/ /\ IsInstance(class, "OdooAuthError")
       /\ tries[p] < MaxTries
       /\ pc' = [pc EXCEPT ![p] = "reauthenticating"]
       /\ UNCHANGED <<returned, raised>>
    \/ /\ IsInstance(class, "OdooAuthError") => tries[p] = MaxTries
       /\ Raise(p, class)

Refused(p) ==
    /\ pc[p] = "calling"
    /\ Client!Refuse(Current(p))
    /\ \E class \in RefusalClass : Catch(p, class)
    /\ UNCHANGED <<args, tries, messages, answered>>

Failed(p) ==
    /\ pc[p] = "calling"
    /\ Client!Fail(Current(p))
    /\ \E class \in FailureClass : Catch(p, class)
    /\ UNCHANGED <<args, tries, messages, answered>>

\* client.authenticate fails too, refused or for want of a connection.
AuthenticationFails(p) ==
    /\ pc[p] = "reauthenticating"
    /\ \E class \in raises("auth_error") \cup raises("network_error") : Raise(p, class)
    /\ UNCHANGED <<status, effects, args, tries, messages, answered>>

Next ==
    \E p \in Post :
        \/ RejectBody(p) \/ CallMessagePost(p)
        \/ \E n \in 1 .. MaxTries : MakeMessage(p, n)
        \/ Return(p) \/ Refused(p) \/ Failed(p)
        \/ AuthenticationFails(p)

Spec == Init /\ [][Next]_vars

-----------------------------------------------------------------------------
(* Properties *)

Of(p) == {m \in messages : m.try[1] = p}

\* "re-auth and retry" (docs/guides/error-handling.md) is safe for a call that
\* is not idempotent: an OdooAuthError is raised only when nothing was posted,
\* so that one invocation never leaves two messages, however late the server
\* acts on a try that was given up.
AtMostOneMessage == \A p \in Post : Cardinality(Of(p)) <= 1

\* The classes the guide has handlers for tell what was done: after any of
\* them nothing has been posted, and nothing will be by a try that is late.
\* The network errors and whatever is no OdooError tell nothing.
AnswerClass ==
    {"OdooAuthError", "OdooSafetyError", "OdooValidationError", "OdooAccessError",
     "OdooMissingError"}

ClassTellsEffect ==
    \A p \in Post :
        raised[p] \in AnswerClass =>
            Of(p) = {} /\ \A n \in 1 .. MaxTries : status[<<p, n>>] # "failed"

\* An invocation that has had its answer, of whatever form, made one message,
\* and returns the id of that message and of no other when the answer holds it.
\* (Of a dict without an id the code makes 0, and a bool it returns.)  And every
\* message there is, late or lost to its sender, is of the kind that was asked
\* for, with a body that is not blank.
PostedAsAsked ==
    /\ \A p \in Post :
           answered[p] # NONE =>
               \E m \in messages :
                   /\ Of(p) = {m}
                   /\ answered[p] \in HoldsId => returned[p] = m.id
    /\ \A m \in messages :
           /\ m.values.is_internal = (args[m.try[1]].kind = "note")
           /\ m.body # NONE
           /\ m.body.content \notin {"empty", "spaces"}

-----------------------------------------------------------------------------
(* The inductive invariant *)

\* Every variable has its type.
TypeOK ==
    /\ status \in [Try -> {"idle", "pending", "ok", "refused", "failed"}]
    /\ effects \in [Try -> {0, 1}]
    /\ args \in [Post -> [kind : Kind, body : Body]]
    /\ pc \in [Post -> {"idle", "calling", "reauthenticating", "done"}]
    /\ tries \in [Post -> 0 .. MaxTries]
    /\ IsFiniteSet(messages)
    /\ \A m \in messages : m.id \in Nat /\ m.try \in Try
    /\ answered \in [Post -> Form \cup {NONE}]
    /\ returned \in [Post -> Nat \cup {NONE}]
    /\ raised \in [Post -> Class \cup {NONE}]

\* A task goes on only after a refusal, so that every try but the last was
\* refused; and one that ended with the class of an answer was refused too.
TriesOK(p) ==
    /\ pc[p] = "idle" => tries[p] = 0
    /\ pc[p] \in {"calling", "reauthenticating"} => tries[p] > 0
    /\ pc[p] = "reauthenticating" => tries[p] < MaxTries
    /\ \A n \in 1 .. MaxTries :
           /\ n > tries[p] => status[<<p, n>>] = "idle"
           /\ n < tries[p] => status[<<p, n>>] = "refused"
    /\ tries[p] > 0 =>
           /\ pc[p] = "reauthenticating" \/ raised[p] \in AnswerClass
                  => status[Current(p)] = "refused"
           /\ ensure_html_body(args[p].body) # NONE
    /\ raised[p] # NONE => pc[p] = "done"
    /\ returned[p] # NONE => answered[p] # NONE
    /\ answered[p] # NONE =>
           /\ pc[p] = "done"
           /\ \E m \in messages :
                  /\ m.try[1] = p
                  /\ answered[p] \in HoldsId => returned[p] = m.id

\* The messages are the effects of the tries, one each.
MessagesOK ==
    /\ \A t \in Try : status[t] \in {"idle", "refused"} => effects[t] = 0
    /\ \A m \in messages :
           /\ effects[m.try] = 1
           /\ m.body = ensure_html_body(args[m.try[1]].body)
           /\ m.values = MessageValues(args[m.try[1]].kind)
    /\ \A m, k \in messages : m.try = k.try => m = k

MailInv == TypeOK /\ (\A p \in Post : TriesOK(p)) /\ MessagesOK

=============================================================================
