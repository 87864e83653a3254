---------------------------- MODULE Mail_proofs ----------------------------
(***************************************************************************)
(* Proofs about what the services write once: Mail, for any number of      *)
(* posts and of tries, and then Timesheets, for any number of calls.       *)
(*                                                                         *)
(* The argument: the classes a failed call raises are none of those a task *)
(* tries again after (FailuresAreNoAnswers), so that every try before the  *)
(* last was refused, and GuardedCall gives a refused call no effect.       *)
(* MailInv (Mail.tla) says so of each task and pairs the messages with the *)
(* effects of the tries.                                                   *)
(***************************************************************************)
EXTENDS Mail, Timesheets, FiniteSetTheorems, TLAPS

-----------------------------------------------------------------------------
(* The classes of exception *)

\* What a call raises whose outcome is not a refusal.
LEMMA FailureClasses ==
    FailureClass = {"OdooNetworkError", "JSONDecodeError", "KeyError", "TypeError",
                    "CancelledError"}
<1>1. Outcome \ Refusals = {"ok", "network_error", "protocol_error", "cancelled"}
  BY DEF Outcome, Refusals
<1>2. /\ raises("ok") = {}
      /\ raises("network_error") = {"OdooNetworkError"}
      /\ raises("protocol_error") = {"JSONDecodeError", "KeyError", "TypeError"}
      /\ raises("cancelled") = {"CancelledError"}
  BY DEF raises, post_raises
<1>3. QED BY <1>1, <1>2 DEF FailureClass

\* except OdooAuthError catches none of them, and the guide's handlers that
\* take the server's word for an answer are for none of them.
LEMMA FailuresAreNoAnswers ==
    ASSUME NEW class \in FailureClass
    PROVE  /\ class \in Class
           /\ class \notin AnswerClass
           /\ ~IsInstance(class, "OdooAuthError")
<1>1. class \in Class /\ class \notin AnswerClass
  BY FailureClasses DEF AnswerClass, Class, Parent
<1>2. ~IsInstance(class, "OdooAuthError")
  <2> DEFINE Up == {"OdooNetworkError", "JSONDecodeError", "KeyError", "TypeError",
                    "CancelledError", "OdooRpcError", "OdooError", "ValueError",
                    "Exception", "BaseException"}
  <2>1. {class} \subseteq Up
    BY FailureClasses
  <2>2. ASSUME NEW S, S \subseteq Up
        PROVE  WithParents(S) \subseteq Up
    <3>1. Up \cap Class = Up \ {"BaseException"}
      BY DEF Class, Parent
    <3>2. /\ Parent["OdooNetworkError"] = "OdooRpcError"
          /\ Parent["OdooRpcError"] = "OdooError"
          /\ Parent["OdooError"] = "Exception"
          /\ Parent["Exception"] = "BaseException"
      BY DEF Parent
    <3>3. /\ Parent["JSONDecodeError"] = "ValueError"
          /\ Parent["ValueError"] = "Exception"
          /\ Parent["KeyError"] = "Exception"
          /\ Parent["TypeError"] = "Exception"
          /\ Parent["CancelledError"] = "BaseException"
      BY DEF Parent
    <3>4. \A k \in Up \cap Class : Parent[k] \in Up
      BY <3>1, <3>2, <3>3
    <3>5. QED BY <2>2, <3>4 DEF WithParents
  <2>3. Lineage(class) \subseteq Up
    BY <2>1, <2>2 DEF Lineage
  <2>4. QED BY <2>3 DEF IsInstance
<1>3. QED BY <1>1, <1>2

\* The server's classification always is a class of errors.py.
LEMMA ErrorClasses ==
    ASSUME NEW data \in ErrorData
    PROVE  _categorize_error(data) \in Class
BY DEF _categorize_error, ErrorData, ExceptionType, Class, Parent

LEMMA RefusalClasses == RefusalClass \subseteq Class
<1>1. ASSUME NEW how \in Refusals PROVE raises(how) \subseteq Class
  <2>1. CASE how = "rpc_error"
    <3>1. raises(how) = {_categorize_error(data) : data \in ErrorData}
      BY <2>1 DEF raises
    <3>2. QED BY <3>1, ErrorClasses
  <2>2. CASE how # "rpc_error"
    BY <1>1, <2>2 DEF Refusals, raises, Class, Parent
  <2>3. QED BY <2>1, <2>2
<1>2. QED BY <1>1 DEF RefusalClass

-----------------------------------------------------------------------------
(* Types *)

LEMMA CurrentIsTry ==
    ASSUME TypeOK, NEW p \in Post, tries[p] > 0
    PROVE  Current(p) \in Try
BY TriesAssumption DEF TypeOK, Current, Try

LEMMA InitInv == Init => MailInv
<1> SUFFICES ASSUME Init PROVE MailInv
  OBVIOUS
<1> USE TriesAssumption DEF Init, Client!Init
<1>1. TypeOK
  BY FS_EmptySet DEF TypeOK
<1>2. ASSUME NEW p \in Post PROVE TriesOK(p)
  <2>1. raised[p] = NONE /\ NONE \notin AnswerClass
    BY NoneAssumption DEF AnswerClass, Class, Parent
  <2>2. QED BY <2>1 DEF TriesOK, Try
<1>3. MessagesOK
  BY DEF MessagesOK
<1>4. QED BY <1>1, <1>2, <1>3 DEF MailInv

LEMMA CatchType ==
    ASSUME TypeOK, NEW p \in Post, NEW class \in Class, Catch(p, class)
    PROVE  /\ pc' \in [Post -> {"idle", "calling", "reauthenticating", "done"}]
           /\ returned' \in [Post -> Nat \cup {NONE}]
           /\ raised' \in [Post -> Class \cup {NONE}]
BY DEF TypeOK, Catch, Raise

\* The answer that is there is one message's; one that holds the id never raises.
AnswerRaises(p, form) ==
    /\ form \notin HoldsId
    /\ \E class \in {"TypeError", "ValueError"} : Raise(p, class)

AnswerReturns(p, form, m) ==
    /\ returned' = [returned EXCEPT ![p] = _extract_id(form, m.id)]
    /\ pc' = [pc EXCEPT ![p] = "done"]
    /\ UNCHANGED raised

LEMMA ReturnCases ==
    ASSUME NEW p \in Post, Return(p)
    PROVE  \E form \in Form, m \in messages :
               /\ m.try = Current(p)
               /\ answered' = [answered EXCEPT ![p] = form]
               /\ AnswerRaises(p, form) \/ AnswerReturns(p, form, m)
<1>1. PICK form \in Form, m \in {k \in messages : k.try = Current(p)} :
           /\ answered' = [answered EXCEPT ![p] = form]
           /\ \/ \E class \in extract_id_raises(form) : Raise(p, class)
              \/ AnswerReturns(p, form, m)
  BY DEF Return, AnswerReturns
<1>2. /\ extract_id_raises(form) \subseteq {"TypeError", "ValueError"}
      /\ form \in HoldsId => extract_id_raises(form) = {}
  BY DEF extract_id_raises, Form, HoldsId
<1>3. QED BY <1>1, <1>2 DEF AnswerRaises

LEMMA ReturnFrame ==
    ASSUME TypeOK, NEW p \in Post, Return(p)
    PROVE  /\ pc' = [pc EXCEPT ![p] = "done"]
           /\ raised' \in [Post -> Class \cup {NONE}]
           /\ raised[p] = NONE => raised'[p] \notin AnswerClass
           /\ \A q \in Post \ {p} : raised'[q] = raised[q] /\ returned'[q] = returned[q]
                                                        /\ answered'[q] = answered[q]
<1>1. PICK form \in Form, m \in messages :
           /\ m.try = Current(p)
           /\ answered' = [answered EXCEPT ![p] = form]
           /\ AnswerRaises(p, form) \/ AnswerReturns(p, form, m)
  BY ReturnCases
<1>2. /\ {"TypeError", "ValueError"} \subseteq Class \ AnswerClass
      /\ NONE \notin AnswerClass
  BY NoneAssumption DEF AnswerClass, Class, Parent
<1>3. CASE AnswerRaises(p, form)
  BY <1>1, <1>2, <1>3 DEF TypeOK, AnswerRaises, Raise
<1>4. CASE AnswerReturns(p, form, m)
  BY <1>1, <1>2, <1>4 DEF TypeOK, AnswerReturns
<1>5. QED BY <1>1, <1>3, <1>4

LEMMA NextType ==
    ASSUME MailInv, [Next]_vars
    PROVE  TypeOK'
<1> USE DEF MailInv
<1>1. ASSUME NEW p \in Post, RejectBody(p) PROVE TypeOK'
  <2>1. "OdooValidationError" \in Class
    BY DEF Class, Parent
  <2>2. QED BY <1>1, <2>1 DEF TypeOK, RejectBody, Raise
<1>2. ASSUME NEW p \in Post, CallMessagePost(p) PROVE TypeOK'
  <2>1. tries[p] + 1 \in 0 .. MaxTries
    BY <1>2, TriesAssumption DEF TypeOK, TriesOK, CallMessagePost
  <2>2. QED BY <1>2, <2>1 DEF TypeOK, CallMessagePost, Client!Invoke
<1>3. ASSUME NEW p \in Post, NEW n \in 1 .. MaxTries, MakeMessage(p, n)
      PROVE  TypeOK'
  <2>1. <<p, n>> \in Try
    BY DEF Try
  <2>2. Cardinality(messages) + 1 \in Nat
    BY FS_CardinalityType DEF TypeOK
  <2>3. IsFiniteSet(messages')
    BY <1>3, FS_AddElement DEF TypeOK, MakeMessage
  <2>4. ASSUME NEW m \in messages' PROVE m.id \in Nat /\ m.try \in Try
    <3> DEFINE new == [id |-> Cardinality(messages) + 1, try |-> <<p, n>>,
                       body |-> ensure_html_body(args[p].body),
                       values |-> MessageValues(args[p].kind)]
    <3>1. m \in messages \/ m = new
      BY <1>3 DEF MakeMessage
    <3>new. new.id = Cardinality(messages) + 1 /\ new.try = <<p, n>>
      OBVIOUS
    <3> HIDE DEF new
    <3>2. \A k \in messages : k.id \in Nat /\ k.try \in Try
      BY DEF TypeOK
    <3>3. QED BY <2>1, <2>2, <3>1, <3>new, <3>2
  <2>5. effects' \in [Try -> {0, 1}] /\ UNCHANGED status
    BY <1>3 DEF TypeOK, MakeMessage, Client!TakeEffect
  <2>6. QED BY <1>3, <2>3, <2>4, <2>5 DEF TypeOK, MakeMessage
<1>4. ASSUME NEW p \in Post, Return(p) PROVE TypeOK'
  <2>1. PICK form \in Form, m \in messages :
             /\ m.try = Current(p)
             /\ answered' = [answered EXCEPT ![p] = form]
             /\ AnswerRaises(p, form) \/ AnswerReturns(p, form, m)
    BY <1>4, ReturnCases
  <2>2. /\ status' \in [Try -> {"idle", "pending", "ok", "refused", "failed"}]
        /\ UNCHANGED effects
    BY <1>4 DEF TypeOK, Return, Client!ReturnOk
  <2>3. answered' \in [Post -> Form \cup {NONE}]
    BY <2>1 DEF TypeOK
  <2>4. returned' \in [Post -> Nat \cup {NONE}]
    <3>1. m.id \in Nat
      BY DEF TypeOK
    <3>2. _extract_id(form, m.id) \in Nat
      BY <3>1 DEF _extract_id
    <3>3. QED BY <2>1, <3>2 DEF TypeOK, AnswerRaises, AnswerReturns, Raise
  <2>5. QED BY <1>4, <2>2, <2>3, <2>4, ReturnFrame DEF TypeOK, Return
<1>5. ASSUME NEW p \in Post, Refused(p) PROVE TypeOK'
  <2>1. PICK class \in RefusalClass : Catch(p, class)
    BY <1>5 DEF Refused
  <2>2. /\ status' \in [Try -> {"idle", "pending", "ok", "refused", "failed"}]
        /\ UNCHANGED effects
    BY <1>5 DEF TypeOK, Refused, Client!Refuse
  <2>3. QED BY <1>5, <2>1, <2>2, RefusalClasses, CatchType DEF TypeOK, Refused
<1>6. ASSUME NEW p \in Post, Failed(p) PROVE TypeOK'
  <2>1. PICK class \in FailureClass : Catch(p, class)
    BY <1>6 DEF Failed
  <2>2. /\ status' \in [Try -> {"idle", "pending", "ok", "refused", "failed"}]
        /\ UNCHANGED effects
    BY <1>6 DEF TypeOK, Failed, Client!Fail
  <2>3. QED BY <1>6, <2>1, <2>2, FailuresAreNoAnswers, CatchType DEF TypeOK, Failed
<1>7. ASSUME NEW p \in Post, AuthenticationFails(p) PROVE TypeOK'
  <2>1. raises("auth_error") \cup raises("network_error") \subseteq Class
    BY DEF raises, post_raises, Class, Parent
  <2>2. QED BY <1>7, <2>1 DEF TypeOK, AuthenticationFails, Raise
<1>8. CASE UNCHANGED vars
  BY <1>8 DEF TypeOK, vars
<1>9. QED
  BY <1>1, <1>2, <1>3, <1>4, <1>5, <1>6, <1>7, <1>8 DEF Next

-----------------------------------------------------------------------------
(* Tries *)

\* A step that leaves a task and its tries alone leaves them in order: messages
\* are only added.
LEMMA TriesFrame ==
    ASSUME TypeOK, NEW q \in Post, TriesOK(q),
           pc'[q] = pc[q], tries'[q] = tries[q], raised'[q] = raised[q],
           returned'[q] = returned[q], answered'[q] = answered[q], args' = args,
           \A n \in 1 .. MaxTries : status'[<<q, n>>] = status[<<q, n>>],
           messages \subseteq messages'
    PROVE  TriesOK(q)'
<1>1. tries[q] \in 0 .. MaxTries
  BY DEF TypeOK
<1>2. tries[q] > 0 => status'[Current(q)'] = status[Current(q)]
  BY <1>1, TriesAssumption DEF Current
<1>3. QED BY <1>2 DEF TriesOK

\* What the client tells a try touches no other.
LEMMA OnlyCurrent ==
    ASSUME TypeOK, NEW p \in Post, tries[p] > 0, NEW told,
           status' = [status EXCEPT ![Current(p)] = told]
    PROVE  /\ status'[Current(p)] = told
           /\ \A q \in Post \ {p}, n \in 1 .. MaxTries :
                  status'[<<q, n>>] = status[<<q, n>>]
           /\ \A n \in 1 .. MaxTries :
                  n # tries[p] => status'[<<p, n>>] = status[<<p, n>>]
BY CurrentIsTry DEF TypeOK, Try, Current

LEMMA NextTries ==
    ASSUME MailInv, [Next]_vars, NEW q \in Post
    PROVE  TriesOK(q)'
<1> USE DEF MailInv
<1>1. ASSUME NEW p \in Post, RejectBody(p) PROVE TriesOK(q)'
  <2>1. CASE q = p
    <3>1. tries[p] = 0 /\ pc'[p] = "done" /\ UNCHANGED <<tries, answered, returned, messages, status>>
      BY <1>1 DEF TypeOK, RejectBody, Raise, TriesOK
    <3>2. QED BY <2>1, <3>1 DEF TriesOK
  <2>2. CASE q # p
    BY <1>1, <2>2, TriesFrame DEF TypeOK, RejectBody, Raise
  <2>3. QED BY <2>1, <2>2
<1>2. ASSUME NEW p \in Post, CallMessagePost(p) PROVE TriesOK(q)'
  <2>1. /\ tries[p] + 1 \in 1 .. MaxTries
        /\ <<p, tries[p] + 1>> \in Try
    BY <1>2, TriesAssumption DEF TypeOK, TriesOK, CallMessagePost, Try
  <2>2. CASE q = p
    <3>1. /\ tries'[p] = tries[p] + 1 /\ pc'[p] = "calling"
          /\ raised'[p] = raised[p]
          /\ UNCHANGED <<args, messages, answered, returned>>
          /\ ensure_html_body(args[p].body) # NONE
          /\ raised[p] = NONE
      BY <1>2 DEF TypeOK, CallMessagePost, TriesOK
    <3>2. \A n \in 1 .. MaxTries :
              n # tries[p] + 1 => status'[<<p, n>>] = status[<<p, n>>]
      BY <1>2, <2>1 DEF TypeOK, CallMessagePost, Client!Invoke, Try
    <3>3. NONE \notin AnswerClass
      BY NoneAssumption DEF AnswerClass, Class, Parent
    <3>4. tries[p] > 0 => status[<<p, tries[p]>>] = "refused"
      BY <1>2 DEF CallMessagePost, TriesOK, Current, TypeOK
    <3>5. ASSUME NEW n \in 1 .. MaxTries
          PROVE  /\ n > tries'[p] => status'[<<p, n>>] = "idle"
                 /\ n < tries'[p] => status'[<<p, n>>] = "refused"
      <4>1. tries[p] \in Nat /\ tries'[p] = tries[p] + 1
        BY <3>1 DEF TypeOK
      <4>2. CASE n = tries[p] + 1
        BY <4>1, <4>2
      <4>3. CASE n # tries[p] + 1 /\ n # tries[p]
        <5>1. status'[<<p, n>>] = status[<<p, n>>]
          BY <3>2, <4>3
        <5>2. /\ n > tries[p] => status[<<p, n>>] = "idle"
              /\ n < tries[p] => status[<<p, n>>] = "refused"
          BY DEF TriesOK
        <5>3. QED BY <4>1, <4>3, <5>1, <5>2
      <4>4. CASE n = tries[p]
        BY <3>2, <3>4, <4>1, <4>4
      <4>5. QED BY <4>2, <4>3, <4>4
    <3>6. answered[p] = NONE /\ returned[p] = NONE
      BY <1>2 DEF CallMessagePost, TriesOK
    <3>7. QED BY <2>1, <2>2, <3>1, <3>3, <3>5, <3>6 DEF TriesOK
  <2>3. CASE q # p
    <3>1. \A n \in 1 .. MaxTries : status'[<<q, n>>] = status[<<q, n>>]
      BY <1>2, <2>1, <2>3 DEF TypeOK, CallMessagePost, Client!Invoke, Try
    <3>2. QED BY <1>2, <2>3, <3>1, TriesFrame DEF TypeOK, CallMessagePost
  <2>4. QED BY <2>2, <2>3
<1>3. ASSUME NEW p \in Post, NEW n \in 1 .. MaxTries, MakeMessage(p, n)
      PROVE  TriesOK(q)'
  BY <1>3, TriesFrame DEF MakeMessage, Client!TakeEffect
<1>4. ASSUME NEW p \in Post, Return(p) PROVE TriesOK(q)'
  <2>1. tries[p] > 0 /\ pc[p] = "calling" /\ raised[p] = NONE /\ Current(p) \in Try
    BY <1>4, CurrentIsTry DEF Return, TriesOK
  <2>2. /\ status' = [status EXCEPT ![Current(p)] = "ok"]
        /\ UNCHANGED <<args, tries, messages>>
    BY <1>4 DEF Return, Client!ReturnOk
  <2>others. /\ \A r \in Post \ {p}, n \in 1 .. MaxTries : status'[<<r, n>>] = status[<<r, n>>]
        /\ \A n \in 1 .. MaxTries : n # tries[p] => status'[<<p, n>>] = status[<<p, n>>]
    BY <2>1, <2>2, OnlyCurrent
  <2>3. CASE q = p
    <3>1. pc'[p] = "done" /\ raised'[p] \notin AnswerClass
      BY <1>4, <2>1, ReturnFrame DEF TypeOK
    <3>2. PICK form \in Form, m \in messages :
               /\ m.try = Current(p)
               /\ answered' = [answered EXCEPT ![p] = form]
               /\ AnswerRaises(p, form) \/ AnswerReturns(p, form, m)
      BY <1>4, ReturnCases
    <3>3. /\ answered'[p] = form /\ answered'[p] # NONE
          /\ m.try[1] = p
          /\ form \in HoldsId => returned'[p] = m.id
      <4>1. answered'[p] = form /\ form # NONE
        BY <3>2, NoneAssumption DEF TypeOK
      <4>2. m.try[1] = p
        BY <3>2 DEF Current
      <4>3. form \in HoldsId => returned'[p] = m.id
        BY <3>2 DEF TypeOK, AnswerRaises, AnswerReturns, _extract_id
      <4>4. QED BY <4>1, <4>2, <4>3
    <3>4. QED BY <2>1, <2>2, <2>3, <2>others, <3>1, <3>3 DEF TriesOK
  <2>4. CASE q # p
    <3>1. /\ pc'[q] = pc[q] /\ raised'[q] = raised[q]
          /\ answered'[q] = answered[q] /\ returned'[q] = returned[q]
      BY <1>4, <2>4, ReturnFrame DEF TypeOK
    <3>2. QED BY <2>1, <2>2, <2>4, <2>others, <3>1, TriesFrame
  <2>5. QED BY <2>3, <2>4
<1>5. ASSUME NEW p \in Post, Refused(p) PROVE TriesOK(q)'
  <2>1. tries[p] > 0 /\ pc[p] = "calling" /\ raised[p] = NONE /\ Current(p) \in Try
    BY <1>5, CurrentIsTry DEF Refused, TriesOK
  <2>2. /\ status' = [status EXCEPT ![Current(p)] = "refused"]
        /\ UNCHANGED <<args, tries, messages, answered>>
    BY <1>5 DEF Refused, Client!Refuse
  <2>others. /\ \A r \in Post \ {p}, n \in 1 .. MaxTries : status'[<<r, n>>] = status[<<r, n>>]
        /\ \A n \in 1 .. MaxTries : n # tries[p] => status'[<<p, n>>] = status[<<p, n>>]
    BY <2>1, <2>2, OnlyCurrent
  <2>3. PICK class \in RefusalClass : Catch(p, class)
    BY <1>5 DEF Refused
  <2>4. CASE q = p
    <3>1. /\ pc'[p] \in {"reauthenticating", "done"}
          /\ raised'[p] # NONE => pc'[p] = "done"
          /\ pc'[p] = "reauthenticating" => tries[p] < MaxTries
          /\ UNCHANGED returned
      BY <2>1, <2>3 DEF TypeOK, Catch, Raise
    <3>2. status'[Current(p)] = "refused"
      BY <2>1, <2>2, OnlyCurrent
    <3>3. QED BY <2>1, <2>2, <2>4, <2>others, <3>1, <3>2 DEF TriesOK, Current
  <2>5. CASE q # p
    <3>1. pc'[q] = pc[q] /\ raised'[q] = raised[q] /\ returned'[q] = returned[q]
      BY <2>3, <2>5 DEF TypeOK, Catch, Raise
    <3>2. QED BY <2>1, <2>2, <2>5, <2>others, <3>1, TriesFrame
  <2>6. QED BY <2>4, <2>5
<1>6. ASSUME NEW p \in Post, Failed(p) PROVE TriesOK(q)'
  <2>1. tries[p] > 0 /\ pc[p] = "calling" /\ raised[p] = NONE /\ Current(p) \in Try
    BY <1>6, CurrentIsTry DEF Failed, TriesOK
  <2>2. /\ status' = [status EXCEPT ![Current(p)] = "failed"]
        /\ UNCHANGED <<args, tries, messages, answered>>
    BY <1>6 DEF Failed, Client!Fail
  <2>others. /\ \A r \in Post \ {p}, n \in 1 .. MaxTries : status'[<<r, n>>] = status[<<r, n>>]
        /\ \A n \in 1 .. MaxTries : n # tries[p] => status'[<<p, n>>] = status[<<p, n>>]
    BY <2>1, <2>2, OnlyCurrent
  <2>3. PICK class \in FailureClass : Catch(p, class)
    BY <1>6 DEF Failed
  <2>4. Raise(p, class) /\ class \notin AnswerClass
    BY <2>3, FailuresAreNoAnswers DEF Catch
  <2>5. CASE q = p
    <3>1. pc'[p] = "done" /\ raised'[p] = class /\ UNCHANGED returned
      BY <2>4 DEF TypeOK, Raise
    <3>2. QED BY <2>1, <2>2, <2>4, <2>5, <2>others, <3>1 DEF TriesOK
  <2>6. CASE q # p
    <3>1. pc'[q] = pc[q] /\ raised'[q] = raised[q] /\ returned'[q] = returned[q]
      BY <2>4, <2>6 DEF TypeOK, Raise
    <3>2. QED BY <2>1, <2>2, <2>6, <2>others, <3>1, TriesFrame
  <2>7. QED BY <2>5, <2>6
<1>7. ASSUME NEW p \in Post, AuthenticationFails(p) PROVE TriesOK(q)'
  <2>1. /\ pc[p] = "reauthenticating"
        /\ pc' = [pc EXCEPT ![p] = "done"]
        /\ \E class : raised' = [raised EXCEPT ![p] = class]
        /\ UNCHANGED <<answered, returned, status, args, tries, messages>>
    BY <1>7 DEF AuthenticationFails, Raise
  <2>2. CASE q = p
    <3>1. pc'[p] = "done"
      BY <2>1 DEF TypeOK
    <3>2. QED BY <2>1, <2>2, <3>1 DEF TriesOK, Current
  <2>3. CASE q # p
    BY <2>1, <2>3, TriesFrame DEF TypeOK
  <2>4. QED BY <2>2, <2>3
<1>8. CASE UNCHANGED vars
  BY <1>8, TriesFrame DEF vars
<1>9. QED
  BY <1>1, <1>2, <1>3, <1>4, <1>5, <1>6, <1>7, <1>8 DEF Next

-----------------------------------------------------------------------------
(* Messages *)

\* A step that makes no message and tells a try nothing that it was refused, or
\* only one without an effect.
LEMMA MessagesFrame ==
    ASSUME TypeOK, MessagesOK, UNCHANGED <<effects, args, messages>>,
           \A t \in Try : status'[t] \in {"idle", "refused"} =>
               status[t] \in {"idle", "refused"} \/ effects[t] = 0
    PROVE  MessagesOK'
BY DEF MessagesOK

LEMMA NextMessages ==
    ASSUME MailInv, [Next]_vars
    PROVE  MessagesOK'
<1> USE DEF MailInv
<1>1. ASSUME NEW p \in Post, RejectBody(p) \/ AuthenticationFails(p)
      PROVE  MessagesOK'
  BY <1>1, MessagesFrame DEF RejectBody, AuthenticationFails
<1>2. ASSUME NEW p \in Post, CallMessagePost(p) PROVE MessagesOK'
  BY <1>2, MessagesFrame DEF TypeOK, CallMessagePost, Client!Invoke
<1>3. ASSUME NEW p \in Post, NEW n \in 1 .. MaxTries, MakeMessage(p, n)
      PROVE  MessagesOK'
  <2> DEFINE t == <<p, n>>
             new == [id |-> Cardinality(messages) + 1, try |-> t,
                     body |-> ensure_html_body(args[p].body),
                     values |-> MessageValues(args[p].kind)]
  <2>1. /\ t \in Try
        /\ status[t] \in {"pending", "failed"}
        /\ effects[t] = 0
        /\ effects' = [effects EXCEPT ![t] = 1]
        /\ UNCHANGED <<status, args>>
        /\ messages' = messages \cup {new}
    BY <1>3 DEF MakeMessage, Client!TakeEffect, Try
  <2>2. \A u \in Try : effects'[u] = IF u = t THEN 1 ELSE effects[u]
    BY <2>1 DEF TypeOK
  <2>3. ASSUME NEW m \in messages PROVE m.try \in Try /\ m.try # t
    <3>1. m.try \in Try
      BY DEF TypeOK
    <3>2. effects[m.try] = 1 /\ effects[t] = 0
      BY <2>1 DEF MessagesOK
    <3>3. m.try # t
      BY <3>2
    <3>4. QED BY <3>1, <3>3
  <2>4. \A u \in Try : status'[u] \in {"idle", "refused"} => effects'[u] = 0
    BY <2>1, <2>2 DEF MessagesOK
  <2>5. ASSUME NEW m \in messages'
        PROVE  /\ effects'[m.try] = 1
               /\ m.body = ensure_html_body(args'[m.try[1]].body)
               /\ m.values = MessageValues(args'[m.try[1]].kind)
    <3>1. CASE m \in messages
      BY <2>1, <2>2, <2>3, <3>1 DEF MessagesOK
    <3>2. CASE m = new
      BY <2>1, <2>2, <3>2
    <3>3. QED BY <2>1, <3>1, <3>2
  <2>6. ASSUME NEW m \in messages', NEW k \in messages', m.try = k.try
        PROVE  m = k
    <3>1. new.try = t
      OBVIOUS
    <3>2. QED BY <2>1, <2>3, <2>6, <3>1 DEF MessagesOK
  <2>7. QED BY <2>4, <2>5, <2>6 DEF MessagesOK
<1>4. ASSUME NEW p \in Post, Return(p) PROVE MessagesOK'
  BY <1>4, MessagesFrame DEF TypeOK, Return, Client!ReturnOk
<1>5. ASSUME NEW p \in Post, Refused(p) PROVE MessagesOK'
  BY <1>5, MessagesFrame DEF TypeOK, Refused, Client!Refuse
<1>6. ASSUME NEW p \in Post, Failed(p) PROVE MessagesOK'
  BY <1>6, MessagesFrame DEF TypeOK, Failed, Client!Fail
<1>7. CASE UNCHANGED vars
  BY <1>7, MessagesFrame DEF vars
<1>8. QED
  BY <1>1, <1>2, <1>3, <1>4, <1>5, <1>6, <1>7 DEF Next

\* MailInv holds in every reachable state, for any number of posts and tries.
THEOREM MailInvariance == Spec => []MailInv
<1>1. MailInv /\ [Next]_vars => MailInv'
  BY NextType, NextTries, NextMessages DEF MailInv
<1>2. QED BY InitInv, <1>1, PTL DEF Spec

-----------------------------------------------------------------------------
(* What a caller sees *)

\* Only the last try can have made a message, since every other was refused.
LEMMA OneMessage ==
    ASSUME MailInv, NEW p \in Post
    PROVE  /\ \A m \in Of(p) : m.try = Current(p) /\ tries[p] > 0
           /\ \A m, k \in Of(p) : m = k
<1>1. ASSUME NEW m \in Of(p)
      PROVE  m.try = Current(p) /\ tries[p] > 0
  <2>1. PICK n \in 1 .. MaxTries : m.try = <<p, n>>
    BY DEF MailInv, TypeOK, Of, Try
  <2>2. <<p, n>> \in Try /\ effects[<<p, n>>] = 1
    BY <2>1 DEF MailInv, MessagesOK, Of, Try
  <2>3. status[<<p, n>>] \notin {"idle", "refused"}
    BY <2>2 DEF MailInv, MessagesOK
  <2>4. ~(n > tries[p]) /\ ~(n < tries[p])
    BY <2>3 DEF MailInv, TriesOK
  <2>5. n = tries[p] /\ tries[p] > 0
    <3>1. tries[p] \in 0 .. MaxTries
      BY DEF MailInv, TypeOK
    <3>2. QED BY <2>4, <3>1, TriesAssumption
  <2>6. QED BY <2>1, <2>5 DEF Current
<1>2. \A m, k \in Of(p) : m = k
  BY <1>1 DEF MailInv, MessagesOK, Of
<1>3. QED BY <1>1, <1>2

\* Authenticating and posting again after an OdooAuthError never leaves two
\* messages, however many tries there are and however late the server is.
THEOREM NeverTwice == Spec => []AtMostOneMessage
<1>1. MailInv => AtMostOneMessage
  <2> SUFFICES ASSUME MailInv, NEW p \in Post
               PROVE  Cardinality(Of(p)) <= 1
    BY DEF AtMostOneMessage
  <2>1. CASE Of(p) = {}
    BY <2>1, FS_EmptySet
  <2>2. CASE Of(p) # {}
    <3>1. PICK m \in Of(p) : TRUE
      BY <2>2
    <3>2. Of(p) = {m}
      BY <3>1, OneMessage
    <3>3. QED BY <3>2, FS_Singleton
  <2>3. QED BY <2>1, <2>2
<1>2. QED BY MailInvariance, <1>1, PTL

\* A task that ends with the class of an answer has posted nothing, and nothing
\* of it will be posted.
THEOREM AnswersAreTrue == Spec => []ClassTellsEffect
<1>1. MailInv => ClassTellsEffect
  <2> SUFFICES ASSUME MailInv, NEW p \in Post, raised[p] \in AnswerClass
               PROVE  Of(p) = {} /\ \A n \in 1 .. MaxTries : status[<<p, n>>] # "failed"
    BY DEF ClassTellsEffect
  <2>1. tries[p] \in Nat
    BY DEF MailInv, TypeOK
  <2>2. tries[p] > 0 => status[Current(p)] = "refused"
    BY DEF MailInv, TriesOK
  <2>3. ASSUME NEW n \in 1 .. MaxTries PROVE status[<<p, n>>] \in {"idle", "refused"}
    <3>1. CASE n = tries[p]
      BY <2>2, <3>1 DEF Current
    <3>2. CASE n # tries[p]
      BY <2>1, <3>2 DEF MailInv, TriesOK
    <3>3. QED BY <3>1, <3>2
  <2>4. ASSUME NEW m \in Of(p) PROVE FALSE
    <3>1. m.try = Current(p) /\ tries[p] > 0 /\ effects[m.try] = 1
      BY OneMessage DEF MailInv, MessagesOK, Of
    <3>2. Current(p) \in Try /\ status[Current(p)] = "refused"
      BY <2>2, <3>1, CurrentIsTry DEF MailInv
    <3>3. QED BY <3>1, <3>2 DEF MailInv, MessagesOK
  <2>5. QED BY <2>3, <2>4
<1>2. QED BY MailInvariance, <1>1, PTL

\* What is posted is what was asked for; whoever has had an answer made one
\* message, and returns its id if the answer holds it.
THEOREM PostsAreAsked == Spec => []PostedAsAsked
<1>1. ASSUME MailInv, NEW p \in Post, answered[p] # NONE
      PROVE  \E m \in messages :
                 /\ Of(p) = {m}
                 /\ answered[p] \in HoldsId => returned[p] = m.id
  <2>1. PICK m \in messages :
             /\ m.try[1] = p
             /\ answered[p] \in HoldsId => returned[p] = m.id
    BY <1>1 DEF MailInv, TriesOK
  <2>2. Of(p) = {m}
    BY <1>1, <2>1, OneMessage DEF Of
  <2>3. QED BY <2>1, <2>2
<1>2. ASSUME MailInv, NEW m \in messages
      PROVE  /\ m.values.is_internal = (args[m.try[1]].kind = "note")
             /\ m.body # NONE
             /\ m.body.content \notin {"empty", "spaces"}
  <2>1. PICK p \in Post : m \in Of(p) /\ m.try[1] = p
    BY <1>2 DEF MailInv, TypeOK, Of, Try
  <2>2. m.body = ensure_html_body(args[p].body) /\ m.values = MessageValues(args[p].kind)
    BY <1>2, <2>1 DEF MailInv, MessagesOK
  <2>3. ensure_html_body(args[p].body) # NONE
    BY <1>2, <2>1, OneMessage DEF MailInv, TriesOK
  <2>4. m.body.content \notin {"empty", "spaces"}
    BY <2>2, <2>3 DEF ensure_html_body
  <2>5. QED BY <2>1, <2>2, <2>3, <2>4 DEF MessageValues
<1>3. MailInv => PostedAsAsked
  BY <1>1, <1>2 DEF PostedAsAsked
<1>4. QED BY MailInvariance, <1>3, PTL

-----------------------------------------------------------------------------
(* The client beneath *)

\* What a step of a post does with the client is what a caller may do with it,
\* or what the client may do by itself.
LEMMA StepUses ==
    ASSUME MailInv, [Next]_vars
    PROVE  [Client!Next]_(Client!vars)
<1> USE DEF MailInv, Client!Next, Client!vars
<1>1. ASSUME NEW p \in Post, RejectBody(p) \/ AuthenticationFails(p)
      PROVE  UNCHANGED Client!vars
  BY <1>1 DEF RejectBody, AuthenticationFails
<1>2. ASSUME NEW p \in Post, CallMessagePost(p) PROVE Client!Next
  <2>1. tries[p] + 1 \in 1 .. MaxTries
    BY <1>2, TriesAssumption DEF TypeOK, TriesOK, CallMessagePost
  <2>2. <<p, tries[p] + 1>> \in Try
    BY <2>1 DEF Try
  <2>3. QED BY <1>2, <2>2 DEF CallMessagePost
<1>3. ASSUME NEW p \in Post, NEW n \in 1 .. MaxTries, MakeMessage(p, n)
      PROVE  Client!Next
  <2>1. <<p, n>> \in Try
    BY DEF Try
  <2>2. QED BY <1>3, <2>1 DEF MakeMessage
<1>4. ASSUME NEW p \in Post, Return(p) \/ Refused(p) \/ Failed(p)
      PROVE  Client!Next
  <2>1. pc[p] = "calling" /\ TriesOK(p)
    BY <1>4 DEF Return, Refused, Failed
  <2>2. Current(p) \in Try
    BY <2>1, CurrentIsTry DEF TriesOK
  <2>3. Client!ReturnOk(Current(p)) \/ Client!Refuse(Current(p)) \/ Client!Fail(Current(p))
    BY <1>4 DEF Return, Refused, Failed
  <2>4. QED BY <2>2, <2>3
<1>5. CASE UNCHANGED vars
  BY <1>5 DEF vars
<1>6. QED BY <1>1, <1>2, <1>3, <1>4, <1>5 DEF Next

\* A task that posts, fails, authenticates and posts again asks of the client
\* only what GuardedCall offers, with a call of its own for each try; OdooClient
\* is proved to offer that.
THEOREM UsesTheClient == Spec => Client!Spec
<1>1. Init => Client!Init
  BY DEF Init
<1>2. MailInv /\ [Next]_vars => [Client!Next]_(Client!vars)
  BY StepUses
<1>3. QED BY <1>1, <1>2, MailInvariance, PTL DEF Spec, Client!Spec

-----------------------------------------------------------------------------
(* Timesheets.  The argument: only the call an entry is named after creates *)
(* it, once (Settled), so that the create_date stop_timer has read is that  *)
(* of the entry for as long as there is one, and the hours it writes are    *)
(* never nil and no more than has passed by then.                           *)

-----------------------------------------------------------------------------
(* Types of the timers *)

TimersOK == \A c \in Call : EntryOK(c) /\ CallOK(c)

LEMMA ElapsedBounds ==
    ASSUME NEW e \in Int, NEW h \in ElapsedHours(e)
    PROVE  h \in Nat /\ h > 0 /\ 2 * h - 1 <= Largest(e, 2)
<1>1. Largest(e, 2) \in Int /\ Largest(e, 2) >= 2
  BY DEF Largest
<1>2. ASSUME NEW m \in Int, m >= 2
      PROVE  /\ m \div 2 \in Nat /\ m \div 2 > 0 /\ 2 * (m \div 2) <= m
             /\ (m + 1) \div 2 \in Nat /\ (m + 1) \div 2 > 0
             /\ 2 * ((m + 1) \div 2) <= m + 1
  BY <1>2
<1>3. QED BY <1>1, <1>2 DEF ElapsedHours

LEMMA TimesAreInts ==
    ASSUME TimersTypeOK
    PROVE  /\ clock \in Int /\ skew \in Int
           /\ \A c \in Call : rec[c] # NIL =>
                  rec[c].create_date \in Int /\ clock + skew - rec[c].create_date \in Int
           /\ \A c \in Call : entry[c] # NIL =>
                  /\ entry[c] \in Entry /\ entry[c].create_date \in Int
                  /\ entry[c].unit_amount \in Nat
BY TimesheetConstants DEF TimersTypeOK, Entry, Time

LEMMA NewEntryType ==
    ASSUME TimersTypeOK, NEW c \in Call, NewEntry(c)
    PROVE  entry' \in [Call -> Entry \cup {NIL}]
<1>1. [create_date |-> clock, unit_amount |-> hours[c]] \in Entry
  BY DEF TimersTypeOK, Entry
<1>2. QED BY <1>1 DEF TimersTypeOK, NewEntry

LEMMA WriteHoursEffect ==
    ASSUME TimersTypeOK, NEW c \in Call, timesheet_id[c] \in Call, WriteHours(c)
    PROVE  /\ entry' \in [Call -> Entry \cup {NIL}]
           /\ Exists(timesheet_id[c])
           /\ entry'[timesheet_id[c]] # NIL
           /\ entry'[timesheet_id[c]].unit_amount = hours[c]
           /\ entry'[timesheet_id[c]].create_date = entry[timesheet_id[c]].create_date
           /\ \A i \in Call \ {timesheet_id[c]} : entry'[i] = entry[i]
<1> DEFINE i == timesheet_id[c]
           new == [entry[i] EXCEPT !.unit_amount = hours[c]]
<1>1. entry[i] \in Entry /\ hours[c] \in Nat
  BY DEF TimersTypeOK, WriteHours, Exists
<1>2. /\ new \in Entry /\ new.unit_amount = hours[c]
      /\ new.create_date = entry[i].create_date
  BY <1>1 DEF Entry
<1>3. new # NIL
  BY <1>2, TimesheetConstants
<1>4. entry' = [entry EXCEPT ![i] = new]
  BY DEF WriteHours
<1> HIDE DEF new
<1>5. QED BY <1>2, <1>3, <1>4 DEF TimersTypeOK, WriteHours

LEMMA TimersTypes ==
    ASSUME TimersTypeOK, TimersOK, [TimersNext]_timersVars
    PROVE  TimersTypeOK'
<1> USE DEF TimersTypeOK
<1>1. ASSUME NEW c \in Call, BeginStart(c) PROVE TimersTypeOK'
  BY <1>1 DEF BeginStart
<1>2. ASSUME NEW c \in Call, NEW h \in 0 .. MaxHours, BeginLog(c,
             h) PROVE TimersTypeOK'
  BY <1>2, TimesheetConstants DEF BeginLog
<1>3. ASSUME NEW c \in Call, Create(c) PROVE TimersTypeOK'
  <2>1. entry' \in [Call -> Entry \cup {NIL}]
    BY <1>3, NewEntryType DEF Create
  <2>2. QED BY <1>3, <2>1 DEF Create
<1>4. ASSUME NEW c \in Call, ReadBack(c) PROVE TimersTypeOK'
  BY <1>4 DEF ReadBack
<1>5. ASSUME NEW c \in Call, NEW i \in Call, BeginStop(c, i) PROVE TimersTypeOK'
  BY <1>5 DEF BeginStop
<1>6. ASSUME NEW c \in Call, Read(c) PROVE TimersTypeOK'
  <2>1. timesheet_id[c] \in Call
    BY <1>6 DEF Read, TimersOK, CallOK
  <2>2. QED BY <1>6, <2>1 DEF Read
<1>7. ASSUME NEW c \in Call, Elapsed(c) PROVE TimersTypeOK'
  <2>1. rec[c] # NIL
    BY <1>7 DEF Elapsed, TimersOK, CallOK, HasRead
  <2>2. \A h \in ElapsedHours(clock + skew - rec[c].create_date) : h \in Nat
    BY <2>1, TimesAreInts, ElapsedBounds
  <2>3. hours' \in [Call -> Nat]
    BY <1>7, <2>2 DEF Elapsed
  <2>4. QED BY <1>7, <2>3 DEF Elapsed
<1>8. ASSUME NEW c \in Call, Write(c) PROVE TimersTypeOK'
  <2>1. timesheet_id[c] \in Call
    BY <1>8 DEF Write, TimersOK, CallOK
  <2>2. entry' \in [Call -> Entry \cup {NIL}]
    BY <1>8, <2>1, WriteHoursEffect DEF Write
  <2>3. QED BY <1>8, <2>2 DEF Write
<1>9. ASSUME NEW c \in Call, Fail(c) PROVE TimersTypeOK'
  BY <1>9 DEF Fail
<1>10. ASSUME NEW c \in Call, LateRequest(c) PROVE TimersTypeOK'
  <2>1. kind[c] = "stop_timer" => timesheet_id[c] \in Call
    BY <1>10 DEF LateRequest, TimersOK, CallOK
  <2>2. entry' \in [Call -> Entry \cup {NIL}]
    BY <1>10, <2>1, NewEntryType, WriteHoursEffect DEF LateRequest
  <2>3. QED BY <1>10, <2>2 DEF LateRequest
<1>11. ASSUME NEW c \in Call, Unlink(c) PROVE TimersTypeOK'
  BY <1>11 DEF Unlink, callVars
<1>12. CASE Tick
  BY <1>12, TimesheetConstants DEF Tick, callVars, Time
<1>13. CASE UNCHANGED timersVars
  BY <1>13 DEF timersVars, callVars
<1>14. QED
  BY <1>1, <1>2, <1>3, <1>4, <1>5, <1>6, <1>7, <1>8, <1>9, <1>10, <1>11, <1>12, <1>13
  DEF TimersNext

-----------------------------------------------------------------------------
(* Entries *)

\* What any step leaves alone.
LEMMA TimersFrame ==
    ASSUME TimersTypeOK, [TimersNext]_timersVars
    PROVE  UNCHANGED <<skew, kind>> /\ clock' \in Int /\ clock' >= clock
BY TimesheetConstants
DEF TimersTypeOK, Time, TimersNext, BeginStart, BeginLog, Create, ReadBack,
    BeginStop, Read, Elapsed, Write, Fail, LateRequest, Unlink, Tick, timersVars,
    callVars

\* The hours a call writes do not get wrong with time.
LEMMA LargestGrows ==
    ASSUME NEW a \in Int, NEW b \in Int, a <= b
    PROVE  /\ Largest(a, 2) \in Int /\ Largest(b, 2) \in Int
           /\ Largest(a, 2) <= Largest(b, 2)
BY DEF Largest

\* The hours of an entry are no more than has passed, and not nil.
Passed(u, created) == u > 0 /\ 2 * u - 1 <= Largest(clock + skew - created, 2)

\* The hours of stop_timer reach the server, in time or late.
LEMMA HoursWritten ==
    ASSUME TimersTypeOK, TimersOK, NEW c \in Call, HasHours(c), WriteHours(c)
    PROVE  /\ timesheet_id[c] \in Call
           /\ Passed(entry'[timesheet_id[c]].unit_amount,
                     entry[timesheet_id[c]].create_date)
<1>1. /\ timesheet_id[c] \in Call /\ HasRead(c)
      /\ Exists(timesheet_id[c])
    BY DEF TimersOK, CallOK, HasHours, HasRead, WriteHours
<1>2. QED BY <1>1, WriteHoursEffect DEF TimersOK, CallOK, Passed

LEMMA SettledStays ==
    ASSUME TimersTypeOK, TimersOK, [TimersNext]_timersVars, NEW i \in Call, Settled(i)
    PROVE  /\ Settled(i)'
           /\ Exists(i)' =>
                  /\ Exists(i)
                  /\ entry'[i].create_date = entry[i].create_date
                  /\ \/ entry'[i] = entry[i]
                     \/ Passed(entry'[i].unit_amount, entry[i].create_date)
<1> USE DEF Settled, Exists
<1>1. ASSUME NEW c \in Call,
             \/ BeginStart(c) \/ ReadBack(c) \/ Read(c)
             \/ Elapsed(c) \/ Fail(c)
             \/ \E h \in 0 .. MaxHours : BeginLog(c, h)
             \/ \E j \in Call : BeginStop(c, j)
      PROVE  Settled(i)' /\ entry' = entry
  <2>1. CASE BeginStart(c) \/ ReadBack(c) \/ Read(c) \/ Elapsed(c)
    BY <2>1 DEF BeginStart, ReadBack, Read, Elapsed, TimersTypeOK
  <2>2. CASE Fail(c)
    BY <2>2 DEF Fail, TimersTypeOK, TimersOK, CallOK
  <2>3. ASSUME NEW h \in 0 .. MaxHours, BeginLog(c,
               h) PROVE Settled(i)' /\ entry' = entry
    BY <2>3 DEF BeginLog, TimersTypeOK
  <2>4. ASSUME NEW j \in Call, BeginStop(c, j) PROVE Settled(i)' /\ entry' = entry
    BY <2>4 DEF BeginStop, TimersTypeOK
  <2>5. QED BY <1>1, <2>1, <2>2, <2>3, <2>4
<1>2. ASSUME NEW c \in Call, Create(c)
      PROVE  Settled(i)' /\ entry'[i] = entry[i]
  BY <1>2 DEF Create, NewEntry, TimersTypeOK
<1>3. ASSUME NEW c \in Call, WriteHours(c), HasHours(c)
      PROVE  Exists(i)' =>
                 /\ Exists(i)
                 /\ entry'[i].create_date = entry[i].create_date
                 /\ \/ entry'[i] = entry[i]
                    \/ Passed(entry'[i].unit_amount, entry[i].create_date)
  BY <1>3, HoursWritten, WriteHoursEffect
<1>4. ASSUME NEW c \in Call, Write(c)
      PROVE  Settled(i)' /\ WriteHours(c) /\ HasHours(c)
  BY <1>4 DEF Write, TimersTypeOK, TimersOK, CallOK, HasHours
<1>5. ASSUME NEW c \in Call, LateRequest(c)
      PROVE  /\ Settled(i)'
             /\ entry'[i] = entry[i] \/ (WriteHours(c) /\ HasHours(c))
  <2>1. Settled(i)' /\ c \in late /\ i # c
    BY <1>5 DEF LateRequest
  <2>2. ASSUME NewEntry(c) PROVE entry'[i] = entry[i]
    BY <2>1, <2>2 DEF NewEntry, TimersTypeOK
  <2>3. \/ NewEntry(c)
        \/ kind[c] = "stop_timer" /\ WriteHours(c)
        \/ entry' = entry
    BY <1>5 DEF LateRequest
  <2>4. QED BY <2>1, <2>2, <2>3 DEF HasHours
<1>6. ASSUME NEW c \in Call, Unlink(c)
      PROVE  Settled(i)' /\ (entry'[i] = NIL \/ entry'[i] = entry[i])
  BY <1>6 DEF Unlink, TimersTypeOK, callVars
<1>7. CASE Tick \/ UNCHANGED timersVars
  BY <1>7 DEF Tick, timersVars, callVars
<1>8. QED
  BY <1>1, <1>2, <1>3, <1>4, <1>5, <1>6, <1>7 DEF TimersNext

\* An entry that is not settled is new, with the hours it was asked for.
LEMMA UnsettledIsNew ==
    ASSUME TimersTypeOK, TimersOK, [TimersNext]_timersVars, NEW i \in Call,
           ~Settled(i), Exists(i)'
    PROVE  /\ Settled(i)'
           /\ entry'[i].unit_amount = hours[i] /\ hours'[i] = hours[i]
<1>1. entry[i] = NIL
  BY DEF TimersOK, EntryOK, Exists
<1>2. ASSUME NEW c \in Call, WriteHours(c), timesheet_id[c] \in Call PROVE FALSE
  <2>1. Exists(timesheet_id[c]) /\ timesheet_id[c] # i
    BY <1>1, <1>2 DEF WriteHours, Exists
  <2>2. QED BY <1>1, <1>2, <2>1, WriteHoursEffect DEF Exists
<1>3. \/ Create(i)
      \/ LateRequest(i) /\ kind[i] # "stop_timer" /\ NewEntry(i)
  <2>1. ASSUME NEW c \in Call, Create(c) PROVE c = i
    BY <1>1, <2>1 DEF Create, NewEntry, Exists, TimersTypeOK
  <2>2. ASSUME NEW c \in Call, LateRequest(c)
        PROVE  c = i /\ kind[i] # "stop_timer" /\ NewEntry(i)
    <3>1. ~(kind[c] = "stop_timer" /\ WriteHours(c))
      BY <1>2, <2>2 DEF LateRequest, TimersOK, CallOK
    <3>2. entry' # entry
      BY <1>1 DEF Exists
    <3>3. kind[c] # "stop_timer" /\ NewEntry(c)
      BY <2>2, <3>1, <3>2 DEF LateRequest
    <3>4. c = i
      BY <1>1, <3>3 DEF NewEntry, Exists, TimersTypeOK
    <3>5. QED BY <3>3, <3>4
  <2>3. ASSUME NEW c \in Call, Write(c) PROVE FALSE
    BY <1>2, <2>3 DEF Write, TimersOK, CallOK
  <2>4. ASSUME NEW c \in Call, Unlink(c) PROVE FALSE
    BY <1>1, <2>4 DEF Unlink, Exists, TimersTypeOK
  <2>5. ASSUME entry' = entry PROVE FALSE
    BY <1>1, <2>5 DEF Exists
  <2>6. ASSUME NEW c \in Call,
               \/ BeginStart(c) \/ ReadBack(c) \/ Read(c)
               \/ Elapsed(c) \/ Fail(c)
               \/ \E h \in 0 .. MaxHours : BeginLog(c, h)
               \/ \E j \in Call : BeginStop(c, j)
        PROVE  FALSE
    BY <2>5, <2>6 DEF BeginStart, ReadBack, Read, Elapsed, Fail, BeginLog, BeginStop
  <2>7. CASE Tick \/ UNCHANGED timersVars
    BY <2>5, <2>7 DEF timersVars, Tick
  <2>8. QED BY <2>1, <2>2, <2>3, <2>4, <2>6, <2>7 DEF TimersNext
<1>4. CASE Create(i)
  <2>1. /\ entry'[i].unit_amount = hours[i] /\ at[i] = "create"
        /\ UNCHANGED <<hours, late, kind>>
    BY <1>4 DEF Create, NewEntry, TimersTypeOK
  <2>2. at'[i] = "read_back" /\ i \notin late /\ kind[i] # "stop_timer"
    BY <1>4, <2>1 DEF Create, TimersTypeOK, TimersOK, CallOK
  <2>3. QED BY <2>1, <2>2 DEF Settled
<1>5. CASE LateRequest(i) /\ kind[i] # "stop_timer" /\ NewEntry(i)
  <2>1. entry'[i].unit_amount = hours[i] /\ UNCHANGED <<hours, at, kind>> /\ i \notin late'
    BY <1>5 DEF LateRequest, NewEntry, TimersTypeOK
  <2>2. at[i] = "raised"
    BY <1>5 DEF LateRequest, TimersOK, CallOK
  <2>3. QED BY <1>5, <2>1, <2>2 DEF Settled
<1>6. QED BY <1>3, <1>4, <1>5

-----------------------------------------------------------------------------
(* Calls *)

\* A call that a step leaves alone.
LEMMA TimerCallStays ==
    ASSUME TimersTypeOK, TimersOK, [TimersNext]_timersVars, NEW c \in Call,
           at'[c] = at[c], timesheet_id'[c] = timesheet_id[c], rec'[c] = rec[c],
           hours'[c] = hours[c], c \in late' => c \in late
    PROVE  CallOK(c)'
<1>1. kind' = kind /\ skew' = skew /\ clock' \in Int /\ clock' >= clock
  BY TimersFrame
<1>2. ASSUME HasRead(c)
      PROVE  /\ rec[c] # NIL /\ rec[c].create_date \in Int /\ timesheet_id[c] \in Call
             /\ Settled(timesheet_id[c])'
             /\ Exists(timesheet_id[c])' =>
                    entry'[timesheet_id[c]].create_date = rec[c].create_date
  <2>1. rec[c] # NIL /\ timesheet_id[c] \in Call /\ Settled(timesheet_id[c])
    BY <1>2 DEF TimersOK, CallOK, HasRead
  <2>2. QED BY <1>2, <2>1, SettledStays, TimesAreInts DEF TimersOK, CallOK
<1>3. ASSUME HasHours(c)
      PROVE  /\ hours[c] > 0
             /\ 2 * hours[c] - 1 <= Largest(clock' + skew - rec[c].create_date, 2)
  <2>1. HasRead(c)
    BY <1>3 DEF HasHours, HasRead
  <2>2. /\ hours[c] > 0 /\ hours[c] \in Nat
        /\ 2 * hours[c] - 1 <= Largest(clock + skew - rec[c].create_date, 2)
        /\ clock + skew - rec[c].create_date \in Int
        /\ clock' + skew - rec[c].create_date \in Int
        /\ clock + skew - rec[c].create_date <= clock' + skew - rec[c].create_date
    BY <1>1, <1>2, <1>3, <2>1, TimesAreInts DEF TimersOK, CallOK, TimersTypeOK
  <2>3. /\ Largest(clock + skew - rec[c].create_date, 2) \in Int
        /\ Largest(clock' + skew - rec[c].create_date, 2) \in Int
        /\ Largest(clock + skew - rec[c].create_date, 2)
               <= Largest(clock' + skew - rec[c].create_date, 2)
    BY <2>2, LargestGrows
  <2>4. QED BY <2>2, <2>3
<1>4. /\ HasRead(c)' => HasRead(c)
      /\ HasHours(c)' => HasHours(c)
  BY <1>1 DEF HasRead, HasHours
<1>5. QED BY <1>1, <1>2, <1>3, <1>4 DEF TimersOK, CallOK, Settled, Exists

LEMMA TimersCalls ==
    ASSUME TimersTypeOK, TimersOK, [TimersNext]_timersVars, NEW d \in Call
    PROVE  CallOK(d)'
<1>0. kind' = kind /\ CallOK(d)
  BY TimersFrame DEF TimersOK
<1>1. ASSUME at'[d] = at[d], timesheet_id'[d] = timesheet_id[d], rec'[d] = rec[d],
             hours'[d] = hours[d], d \in late' => d \in late
      PROVE  CallOK(d)'
  BY <1>1, TimerCallStays
<1>2. ASSUME ~HasRead(d)', d \in late' => at'[d] = "raised",
             kind[d] = "stop_timer" => at'[d] \notin {"create", "read_back"},
             at'[d] \in {"read", "elapsed", "write"} => kind[d] = "stop_timer",
             kind[d] = "stop_timer" /\ at'[d] # "idle" => timesheet_id'[d] \in Call
      PROVE  CallOK(d)'
  BY <1>0, <1>2 DEF CallOK, HasRead, HasHours
<1> USE DEF TimersTypeOK
<1>3. ASSUME NEW c \in Call, BeginStart(c) PROVE CallOK(d)'
  BY <1>0, <1>1, <1>2, <1>3 DEF BeginStart, CallOK, HasRead
<1>4. ASSUME NEW c \in Call, NEW h \in 0 .. MaxHours, BeginLog(c, h) PROVE CallOK(d)'
  BY <1>0, <1>1, <1>2, <1>4 DEF BeginLog, CallOK, HasRead
<1>5. ASSUME NEW c \in Call, Create(c) PROVE CallOK(d)'
  BY <1>0, <1>1, <1>2, <1>5 DEF Create, CallOK, HasRead
<1>6. ASSUME NEW c \in Call, ReadBack(c) PROVE CallOK(d)'
  BY <1>0, <1>1, <1>2, <1>6 DEF ReadBack, CallOK, HasRead
<1>7. ASSUME NEW c \in Call, NEW i \in Call, BeginStop(c, i) PROVE CallOK(d)'
  BY <1>0, <1>1, <1>2, <1>7 DEF BeginStop, CallOK, HasRead
<1>8. ASSUME NEW c \in Call, Read(c) PROVE CallOK(d)'
  <2>1. CASE c # d
    BY <1>1, <1>8, <2>1 DEF Read
  <2>2. CASE c = d /\ ~Exists(timesheet_id[c])
    BY <1>0, <1>2, <1>8, <2>2 DEF Read, CallOK, HasRead
  <2>3. CASE c = d /\ Exists(timesheet_id[c])
    <3>1. /\ kind[d] = "stop_timer" /\ timesheet_id[d] \in Call
          /\ at'[d] = "elapsed" /\ d \notin late' /\ UNCHANGED <<entry, timesheet_id>>
          /\ rec'[d] = entry[timesheet_id[d]] /\ rec'[d] # NIL
      BY <1>0, <1>8, <2>3 DEF Read, CallOK, Exists
    <3>2. Settled(timesheet_id[d])
      BY <2>3, <3>1 DEF TimersOK, EntryOK
    <3>3. Settled(timesheet_id[d])'
      BY <3>1, <3>2, SettledStays DEF Settled
    <3>4. QED BY <1>0, <3>1, <3>2, <3>3 DEF CallOK, HasRead, HasHours, Exists, Settled
  <2>4. QED BY <2>1, <2>2, <2>3
<1>9. ASSUME NEW c \in Call, Elapsed(c) PROVE CallOK(d)'
  <2>1. CASE c # d
    BY <1>1, <1>9, <2>1 DEF Elapsed
  <2>2. CASE c = d
    <3>1. /\ HasRead(d) /\ rec[d] # NIL /\ d \notin late /\ kind[d] = "stop_timer"
          /\ timesheet_id[d] \in Call
      BY <1>0, <1>9, <2>2 DEF Elapsed, CallOK, HasRead
    <3>2. PICK h \in ElapsedHours(clock + skew - rec[d].create_date) : hours'[d] = h
      BY <1>9, <2>2 DEF Elapsed
    <3>3. /\ hours'[d] > 0
          /\ 2 * hours'[d] - 1 <= Largest(clock + skew - rec[d].create_date, 2)
      BY <3>1, <3>2, TimesAreInts, ElapsedBounds
    <3>4. /\ at'[d] = "write"
          /\ UNCHANGED <<entry, clock, skew, kind, timesheet_id, rec, late>>
      BY <1>9, <2>2 DEF Elapsed
    <3>5. Settled(timesheet_id[d])
      BY <1>0, <3>1 DEF CallOK
    <3>6. Settled(timesheet_id[d])'
      BY <3>1, <3>4, <3>5, SettledStays DEF Settled
    <3>7. QED BY <1>0, <3>1, <3>3, <3>4, <3>5, <3>6
      DEF CallOK, HasRead, HasHours, Exists, Settled
  <2>3. QED BY <2>1, <2>2
<1>10. ASSUME NEW c \in Call, Write(c) PROVE CallOK(d)'
  <2>1. CASE c # d
    BY <1>1, <1>10, <2>1 DEF Write
  <2>2. CASE c = d
    <3>1. /\ HasHours(d) /\ HasRead(d) /\ timesheet_id[d] \in Call
          /\ WriteHours(d) /\ d \notin late
      BY <1>0, <1>10, <2>2 DEF Write, CallOK, HasRead, HasHours
    <3>2. /\ at'[d] = "done"
          /\ UNCHANGED <<clock, skew, kind, timesheet_id, rec, hours, late>>
      BY <1>10, <2>2 DEF Write
    <3>3. Settled(timesheet_id[d])
      BY <1>0, <3>1 DEF CallOK
    <3>4. /\ Settled(timesheet_id[d])'
          /\ entry'[timesheet_id[d]].create_date = rec[d].create_date
      BY <1>0, <3>1, <3>2, <3>3, SettledStays, WriteHoursEffect DEF Settled, CallOK
    <3>5. QED BY <1>0, <3>1, <3>2, <3>3, <3>4
      DEF CallOK, HasRead, HasHours, Settled, Exists
  <2>3. QED BY <2>1, <2>2
<1>11. ASSUME NEW c \in Call, Fail(c) PROVE CallOK(d)'
  <2>1. CASE c # d
    BY <1>1, <1>11, <2>1 DEF Fail
  <2>2. CASE c = d /\ d \notin late'
    BY <1>0, <1>2, <1>11, <2>2 DEF Fail, CallOK, HasRead
  <2>3. CASE c = d /\ d \in late' /\ at[d] = "create"
    BY <1>0, <1>2, <1>11, <2>3 DEF Fail, CallOK, HasRead
  <2>4. CASE c = d /\ d \in late' /\ at[d] = "write"
    <3>1. /\ HasHours(d) /\ HasRead(d) /\ kind[d] = "stop_timer"
          /\ timesheet_id[d] \in Call
      BY <1>0, <2>4 DEF CallOK, HasRead, HasHours
    <3>2. /\ at'[d] = "raised"
          /\ UNCHANGED <<entry, clock, skew, kind, timesheet_id, rec, hours>>
      BY <1>11, <2>4 DEF Fail
    <3>3. Settled(timesheet_id[d])
      BY <1>0, <3>1 DEF CallOK
    <3>4. Settled(timesheet_id[d])'
      BY <3>1, <3>2, <3>3, SettledStays DEF Settled
    <3>5. QED BY <1>0, <3>1, <3>2, <3>3, <3>4
      DEF CallOK, HasRead, HasHours, Settled, Exists
  <2>5. QED BY <1>0, <1>11, <2>1, <2>2, <2>3, <2>4 DEF Fail, CallOK
<1>12. ASSUME NEW c \in Call, LateRequest(c) PROVE CallOK(d)'
  BY <1>1, <1>12 DEF LateRequest
<1>13. ASSUME NEW c \in Call, Unlink(c) PROVE CallOK(d)'
  BY <1>1, <1>13 DEF Unlink, callVars
<1>14. CASE Tick \/ UNCHANGED timersVars
  BY <1>1, <1>14 DEF Tick, timersVars, callVars
<1>15. QED
  BY <1>3, <1>4, <1>5, <1>6, <1>7, <1>8, <1>9, <1>10, <1>11, <1>12, <1>13, <1>14
  DEF TimersNext

-----------------------------------------------------------------------------
(* The invariant of the timers *)

LEMMA TimersAtFirst == TimersInit => TimesheetsInv
<1> SUFFICES ASSUME TimersInit PROVE TimesheetsInv
  OBVIOUS
<1>1. TimersTypeOK
  BY TimesheetConstants DEF TimersInit, TimersTypeOK, Time
<1>2. QED
  BY <1>1
  DEF TimersInit, TimesheetsInv, EntryOK, CallOK, HasRead, HasHours, Exists,
      HoursAreReal, StoppedNotRunning

LEMMA TimersEntries ==
    ASSUME TimersTypeOK, TimersOK, [TimersNext]_timersVars, NEW i \in Call
    PROVE  EntryOK(i)'
<1>1. kind' = kind
  BY TimersFrame
<1>2. CASE Settled(i)
  BY <1>1, <1>2, SettledStays DEF TimersOK, EntryOK, Exists, Settled
<1>3. CASE ~Settled(i)
  BY <1>1, <1>3, UnsettledIsNew DEF EntryOK, Exists, Settled
<1>4. QED BY <1>2, <1>3

\* The hours an existing entry was asked for stay as they are.
LEMMA AskedHoursStay ==
    ASSUME TimersTypeOK, TimersOK, [TimersNext]_timersVars, NEW i \in Call,
           Settled(i)
    PROVE  hours'[i] = hours[i]
BY DEF TimersOK, CallOK, Settled, TimersTypeOK, TimersNext, BeginStart, BeginLog,
       Create, ReadBack, BeginStop, Read, Elapsed, Write, Fail, LateRequest, Unlink,
       Tick, timersVars, callVars

LEMMA TimersHours ==
    ASSUME TimersTypeOK, TimersOK, TimersTypeOK', HoursAreReal,
           [TimersNext]_timersVars
    PROVE  HoursAreReal'
<1> SUFFICES ASSUME NEW i \in Call, Exists(i)'
             PROVE  \/ entry'[i].unit_amount = hours'[i]
                    \/ 2 * entry'[i].unit_amount - 1
                           <= Largest(clock' + skew' - entry'[i].create_date, 2)
  BY DEF HoursAreReal, Exists
<1>1. CASE ~Settled(i)
  BY <1>1, UnsettledIsNew
<1>2. CASE Settled(i)
  <2>1. /\ Exists(i)
        /\ entry'[i].create_date = entry[i].create_date
        /\ \/ entry'[i] = entry[i]
           \/ Passed(entry'[i].unit_amount, entry[i].create_date)
    BY <1>2, SettledStays
  <2>2. hours'[i] = hours[i]
    BY <1>2, <2>1, AskedHoursStay
  <2> DEFINE before == clock + skew - entry[i].create_date
             after == clock' + skew' - entry'[i].create_date
  <2>3. /\ entry[i].create_date \in Int /\ entry'[i].unit_amount \in Nat
        /\ before \in Int /\ after \in Int /\ before <= after
    <3>1. entry'[i].unit_amount \in Nat
      BY DEF TimersTypeOK, Entry, Exists
    <3>2. QED BY <2>1, <3>1, TimersFrame, TimesAreInts DEF Exists
  <2> HIDE DEF before, after
  <2>4. /\ Largest(before, 2) \in Int /\ Largest(after, 2) \in Int
        /\ Largest(before, 2) <= Largest(after, 2)
    BY <2>3, LargestGrows
  <2>5. \/ entry'[i].unit_amount = hours[i]
        \/ 2 * entry'[i].unit_amount - 1 <= Largest(before, 2)
    BY <2>1 DEF HoursAreReal, Passed, before
  <2>6. QED BY <2>2, <2>3, <2>4, <2>5 DEF after
<1>3. QED BY <1>1, <1>2

LEMMA TimersStopped ==
    ASSUME TimersTypeOK, TimersOK, StoppedNotRunning, [TimersNext]_timersVars
    PROVE  StoppedNotRunning'
<1> SUFFICES ASSUME NEW c \in Call, kind[c] = "stop_timer", at'[c] = "done",
                    timesheet_id'[c] \in Call, entry'[timesheet_id'[c]] # NIL
             PROVE  entry'[timesheet_id'[c]].unit_amount # 0
  BY TimersFrame DEF StoppedNotRunning, Running, Exists
<1>1. CASE Write(c)
  <2>1. HasHours(c) /\ WriteHours(c) /\ timesheet_id' = timesheet_id
    BY <1>1 DEF Write, TimersOK, CallOK, HasHours
  <2>2. Passed(entry'[timesheet_id[c]].unit_amount, entry[timesheet_id[c]].create_date)
    BY <2>1, HoursWritten
  <2>3. QED BY <2>1, <2>2 DEF Passed
<1>2. CASE ~Write(c)
  <2>1. at[c] = "done" /\ timesheet_id'[c] = timesheet_id[c]
    BY <1>2
    DEF TimersNext, timersVars, callVars, TimersTypeOK, TimersOK, CallOK, BeginStart,
        BeginLog, Create, ReadBack, BeginStop, Read, Elapsed, Write, Fail,
        LateRequest, Unlink, Tick
  <2>2. Settled(timesheet_id[c]) /\ timesheet_id[c] \notin Running
    BY <2>1 DEF TimersOK, CallOK, HasRead, StoppedNotRunning
  <2>3. /\ Exists(timesheet_id[c])
        /\ \/ entry'[timesheet_id[c]] = entry[timesheet_id[c]]
           \/ Passed(entry'[timesheet_id[c]].unit_amount,
                     entry[timesheet_id[c]].create_date)
    BY <2>1, <2>2, SettledStays DEF Exists
  <2>4. QED BY <2>1, <2>2, <2>3 DEF Running, Passed
<1>3. QED BY <1>1, <1>2

LEMMA TimersStep ==
    ASSUME TimesheetsInv, [TimersNext]_timersVars
    PROVE  TimesheetsInv'
<1>1. TimersTypeOK /\ TimersOK /\ HoursAreReal /\ StoppedNotRunning
  BY DEF TimesheetsInv, TimersOK
<1>2. TimersTypeOK'
  BY <1>1, TimersTypes
<1>3. QED
  BY <1>1, <1>2, TimersEntries, TimersCalls, TimersHours, TimersStopped
  DEF TimesheetsInv

-----------------------------------------------------------------------------
(* Theorems about the timers *)

\* Every entry was created by its own call, and stop_timer writes what it read.
THEOREM TimersInvariance == TimersSpec => []TimesheetsInv
<1>1. QED BY TimersAtFirst, TimersStep, PTL DEF TimersSpec

\* The hours of an entry are those it was asked for, or no more than has passed.
THEOREM HoursHavePassed == TimersSpec => []HoursAreReal
<1>1. TimesheetsInv => HoursAreReal
  BY DEF TimesheetsInv
<1>2. QED BY <1>1, TimersInvariance, PTL

\* A timer that stop_timer has stopped does not run.
THEOREM StoppedTimersStand == TimersSpec => []StoppedNotRunning
<1>1. TimesheetsInv => StoppedNotRunning
  BY DEF TimesheetsInv
<1>2. QED BY <1>1, TimersInvariance, PTL

=============================================================================
