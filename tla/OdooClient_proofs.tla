------------------------- MODULE OdooClient_proofs -------------------------
(***************************************************************************)
(* Proofs about OdooClient, for any sets of calls, authentications,        *)
(* methods and safety contexts.                                            *)
(*                                                                         *)
(* The argument: IInv (OdooClient.tla) is inductive.  Its three parts are  *)
(* the types, the pairing of uid and password, and CallsOK, which follows  *)
(* one call from its guard to the server's answer.  Each part is preserved *)
(* by each action; the safety properties and the step simulation of        *)
(* GuardedCall then follow from IInv without looking at histories.         *)
(***************************************************************************)
EXTENDS OdooClient, TLAPS

-----------------------------------------------------------------------------
(* Types *)

LEMMA InitType == Init => TypeOK
<1> SUFFICES ASSUME Init PROVE TypeOK
  OBVIOUS
<1>1. request \in [Call -> [uid : MaybeAuth, password : MaybeAuth]]
  BY DEF Init, NoRequest, MaybeAuth
<1>2. /\ effects \in [Call -> Nat]
      /\ approvals \in SUBSET (MaybeContext \X Call)
  BY DEF Init
<1>3. QED
  BY <1>1, <1>2 DEF Init, TypeOK, MaybeAuth, MaybeContext

LEMMA EffectiveSafetyType ==
    ASSUME TypeOK, NEW m
    PROVE  guard_asks(m) \in MaybeContext
BY DEF TypeOK, MaybeContext, guard_asks, effective_safety, resolve_safety_context

LEMMA TransportCallType ==
    ASSUME TypeOK, NEW c \in Call, transport_call(c)
    PROVE  /\ pc' \in [Call -> {"idle", "confirming", "posted", "done"}]
           /\ outcome' \in [Call -> Outcome \cup {NONE}]
           /\ request' \in [Call -> [uid : MaybeAuth, password : MaybeAuth]]
           /\ wire' \in SUBSET Call
<1>1. CASE session = NONE
  BY <1>1 DEF TypeOK, transport_call, Finish, Outcome
<1>2. CASE session # NONE /\ closed
  BY <1>2 DEF TypeOK, transport_call, Finish, Outcome
<1>3. CASE session # NONE /\ ~closed
  <2>1. [uid |-> session, password |-> password] \in
            [uid : MaybeAuth, password : MaybeAuth]
    BY DEF TypeOK
  <2>2. /\ request' = [request EXCEPT ![c] =
                           [uid |-> session, password |-> password]]
        /\ wire' = wire \cup {c}
        /\ pc' = [pc EXCEPT ![c] = "posted"]
        /\ outcome' = outcome
    BY <1>3 DEF transport_call
  <2>3. request' \in [Call -> [uid : MaybeAuth, password : MaybeAuth]]
    BY <2>1, <2>2 DEF TypeOK
  <2>4. QED BY <2>2, <2>3 DEF TypeOK
<1>4. QED BY <1>1, <1>2, <1>3 DEF TypeOK

LEMMA NoteDueType ==
    ASSUME TypeOK, NEW c \in Call, NoteDue(c)
    PROVE  due' \in [Call -> MaybeContext]
BY DEF TypeOK, NoteDue, ContextInForce, MaybeContext

LEMMA NextType ==
    ASSUME TypeOK, [Next]_vars
    PROVE  TypeOK'
<1> USE DEF clientVars, safetyVars, callVars, serverVars
<1>1. ASSUME NEW a \in Auth, Authenticate(a) \/ AuthGranted(a) \/ AuthFailed(a)
      PROVE  TypeOK'
  <2>1. CASE Authenticate(a)
    BY <2>1 DEF TypeOK, Authenticate
  <2>2. CASE AuthGranted(a)
    BY <2>2 DEF TypeOK, AuthGranted, MaybeAuth
  <2>3. CASE AuthFailed(a)
    BY <2>3 DEF TypeOK, AuthFailed
  <2>4. QED BY <1>1, <2>1, <2>2, <2>3
<1>2. CASE Logout
  BY <1>2 DEF TypeOK, Logout, MaybeAuth
<1>3. CASE Aclose
  BY <1>3 DEF TypeOK, Aclose
<1>4. ASSUME NEW x \in Context \cup {NONE},
             SetSafetyContext(x) \/ SetDefaultSafetyContext(x)
      PROVE  TypeOK'
  BY <1>4 DEF TypeOK, SetSafetyContext, SetDefaultSafetyContext, MaybeContext
<1>5. ASSUME NEW c \in Call, CallUnauthenticated(c)
      PROVE  TypeOK'
  BY <1>5, NoteDueType DEF TypeOK, CallUnauthenticated, Finish, Outcome
<1>6. ASSUME NEW c \in Call, CallUnguarded(c)
      PROVE  TypeOK'
  BY <1>6, NoteDueType, TransportCallType DEF TypeOK, CallUnguarded
<1>7. ASSUME NEW c \in Call, CallGuarded(c)
      PROVE  TypeOK'
  BY <1>7, NoteDueType, EffectiveSafetyType DEF TypeOK, CallGuarded
<1>8. ASSUME NEW c \in Call, ConfirmAllows(c)
      PROVE  TypeOK'
  <2>1. approvals' \in SUBSET (MaybeContext \X Call)
    BY <1>8 DEF TypeOK, ConfirmAllows
  <2>2. QED BY <1>8, <2>1, TransportCallType DEF TypeOK, ConfirmAllows
<1>9. ASSUME NEW c \in Call, ConfirmDenies(c) \/ ConfirmRaises(c)
      PROVE  TypeOK'
  BY <1>9 DEF TypeOK, ConfirmDenies, ConfirmRaises, Finish, Outcome
<1>10. ASSUME NEW c \in Call, Cancel(c)
       PROVE  TypeOK'
  BY <1>10 DEF TypeOK, Cancel, Finish, Outcome
<1>11. ASSUME NEW c \in Call, ReplyArrives(c)
       PROVE  TypeOK'
  BY <1>11 DEF TypeOK, ReplyArrives, Finish, Outcome
<1>12. ASSUME NEW c \in Call, NEW how \in {"network_error", "protocol_error"},
              PostFails(c, how)
       PROVE  TypeOK'
  BY <1>12 DEF TypeOK, PostFails, Finish, Outcome
<1>13. ASSUME NEW c \in Call, ServerExecutes(c) \/ ServerRejects(c)
       PROVE  TypeOK'
  <2>1. CASE ServerExecutes(c)
    BY <2>1 DEF TypeOK, ServerExecutes
  <2>2. CASE ServerRejects(c)
    BY <2>2 DEF TypeOK, ServerRejects
  <2>3. QED BY <1>13, <2>1, <2>2
<1>14. CASE UNCHANGED vars
  BY <1>14 DEF TypeOK, vars
<1>15. QED
  BY <1>1, <1>2, <1>3, <1>4, <1>5, <1>6, <1>7, <1>8, <1>9, <1>10, <1>11,
     <1>12, <1>13, <1>14
  DEF Next, ConfirmReturns, PostEnds

\* Every variable keeps its type, whatever the tasks, the server and the
\* network do.
THEOREM TypeCorrect == Spec => []TypeOK
<1>1. QED BY InitType, NextType, PTL DEF Spec

-----------------------------------------------------------------------------
(* Credentials *)

LEMMA NextCredentials ==
    ASSUME TypeOK, CredentialsAreOneGrant, [Next]_vars
    PROVE  CredentialsAreOneGrant'
<1> USE SentinelAssumption
    DEF clientVars, safetyVars, callVars, serverVars
<1>1. ASSUME NEW a \in Auth, Authenticate(a) \/ AuthGranted(a) \/ AuthFailed(a)
      PROVE  CredentialsAreOneGrant'
  <2>1. CASE Authenticate(a)
    BY <2>1 DEF TypeOK, CredentialsAreOneGrant, Authenticate, MaybeAuth
  <2>2. CASE AuthGranted(a)
    BY <2>2 DEF TypeOK, CredentialsAreOneGrant, AuthGranted, MaybeAuth
  <2>3. CASE AuthFailed(a)
    BY <2>3 DEF TypeOK, CredentialsAreOneGrant, AuthFailed, MaybeAuth
  <2>4. QED BY <1>1, <2>1, <2>2, <2>3
<1>2. CASE Logout
  BY <1>2 DEF CredentialsAreOneGrant, Logout
\* A call's payload takes the two fields as they are, coherent and granted.
<1>3. ASSUME NEW c \in Call, CallUnguarded(c) \/ ConfirmAllows(c)
      PROVE  CredentialsAreOneGrant'
  <2>1. /\ transport_call(c)
        /\ UNCHANGED <<session, password, apc>>
    BY <1>3 DEF CallUnguarded, ConfirmAllows
  <2>2. QED BY <2>1 DEF transport_call, Finish, TypeOK, CredentialsAreOneGrant
\* No other step writes a payload; the wire can only lose requests.
<1>4. ASSUME UNCHANGED <<session, password, apc, request>>, wire' \subseteq wire
      PROVE  CredentialsAreOneGrant'
  BY <1>4 DEF CredentialsAreOneGrant
<1>5. CASE Aclose
  BY <1>4, <1>5 DEF Aclose
<1>6. ASSUME NEW x \in Context \cup {NONE},
             SetSafetyContext(x) \/ SetDefaultSafetyContext(x)
      PROVE  CredentialsAreOneGrant'
  BY <1>4, <1>6 DEF SetSafetyContext, SetDefaultSafetyContext
<1>7. ASSUME NEW c \in Call,
             \/ CallUnauthenticated(c) \/ CallGuarded(c)
             \/ ConfirmDenies(c) \/ ConfirmRaises(c)
             \/ Cancel(c) \/ ReplyArrives(c)
             \/ ServerExecutes(c) \/ ServerRejects(c)
      PROVE  CredentialsAreOneGrant'
  BY <1>4, <1>7 DEF CallUnauthenticated, CallGuarded, ConfirmDenies,
     ConfirmRaises, Cancel, ReplyArrives, ServerExecutes, ServerRejects
<1>8. ASSUME NEW c \in Call, NEW how, PostFails(c, how)
      PROVE  CredentialsAreOneGrant'
  BY <1>4, <1>8 DEF PostFails
<1>9. CASE UNCHANGED vars
  BY <1>4, <1>9 DEF vars
<1>10. QED
  BY <1>1, <1>2, <1>3, <1>5, <1>6, <1>7, <1>8, <1>9
  DEF Next, ConfirmReturns, PostEnds

-----------------------------------------------------------------------------
(* One call, from its guard to its answer *)

\* What a step does to other calls, or to the context and the session, does
\* not disturb a call: only its own fields, the approvals and the wire count.
LEMMA CallFrame ==
    ASSUME NEW d \in Call, CallOK(d),
           pc'[d] = pc[d], asked'[d] = asked[d], outcome'[d] = outcome[d],
           reply'[d] = reply[d], effects'[d] = effects[d], due'[d] = due[d],
           d \in wire' => d \in wire,
           approvals \subseteq approvals'
    PROVE  CallOK(d)'
BY DEF CallOK, QuietUntilPosted, PostedIsApproved, ReplyTells, OutcomeTells,
       Approved

\* The transport's part of a call whose guard is behind it.
LEMMA TransportCallKeepsCall ==
    ASSUME TypeOK, NEW c \in Call, CallOK(c), transport_call(c),
           pc[c] \in {"idle", "confirming"},
           Approved(c)', asked'[c] # NONE => asked'[c] = due'[c],
           UNCHANGED <<reply, effects>>
    PROVE  CallOK(c)'
<1>1. /\ reply'[c] = NONE
      /\ reply'[c] # "result"
      /\ c \notin wire
      /\ outcome[c] = NONE
  BY SentinelAssumption DEF CallOK, QuietUntilPosted, OutcomeTells
<1>2. CASE session = NONE \/ closed
  <2>1. PICK how \in {"auth_error", "closed_error"} :
            Finish(c, how) /\ UNCHANGED <<request, wire>>
    BY <1>2 DEF transport_call
  <2>2. pc'[c] = "done" /\ outcome'[c] = how /\ reply'[c] = NONE
        /\ c \notin wire'
    BY <1>1, <2>1 DEF TypeOK, Finish
  <2>3. QED
    BY <1>1, <2>2, SentinelAssumption
    DEF CallOK, QuietUntilPosted, PostedIsApproved, ReplyTells, OutcomeTells,
        Outcome
<1>3. CASE session # NONE /\ ~closed
  <2>1. pc'[c] = "posted" /\ outcome'[c] = NONE /\ reply'[c] = NONE
    BY <1>1, <1>3 DEF TypeOK, transport_call
  <2>2. QED
    BY <1>1, <2>1, SentinelAssumption
    DEF CallOK, QuietUntilPosted, PostedIsApproved, ReplyTells, OutcomeTells,
        Outcome, Refusals
<1>4. QED BY <1>2, <1>3

LEMMA NextCalls ==
    ASSUME TypeOK, CredentialsAreOneGrant, CallsOK, [Next]_vars
    PROVE  CallsOK'
<1> USE DEF clientVars, safetyVars, callVars, serverVars
<1> SUFFICES ASSUME NEW d \in Call
             PROVE  CallOK(d)'
  BY DEF CallsOK
<1>1. CallOK(d)
  BY DEF CallsOK
\* The steps of authentications, contexts, logout and close frame every call.
<1>2. ASSUME UNCHANGED <<callVars, serverVars>>
      PROVE  CallOK(d)'
  BY <1>1, <1>2, CallFrame
<1>3. ASSUME NEW a \in Auth, Authenticate(a) \/ AuthGranted(a) \/ AuthFailed(a)
      PROVE  CallOK(d)'
  BY <1>2, <1>3 DEF Authenticate, AuthGranted, AuthFailed
<1>4. CASE Logout \/ Aclose
  BY <1>2, <1>4 DEF Logout, Aclose
<1>5. ASSUME NEW x \in Context \cup {NONE},
             SetSafetyContext(x) \/ SetDefaultSafetyContext(x)
      PROVE  CallOK(d)'
  BY <1>2, <1>5 DEF SetSafetyContext, SetDefaultSafetyContext
<1>6. ASSUME NEW c \in Call, CallUnauthenticated(c)
      PROVE  CallOK(d)'
  <2>1. CASE d # c
    BY <1>1, <1>6, <2>1, CallFrame DEF CallUnauthenticated, NoteDue, Finish, TypeOK
  <2>2. CASE d = c
    <3>1. /\ pc'[d] = "done" /\ outcome'[d] = "auth_error"
          /\ reply'[d] = NONE /\ d \notin wire' /\ asked'[d] = NONE
      BY <1>1, <1>6, <2>2
      DEF CallUnauthenticated, Finish, TypeOK, CallOK, QuietUntilPosted
    <3>2. effects' = effects /\ reply' = reply
      BY <1>6 DEF CallUnauthenticated
    <3>3. QED
      BY <1>1, <3>1, <3>2, SentinelAssumption
      DEF CallOK, QuietUntilPosted, PostedIsApproved, ReplyTells, OutcomeTells,
          Outcome
  <2>3. QED BY <2>1, <2>2
<1>7. ASSUME NEW c \in Call, CallUnguarded(c)
      PROVE  CallOK(d)'
  <2>1. CASE d # c
    BY <1>1, <1>7, <2>1, CallFrame
    DEF CallUnguarded, transport_call, NoteDue, Finish, TypeOK
  <2>2. CASE d = c
    \* The guard asks nobody exactly when no approval is due.
    <3>1. due'[d] = NONE
      BY <1>7, <2>2
      DEF CallUnguarded, NoteDue, TypeOK, guard_asks, infer_safety_level,
          effective_safety, resolve_safety_context, ContextInForce
    <3>2. asked'[d] = NONE
      BY <1>1, <1>7, <2>2 DEF CallUnguarded, CallOK, QuietUntilPosted
    <3>3. transport_call(d) /\ UNCHANGED <<reply, effects>> /\ pc[d] = "idle"
      BY <1>7, <2>2 DEF CallUnguarded
    <3>4. QED
      BY <1>1, <3>1, <3>2, <3>3, TransportCallKeepsCall DEF Approved
  <2>3. QED BY <2>1, <2>2
<1>8. ASSUME NEW c \in Call, CallGuarded(c)
      PROVE  CallOK(d)'
  <2>1. CASE d # c
    BY <1>1, <1>8, <2>1, CallFrame DEF CallGuarded, NoteDue, TypeOK
  <2>2. CASE d = c
    <3>1. asked'[d] = due'[d] /\ asked'[d] # NONE
      BY <1>8, <2>2
      DEF CallGuarded, NoteDue, TypeOK, guard_asks, infer_safety_level,
          effective_safety, resolve_safety_context, ContextInForce
    <3>2. pc'[d] = "confirming" /\ UNCHANGED <<outcome, reply, wire, effects>>
      BY <1>8, <2>2 DEF CallGuarded, TypeOK
    <3>3. outcome[d] = NONE /\ reply[d] = NONE /\ d \notin wire
      BY <1>1, <1>8, <2>2 DEF CallGuarded, CallOK, QuietUntilPosted, OutcomeTells
    <3>4. QED
      BY <1>1, <3>1, <3>2, <3>3, SentinelAssumption
      DEF CallOK, QuietUntilPosted, PostedIsApproved, ReplyTells, OutcomeTells,
          Outcome, Refusals
  <2>3. QED BY <2>1, <2>2
<1>9. ASSUME NEW c \in Call, ConfirmAllows(c)
      PROVE  CallOK(d)'
  <2>1. CASE d # c
    BY <1>1, <1>9, <2>1, CallFrame
    DEF ConfirmAllows, transport_call, Finish, TypeOK
  <2>2. CASE d = c
    <3>1. Approved(d)' /\ asked'[d] = due'[d]
      BY <1>1, <1>9, <2>2 DEF ConfirmAllows, Approved, CallOK, QuietUntilPosted
    <3>2. /\ transport_call(d)
          /\ UNCHANGED <<reply, effects>>
          /\ pc[d] = "confirming"
      BY <1>9, <2>2 DEF ConfirmAllows
    <3>3. QED BY <1>1, <3>1, <3>2, TransportCallKeepsCall
  <2>3. QED BY <2>1, <2>2
<1>10. ASSUME NEW c \in Call, ConfirmDenies(c) \/ ConfirmRaises(c)
       PROVE  CallOK(d)'
  <2>1. CASE d # c
    BY <1>1, <1>10, <2>1, CallFrame DEF ConfirmDenies, ConfirmRaises, Finish, TypeOK
  <2>2. CASE d = c
    <3>1. /\ pc'[d] = "done" /\ outcome'[d] \in {"safety_error", "callback_error"}
          /\ reply'[d] = NONE /\ d \notin wire'
      BY <1>1, <1>10, <2>2
      DEF ConfirmDenies, ConfirmRaises, Finish, TypeOK, CallOK, QuietUntilPosted
    <3>2. UNCHANGED <<asked, due, effects, reply>>
      BY <1>10 DEF ConfirmDenies, ConfirmRaises
    <3>3. QED
      BY <1>1, <3>1, <3>2, SentinelAssumption
      DEF CallOK, QuietUntilPosted, PostedIsApproved, ReplyTells, OutcomeTells,
          Outcome
  <2>3. QED BY <2>1, <2>2
<1>11. ASSUME NEW c \in Call,
              NEW how \in {"cancelled", "network_error", "protocol_error"},
              (Cancel(c) /\ how = "cancelled") \/ PostFails(c, how)
       PROVE  CallOK(d)'
  <2>1. /\ pc[c] \in {"confirming", "posted"}
        /\ Finish(c, how)
        /\ wire' \subseteq wire
        /\ UNCHANGED <<asked, due, approvals, reply, effects>>
    BY <1>11 DEF Cancel, PostFails
  <2>2. CASE d # c
    BY <1>1, <2>1, <2>2, CallFrame DEF Finish, TypeOK
  <2>3. CASE d = c
    <3>1. pc'[d] = "done" /\ outcome'[d] = how
      BY <2>1, <2>3 DEF Finish, TypeOK
    <3>2. QED
      BY <1>1, <2>1, <2>3, <3>1, SentinelAssumption
      DEF CallOK, QuietUntilPosted, PostedIsApproved, ReplyTells, OutcomeTells,
          Outcome, Refusals, Approved
  <2>4. QED BY <2>2, <2>3
<1>12. ASSUME NEW c \in Call, ReplyArrives(c)
       PROVE  CallOK(d)'
  <2>1. CASE d # c
    BY <1>1, <1>12, <2>1, CallFrame DEF ReplyArrives, Finish, TypeOK
  <2>2. CASE d = c
    <3>1. /\ pc'[d] = "done"
          /\ outcome'[d] = IF reply[d] = "result" THEN "ok" ELSE "rpc_error"
          /\ reply[d] # NONE
          /\ UNCHANGED <<asked, due, approvals, reply, effects, wire>>
      BY <1>12, <2>2 DEF ReplyArrives, Finish, TypeOK
    <3>2. QED
      BY <1>1, <3>1, SentinelAssumption
      DEF CallOK, QuietUntilPosted, PostedIsApproved, ReplyTells, OutcomeTells,
          Outcome, Refusals, Approved
  <2>3. QED BY <2>1, <2>2
<1>13. ASSUME NEW c \in Call, ServerExecutes(c) \/ ServerRejects(c)
       PROVE  CallOK(d)'
  <2>1. CASE d # c
    BY <1>1, <1>13, <2>1, CallFrame DEF ServerExecutes, ServerRejects, TypeOK
  <2>2. CASE d = c
    <3>1. /\ d \in wire /\ d \notin wire'
          /\ UNCHANGED <<pc, asked, outcome, due, approvals>>
      BY <1>13, <2>2 DEF ServerExecutes, ServerRejects
    <3>2. reply[d] = NONE /\ effects[d] = 0 /\ Approved(d)
      BY <1>1, <3>1, SentinelAssumption DEF CallOK, PostedIsApproved, ReplyTells
    <3>3. \/ reply'[d] = "result" /\ effects'[d] = 1
          \/ reply'[d] = "error" /\ effects'[d] = 0
      BY <1>13, <2>2, <3>2 DEF ServerExecutes, ServerRejects, TypeOK
    <3>4. outcome[d] \notin Refusals /\ pc[d] \notin {"idle", "confirming"}
      BY <1>1, <3>1 DEF CallOK, OutcomeTells, QuietUntilPosted
    <3>5. outcome[d] # "ok"
      BY <1>1, <3>2, SentinelAssumption DEF CallOK, OutcomeTells
    <3>6. QED
      BY <1>1, <3>1, <3>2, <3>3, <3>4, <3>5, SentinelAssumption
      DEF CallOK, QuietUntilPosted, PostedIsApproved, ReplyTells, OutcomeTells,
          Approved
  <2>3. QED BY <2>1, <2>2
<1>14. CASE UNCHANGED vars
  BY <1>2, <1>14 DEF vars
<1>15. QED
  BY <1>3, <1>4, <1>5, <1>6, <1>7, <1>8, <1>9, <1>10, <1>11, <1>12, <1>13, <1>14
  DEF Next, ConfirmReturns, PostEnds

-----------------------------------------------------------------------------
(* The inductive invariant and what follows from it *)

LEMMA InitInv == Init => IInv
<1> SUFFICES ASSUME Init PROVE IInv
  OBVIOUS
<1>1. CredentialsAreOneGrant
  BY DEF Init, CredentialsAreOneGrant
<1>2. ASSUME NEW c \in Call
      PROVE  CallOK(c)
  <2>1. /\ pc[c] = "idle" /\ asked[c] = NONE /\ outcome[c] = NONE
        /\ reply[c] = NONE /\ c \notin wire /\ effects[c] = 0
    BY DEF Init
  <2>2. outcome[c] \notin Outcome /\ reply[c] # "result"
    BY <2>1, SentinelAssumption
  <2>3. QED
    BY <2>1, <2>2
    DEF CallOK, QuietUntilPosted, PostedIsApproved, ReplyTells, OutcomeTells,
        Refusals, Outcome
<1>3. QED BY <1>1, <1>2, InitType DEF IInv, CallsOK

LEMMA NextInv == IInv /\ [Next]_vars => IInv'
BY NextType, NextCredentials, NextCalls DEF IInv

\* IInv holds in every state the client can reach.
THEOREM Invariance == Spec => []IInv
BY InitInv, NextInv, PTL DEF Spec

LEMMA InvImpliesApproved == IInv => EffectsAreApproved
BY SentinelAssumption
DEF IInv, CallsOK, CallOK, ReplyTells, PostedIsApproved, Approved,
    EffectsAreApproved

\* No operation reaches the server without the approval of the context that
\* was in force when the call began, however contexts are swapped, sessions
\* change and tasks are cancelled while the confirm is awaited.
THEOREM GuardHolds == Spec => []EffectsAreApproved
BY Invariance, InvImpliesApproved, PTL

\* Only the context in force is asked, and only for what is not a read.
THEOREM GuardIsExact == Spec => []OnlyAskedWhenDue
<1>1. IInv => OnlyAskedWhenDue
  BY DEF IInv, CallsOK, CallOK, OnlyAskedWhenDue
<1>2. QED BY <1>1, Invariance, PTL

\* uid and password, on the transport and on the wire, are one grant's.
THEOREM CredentialsCoherent == Spec => []CredentialsAreOneGrant
<1>1. IInv => CredentialsAreOneGrant
  BY DEF IInv
<1>2. QED BY <1>1, Invariance, PTL

\* The server carries no call out twice.
THEOREM NoSecondEffect == Spec => []AtMostOnce
<1>1. IInv => AtMostOnce
  <2>1. ASSUME CallsOK, NEW c \in Call
        PROVE  effects[c] = 0 \/ effects[c] = 1
    BY <2>1 DEF CallsOK, CallOK, ReplyTells
  <2>2. ASSUME NEW n, n = 0 \/ n = 1
        PROVE  n <= 1
    BY <2>2
  <2>3. QED BY <2>1, <2>2 DEF IInv, AtMostOnce
<1>2. QED BY <1>1, Invariance, PTL

\* A refused call has no effect, and never will have one.
THEOREM RefusedIsOver == Spec => []RefusalIsFinal
<1>1. IInv => RefusalIsFinal
  BY DEF IInv, CallsOK, CallOK, ReplyTells, OutcomeTells, RefusalIsFinal
<1>2. QED BY <1>1, Invariance, PTL

-----------------------------------------------------------------------------
(* The client implements GuardedCall *)

USE DEF Promise!Invoke, Promise!TakeEffect, Promise!ReturnOk, Promise!Refuse,
        Promise!Fail, Promise!vars

\* A step that moves one call's status and no effect is an abstract step.
LEMMA StatusStep ==
    ASSUME TypeOK, NEW c \in Call, UNCHANGED effects,
           \A d \in Call \ {c} : pc'[d] = pc[d] /\ outcome'[d] = outcome[d],
           \/ StatusOf(c)' = StatusOf(c)
           \/ StatusOf(c) = "idle" /\ StatusOf(c)' = "pending"
           \/ /\ StatusOf(c) = "pending" /\ StatusOf(c)' = "ok"
              /\ effects[c] = 1
           \/ /\ StatusOf(c) \in {"idle", "pending"} /\ StatusOf(c)' = "refused"
              /\ effects[c] = 0
           \/ StatusOf(c) = "pending" /\ StatusOf(c)' = "failed"
    PROVE  [Promise!Next]_Promise!vars
<1>1. status' = [status EXCEPT ![c] = StatusOf(c)']
  <2>1. \A d \in Call \ {c} : StatusOf(d)' = StatusOf(d)
    BY DEF StatusOf
  <2>2. status' = [d \in Call |-> IF d = c THEN StatusOf(c)' ELSE StatusOf(d)]
    BY <2>1 DEF status
  <2>3. QED BY <2>2 DEF status
<1>2. status[c] = StatusOf(c)
  BY DEF status
<1>3. CASE StatusOf(c)' = StatusOf(c)
  <2>1. status' = status
    BY <1>1, <1>2, <1>3 DEF status
  <2>2. QED BY <2>1
<1>4. QED BY <1>1, <1>2, <1>3 DEF Promise!Next

LEMMA StepSimulates ==
    ASSUME IInv, [Next]_vars
    PROVE  [Promise!Next]_Promise!vars
<1> USE DEF clientVars, safetyVars, callVars, serverVars
<1> TypeOK /\ CallsOK
  BY DEF IInv
\* Steps that touch no call's status and no effect stutter.
<1>1. ASSUME UNCHANGED <<pc, outcome, effects>>
      PROVE  [Promise!Next]_Promise!vars
  BY <1>1 DEF status, StatusOf
<1>2. ASSUME NEW a \in Auth, Authenticate(a) \/ AuthGranted(a) \/ AuthFailed(a)
      PROVE  [Promise!Next]_Promise!vars
  BY <1>1, <1>2 DEF Authenticate, AuthGranted, AuthFailed
<1>3. CASE Logout \/ Aclose
  BY <1>1, <1>3 DEF Logout, Aclose
<1>4. ASSUME NEW x \in Context \cup {NONE},
             SetSafetyContext(x) \/ SetDefaultSafetyContext(x)
      PROVE  [Promise!Next]_Promise!vars
  BY <1>1, <1>4 DEF SetSafetyContext, SetDefaultSafetyContext
\* A call that ends without an answer: refused when it never was posted.
<1>5. ASSUME NEW c \in Call, NEW how \in Outcome, Finish(c, how),
             UNCHANGED effects, pc[c] # "done",
             how = "ok" => effects[c] = 1 /\ pc[c] = "posted",
             how \in Refusals => effects[c] = 0,
             how \notin Refusals => pc[c] # "idle"
      PROVE  [Promise!Next]_Promise!vars
  <2>1. \A d \in Call \ {c} : pc'[d] = pc[d] /\ outcome'[d] = outcome[d]
    BY <1>5 DEF Finish, TypeOK
  <2>2. pc'[c] = "done" /\ outcome'[c] = how
    BY <1>5 DEF Finish, TypeOK
  <2>3. StatusOf(c) = IF pc[c] = "idle" THEN "idle" ELSE "pending"
    BY <1>5 DEF StatusOf, TypeOK
  <2>4. StatusOf(c)' = IF how = "ok" THEN "ok"
                       ELSE IF how \in Refusals THEN "refused" ELSE "failed"
    BY <2>2 DEF StatusOf
  <2>5. how = "ok" => how \notin Refusals
    BY DEF Refusals
  <2>6. QED BY <1>5, <2>1, <2>3, <2>4, <2>5, StatusStep
<1>6. ASSUME NEW c \in Call,
             pc[c] \in {"idle", "confirming"}, pc'[c] \in {"confirming", "posted"},
             pc' = [pc EXCEPT ![c] = pc'[c]], UNCHANGED <<outcome, effects>>
      PROVE  [Promise!Next]_Promise!vars
  <2>1. \A d \in Call \ {c} : pc'[d] = pc[d] /\ outcome'[d] = outcome[d]
    BY <1>6 DEF TypeOK
  <2>2. StatusOf(c) \in {"idle", "pending"} /\ StatusOf(c)' = "pending"
    BY <1>6 DEF StatusOf
  <2>3. QED BY <1>6, <2>1, <2>2, StatusStep
\* Nothing has happened to a call that has not been posted.
<1>7. ASSUME NEW c \in Call, pc[c] \in {"idle", "confirming"}
      PROVE  effects[c] = 0
  BY <1>7, SentinelAssumption DEF CallsOK, CallOK, QuietUntilPosted, ReplyTells
<1>8. ASSUME NEW c \in Call, CallUnauthenticated(c)
      PROVE  [Promise!Next]_Promise!vars
  BY <1>5, <1>7, <1>8 DEF CallUnauthenticated, Outcome, Refusals
<1>9. ASSUME NEW c \in Call, pc[c] \in {"idle", "confirming"},
             transport_call(c), UNCHANGED effects
      PROVE  [Promise!Next]_Promise!vars
  <2>1. CASE session = NONE \/ closed
    <3>1. PICK how \in {"auth_error", "closed_error"} : Finish(c, how)
      BY <1>9, <2>1 DEF transport_call
    <3>2. QED BY <1>5, <1>7, <1>9, <3>1 DEF Outcome, Refusals
  <2>2. CASE session # NONE /\ ~closed
    BY <1>6, <1>9, <2>2 DEF transport_call, TypeOK
  <2>3. QED BY <2>1, <2>2
<1>10. ASSUME NEW c \in Call, CallUnguarded(c) \/ ConfirmAllows(c)
       PROVE  [Promise!Next]_Promise!vars
  BY <1>9, <1>10 DEF CallUnguarded, ConfirmAllows
<1>11. ASSUME NEW c \in Call, CallGuarded(c)
       PROVE  [Promise!Next]_Promise!vars
  BY <1>6, <1>11 DEF CallGuarded, TypeOK
<1>12. ASSUME NEW c \in Call, ConfirmDenies(c) \/ ConfirmRaises(c)
       PROVE  [Promise!Next]_Promise!vars
  BY <1>5, <1>7, <1>12 DEF ConfirmDenies, ConfirmRaises, Outcome, Refusals
<1>13. ASSUME NEW c \in Call,
              NEW how \in {"cancelled", "network_error", "protocol_error"},
              (Cancel(c) /\ how = "cancelled") \/ PostFails(c, how)
       PROVE  [Promise!Next]_Promise!vars
  <2>1. Finish(c, how) /\ UNCHANGED effects /\ pc[c] \in {"confirming", "posted"}
    BY <1>13 DEF Cancel, PostFails
  <2>2. how \in Outcome /\ how # "ok" /\ how \notin Refusals
    BY DEF Outcome, Refusals
  <2>3. QED BY <1>5, <2>1, <2>2
<1>14. ASSUME NEW c \in Call, ReplyArrives(c)
       PROVE  [Promise!Next]_Promise!vars
  <2>1. effects[c] = IF reply[c] = "result" THEN 1 ELSE 0
    BY DEF CallsOK, CallOK, ReplyTells
  <2>2. PICK how \in {"ok", "rpc_error"} :
            /\ Finish(c, how)
            /\ how = "ok" <=> reply[c] = "result"
    BY <1>14 DEF ReplyArrives
  <2>3. pc[c] = "posted" /\ UNCHANGED effects
    BY <1>14 DEF ReplyArrives
  <2>4. QED BY <1>5, <2>1, <2>2, <2>3 DEF Outcome, Refusals
<1>15. ASSUME NEW c \in Call, ServerRejects(c)
       PROVE  [Promise!Next]_Promise!vars
  BY <1>1, <1>15 DEF ServerRejects
<1>16. ASSUME NEW c \in Call, ServerExecutes(c)
       PROVE  [Promise!Next]_Promise!vars
  <2>1. reply[c] = NONE /\ effects[c] = 0
    BY <1>16, SentinelAssumption
    DEF ServerExecutes, CallsOK, CallOK, PostedIsApproved, ReplyTells
  <2>2. StatusOf(c) \in {"pending", "failed"}
    BY <1>16, <2>1, SentinelAssumption
    DEF ServerExecutes, CallsOK, CallOK, QuietUntilPosted, OutcomeTells, StatusOf
  <2>3. status' = status /\ status[c] = StatusOf(c)
    BY <1>16 DEF ServerExecutes, status, StatusOf
  <2>4. effects' = [effects EXCEPT ![c] = 1]
    BY <1>16, <2>1 DEF ServerExecutes, TypeOK
  <2>5. Promise!TakeEffect(c)
    BY <2>1, <2>2, <2>3, <2>4
  <2>6. QED BY <2>5 DEF Promise!Next
<1>17. CASE UNCHANGED vars
  BY <1>1, <1>17 DEF vars
<1>18. QED
  BY <1>2, <1>3, <1>4, <1>8, <1>10, <1>11, <1>12, <1>13, <1>14, <1>15, <1>16,
     <1>17
  DEF Next, ConfirmReturns, PostEnds

\* OdooClient.call keeps the promise GuardedCall states: every step of the
\* client, the network and the server is a step of GuardedCall or none.
THEOREM Refinement == Spec => KeepsPromise
<1>1. Init => Promise!Init
  BY DEF Init, Promise!Init, status, StatusOf
<1>2. IInv /\ [Next]_vars => [Promise!Next]_Promise!vars
  BY StepSimulates
<1>3. QED
  BY <1>1, <1>2, Invariance, PTL DEF Spec, KeepsPromise, Promise!Spec

-----------------------------------------------------------------------------
(* Action property *)

LEMMA OnlyTwoTouchTheSession ==
    ASSUME [Next]_vars, session' # session
    PROVE  Logout \/ \E a \in Auth : AuthGranted(a)
<1>1. ASSUME NEW a \in Auth, Authenticate(a) \/ AuthFailed(a)  PROVE FALSE
  BY <1>1 DEF Authenticate, AuthFailed, clientVars
<1>2. ~Aclose
  BY DEF Aclose
<1>3. ASSUME NEW x, SetSafetyContext(x) \/ SetDefaultSafetyContext(x)
      PROVE  FALSE
  BY <1>3 DEF SetSafetyContext, SetDefaultSafetyContext, clientVars
<1>4. ASSUME NEW c \in Call,
             \/ CallUnauthenticated(c) \/ CallUnguarded(c) \/ CallGuarded(c)
             \/ ConfirmReturns(c) \/ Cancel(c) \/ PostEnds(c)
             \/ ServerExecutes(c) \/ ServerRejects(c)
      PROVE  FALSE
  BY <1>4 DEF CallUnauthenticated, CallUnguarded, CallGuarded, ConfirmReturns,
              ConfirmAllows, ConfirmDenies, ConfirmRaises, Cancel, PostEnds,
              ReplyArrives, PostFails, ServerExecutes, ServerRejects, clientVars
<1>5. ~UNCHANGED vars
  BY DEF vars, clientVars
<1>6. QED
  BY <1>1, <1>2, <1>3, <1>4, <1>5 DEF Next

\* However many authentications overlap with each other and with calls, the
\* session in use is only ever ended by logout and only ever replaced by an
\* authentication at the step the server grants it; a failed one costs nothing.
THEOREM SessionIsKept == Spec => SessionChangesHands
<1> DEFINE Handover ==
      session' # session =>
         \/ session' = NONE /\ UNCHANGED apc
         \/ /\ session' # NONE
            /\ apc[session'] = "posted"
            /\ apc'[session'] = "granted"
<1>1. ASSUME TypeOK, [Next]_vars PROVE Handover
  <2>1. ASSUME Logout PROVE Handover
    BY <2>1 DEF Logout
  <2>2. ASSUME NEW a \in Auth, AuthGranted(a) PROVE Handover
    BY <1>1, <2>2, SentinelAssumption DEF AuthGranted, TypeOK
  <2>3. QED
    BY <1>1, <2>1, <2>2, OnlyTwoTouchTheSession
<1>2. TypeOK /\ [Next]_vars => [Handover]_vars
  BY <1>1
<1>3. QED
  BY <1>2, TypeCorrect, PTL DEF Spec, SessionChangesHands

=============================================================================
