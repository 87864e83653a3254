------------------------ MODULE ModuleManager_proofs ------------------------
(***************************************************************************)
(* Proofs about installing modules: ModuleManager, for any number of jobs  *)
(* and of modules, and then OdooTestContainer, whose start installs some,  *)
(* for any set of modules and any number of attempts.                      *)
(*                                                                         *)
(* The argument: JobOK (ModuleManager.tla) follows one job from its first  *)
(* request to its end.  The loop goes round only by way of ButtonLocked    *)
(* and ButtonRefused, which have changed nothing, so that in front of      *)
(* every attempt nothing has happened yet, and a job has had an error that *)
(* mentions the lock once per attempt it has used up.  Other jobs reach a  *)
(* job only through the state of its module, and since has every state     *)
(* that one has had.                                                       *)
(***************************************************************************)
EXTENDS ModuleManager, OdooTestContainer, SequenceTheorems, FiniteSetTheorems, TLAPS

-----------------------------------------------------------------------------
(* Types *)

LEMMA InitType == Init => TypeOK
<1> SUFFICES ASSUME Init PROVE TypeOK
  OBVIOUS
<1>1. /\ attempt \in [Job -> 1 .. _MAX_RETRIES]
      /\ since \in [Job -> SUBSET ModuleState]
      /\ late \in SUBSET Job
  BY DEF Init, _MAX_RETRIES
<1>2. QED BY <1>1 DEF Init, TypeOK

\* Where a button leaves a module, and what every job with that module sees.
LEMMA TakeEffectType ==
    ASSUME TypeOK, NEW j \in Job, TakeEffect(j)
    PROVE  /\ state' \in [Module -> ModuleState \cup {Unlisted}]
           /\ applied' \in [Job -> Nat]
           /\ since' \in [Job -> SUBSET ModuleState]
<1> DEFINE new == Leaves(job[j].operation)
<1>1. new \in ModuleState
  BY DEF Leaves, ModuleState
<1>2. /\ state' = [state EXCEPT ![Target(j)] = new]
      /\ applied' = [applied EXCEPT ![j] = applied[j] + 1]
  BY DEF TakeEffect
<1>3. \A i \in Job : since[i] \cup {new} \in SUBSET ModuleState
  BY <1>1 DEF TypeOK
<1>4. since' \in [Job -> SUBSET ModuleState]
  BY <1>1, <1>3 DEF TakeEffect, TypeOK
<1>5. applied' \in [Job -> Nat]
  BY <1>2 DEF TypeOK
<1>6. state' \in [Module -> ModuleState \cup {Unlisted}]
  BY <1>1, <1>2 DEF TypeOK
<1>7. QED BY <1>4, <1>5, <1>6

LEMMA NextType ==
    ASSUME ManagerInv, [Next]_vars
    PROVE  TypeOK'
<1> USE DEF serverVars, history, ManagerInv
<1>1. CASE CronTakesLock \/ CronReleasesLock
  BY <1>1 DEF TypeOK, CronTakesLock, CronReleasesLock
<1>2. ASSUME NEW j \in Job, FindModule(j) PROVE TypeOK'
  <2>1. UNCHANGED <<serverVars, job, attempt, history>>
    BY <1>2 DEF FindModule
  <2>2. /\ pc' \in [Job -> {"find", "button", "sleep", "fetch", "done"}]
        /\ outcome' \in [Job -> Outcome \cup {NONE}]
    BY <1>2 DEF FindModule, TypeOK, Finish, Outcome
  <2>3. info' \in [Job -> ModuleState \cup {NONE}]
    BY <1>2 DEF FindModule, TypeOK, ModuleState
  <2>4. QED BY <2>1, <2>2, <2>3 DEF TypeOK
<1>3. ASSUME NEW j \in Job, ButtonLocked(j) \/ ButtonRefused(j) PROVE TypeOK'
  <2>1. PICK mentions \in Mentions, how \in {"cron_error", "refused"} :
            SleepOrRaise(j, mentions, how)
    BY <1>3 DEF ButtonLocked, ButtonRefused, Mentions
  <2>2. /\ pc' \in [Job -> {"find", "button", "sleep", "fetch", "done"}]
        /\ outcome' \in [Job -> Outcome \cup {NONE}]
    BY <2>1 DEF SleepOrRaise, Finish, TypeOK, Outcome
  <2>3. locked' \in [Job -> Nat]
    BY <1>3 DEF ButtonLocked, ButtonRefused, TypeOK
  <2>4. QED BY <1>3, <2>2, <2>3 DEF ButtonLocked, ButtonRefused, TypeOK
<1>4. ASSUME NEW j \in Job, ButtonWorks(j) PROVE TypeOK'
  BY <1>4, TakeEffectType DEF ButtonWorks, TypeOK
<1>5. ASSUME NEW j \in Job, ButtonGivenUp(j) \/ GiveUp(j) \/ CancelSleep(j)
      PROVE  TypeOK'
  BY <1>5 DEF ButtonGivenUp, GiveUp, CancelSleep, Finish, TypeOK, Outcome
<1>6. ASSUME NEW j \in Job, Wake(j) PROVE TypeOK'
  <2>1. attempt[j] + 1 \in 1 .. _MAX_RETRIES
    BY <1>6 DEF Wake, JobOK, RetriesLeft, TypeOK, _MAX_RETRIES
  <2>2. QED BY <1>6, <2>1 DEF Wake, TypeOK
<1>7. ASSUME NEW j \in Job, LateEffect(j) PROVE TypeOK'
  BY <1>7, TakeEffectType DEF LateEffect, TypeOK
\* A module whose button works stays listed.
<1>8. ASSUME NEW j \in Job, FetchModule(j) PROVE TypeOK'
  <2>1. state[Target(j)] \in ModuleState
    <3>1. state[Target(j)] \in since[j] /\ since[j] \subseteq ModuleState
      BY <1>8 DEF FetchModule, JobOK, TypeOK
    <3>2. QED BY <3>1
  <2>2. QED BY <1>8, <2>1 DEF FetchModule, Finish, TypeOK, Outcome
<1>9. CASE UNCHANGED vars
  BY <1>9 DEF TypeOK, vars
<1>10. QED
  BY <1>1, <1>2, <1>3, <1>4, <1>5, <1>6, <1>7, <1>8, <1>9 DEF Next, JobStep

-----------------------------------------------------------------------------
(* One job *)

LEMMA InitJobs == Init => \A j \in Job : JobOK(j)
BY NoneAssumption DEF Init, JobOK, NothingYet, Outcome

\* A step of others that changes no module's state.
LEMMA Frame ==
    ASSUME NEW i \in Job, JobOK(i),
           UNCHANGED <<state, job, applied, since>>,
           pc'[i] = pc[i], attempt'[i] = attempt[i], info'[i] = info[i],
           outcome'[i] = outcome[i], locked'[i] = locked[i],
           i \in late' <=> i \in late
    PROVE  JobOK(i)'
BY DEF JobOK, NothingYet, RetriesLeft, Target

\* A button of j that works, as the other jobs see it: the state their module
\* has is among those since their own button did.
LEMMA FrameTakeEffect ==
    ASSUME TypeOK, NEW j \in Job, TakeEffect(j), NEW i \in Job, i # j, JobOK(i),
           UNCHANGED <<job, attempt, info, outcome, locked>>,
           pc'[i] = pc[i], i \in late' <=> i \in late
    PROVE  JobOK(i)'
<1> DEFINE new == Leaves(job[j].operation)
<1>1. applied'[i] = applied[i] /\ applied[i] \in Nat
  BY DEF TakeEffect, TypeOK
<1>2. since[i] \subseteq since'[i]
  BY DEF TakeEffect, TypeOK
<1>3. applied[i] = 1 => state'[Target(i)] \in since'[i]
  <2>1. CASE Target(i) = Target(j)
    BY <2>1 DEF TakeEffect, TypeOK, Target
  <2>2. CASE Target(i) # Target(j)
    <3>1. state'[Target(i)] = state[Target(i)]
      BY <2>2 DEF TakeEffect, TypeOK, Target
    <3>2. QED BY <1>2, <3>1 DEF JobOK
  <2>3. QED BY <2>1, <2>2
<1>4. QED BY <1>1, <1>2, <1>3 DEF JobOK, NothingYet, RetriesLeft, Target

\* What the button of j leaves for j itself.
LEMMA OwnTakeEffect ==
    ASSUME TypeOK, NEW j \in Job, TakeEffect(j), applied[j] = 0
    PROVE  applied'[j] = 1 /\ state'[Target(j)] \in since'[j]
BY DEF TakeEffect, TypeOK, Target

LEMMA NextJob ==
    ASSUME ManagerInv, [Next]_vars, NEW i \in Job
    PROVE  JobOK(i)'
<1> USE NoneAssumption DEF serverVars, history, ManagerInv
<1>1. CASE CronTakesLock \/ CronReleasesLock
  BY <1>1, Frame DEF CronTakesLock, CronReleasesLock
<1>2. ASSUME NEW j \in Job, FindModule(j) PROVE JobOK(i)'
  <2>1. CASE i # j
    BY <1>2, <2>1, Frame DEF FindModule, Finish, TypeOK
  <2>2. CASE i = j
    <3>1. pc[j] = "find" /\ JobOK(j) /\ attempt[j] = 1 /\ locked[j] = 0
      BY <1>2 DEF FindModule, JobOK
    <3>2. \/ pc'[j] = "button" /\ outcome'[j] = outcome[j]
          \/ pc'[j] = "done" /\ outcome'[j] \in {"not_found", "skipped", "not_installed"}
      BY <1>2 DEF FindModule, Finish, TypeOK
    <3>3. UNCHANGED <<serverVars, job, attempt, history>>
      BY <1>2 DEF FindModule
    <3>4. QED BY <2>2, <3>1, <3>2, <3>3 DEF JobOK, NothingYet, Outcome
  <2>3. QED BY <2>1, <2>2
<1>3. ASSUME NEW j \in Job, ButtonLocked(j) PROVE JobOK(i)'
  <2>1. PICK mentions \in Mentions \ {{}} : SleepOrRaise(j, mentions, "cron_error")
    BY <1>3 DEF ButtonLocked
  <2>2. CASE i # j
    BY <1>3, <2>1, <2>2, Frame DEF ButtonLocked, SleepOrRaise, Finish, TypeOK
  <2>3. CASE i = j
    <3>1. pc[j] = "button" /\ JobOK(j) /\ locked[j] = attempt[j] - 1
      BY <1>3 DEF ButtonLocked, JobOK
    <3>2. locked'[j] = attempt[j] /\ UNCHANGED <<serverVars, job, attempt, applied, since>>
      BY <1>3, <3>1 DEF ButtonLocked, TypeOK
\* The error of the lock is told from any other, wherever it names the lock.
    <3>3. _is_ir_cron_error(mentions)
      BY DEF Mentions, Text, _is_ir_cron_error
    <3>4. CASE RetriesLeft(j)
      <4>1. pc'[j] = "sleep" /\ outcome'[j] = NONE
        BY <2>1, <3>1, <3>3, <3>4 DEF SleepOrRaise, TypeOK, JobOK
      <4>2. QED BY <2>3, <3>1, <3>2, <3>4, <4>1 DEF JobOK, NothingYet, Outcome, RetriesLeft
    <3>5. CASE ~RetriesLeft(j)
      <4>1. pc'[j] = "done" /\ outcome'[j] = "cron_error"
        BY <2>1, <3>5 DEF SleepOrRaise, Finish, TypeOK
      <4>2. attempt[j] = _MAX_RETRIES
        BY <3>5 DEF RetriesLeft, TypeOK, _MAX_RETRIES
      <4>3. QED BY <2>3, <3>1, <3>2, <4>1, <4>2 DEF JobOK, NothingYet
    <3>6. QED BY <3>4, <3>5
  <2>4. QED BY <2>2, <2>3
<1>4. ASSUME NEW j \in Job, ButtonRefused(j) PROVE JobOK(i)'
  <2>1. PICK mentions \in Mentions :
             /\ locked' = [locked EXCEPT ![j] =
                               IF mentions = {} THEN locked[j] ELSE locked[j] + 1]
             /\ SleepOrRaise(j, mentions, "refused")
    BY <1>4 DEF ButtonRefused
  <2>2. pc[j] = "button" /\ UNCHANGED <<serverVars, job, attempt, info, applied, since>>
    BY <1>4 DEF ButtonRefused
  <2>3. CASE i # j
    BY <2>1, <2>2, <2>3, Frame DEF SleepOrRaise, Finish, TypeOK
  <2>4. CASE i = j
    <3>1. NothingYet(j) /\ locked[j] = attempt[j] - 1 /\ outcome[j] = NONE
      BY <2>2 DEF JobOK
    <3>2. CASE pc'[j] = "done" /\ outcome'[j] = "refused"
      BY <2>2, <2>4, <3>1, <3>2 DEF JobOK, NothingYet
    <3>3. CASE /\ _is_ir_cron_error(mentions) /\ RetriesLeft(j)
               /\ pc'[j] = "sleep" /\ UNCHANGED outcome
      <4>1. mentions # {}
        BY <3>3 DEF _is_ir_cron_error
      <4>2. locked'[j] = attempt[j]
        BY <2>1, <3>1, <4>1 DEF TypeOK
      <4>3. QED BY <2>2, <2>4, <3>1, <3>3, <4>2
        DEF JobOK, NothingYet, Outcome, RetriesLeft
    <3>4. QED BY <2>1, <3>2, <3>3 DEF SleepOrRaise, Finish, TypeOK
  <2>5. QED BY <2>3, <2>4
<1>5. ASSUME NEW j \in Job, ButtonWorks(j) PROVE JobOK(i)'
  <2>1. /\ pc[j] = "button" /\ TakeEffect(j)
        /\ pc' = [pc EXCEPT ![j] = "fetch"]
        /\ UNCHANGED <<cron, late, job, attempt, info, outcome, locked>>
        /\ NothingYet(j) /\ outcome[j] = NONE
    BY <1>5 DEF ButtonWorks, JobOK
  <2>2. CASE i # j
    BY <2>1, <2>2, FrameTakeEffect DEF TypeOK
  <2>3. CASE i = j
    <3>1. applied'[j] = 1 /\ state'[Target(j)] \in since'[j] /\ pc'[j] = "fetch"
      BY <2>1, OwnTakeEffect DEF NothingYet, TypeOK
    <3>2. QED BY <2>1, <2>3, <3>1 DEF JobOK, NothingYet, Outcome, Target
  <2>4. QED BY <2>2, <2>3
<1>6. ASSUME NEW j \in Job, ButtonGivenUp(j) \/ GiveUp(j) \/ CancelSleep(j)
      PROVE  JobOK(i)'
  <2>1. /\ pc[j] \in {"find", "button", "sleep", "fetch"}
        /\ Finish(j, "failed")
        /\ UNCHANGED <<state, cron, job, attempt, info, history>>
        /\ late' = late \/ (pc[j] = "button" /\ late' = late \cup {j})
    BY <1>6 DEF ButtonGivenUp, GiveUp, CancelSleep
  <2>2. CASE i # j
    BY <2>1, <2>2, Frame DEF Finish, TypeOK
  <2>3. CASE i = j
    <3>1. pc'[j] = "done" /\ outcome'[j] = "failed"
      BY <2>1 DEF Finish, TypeOK
    <3>2. j \notin late /\ (pc[j] = "button" => applied[j] = 0)
      BY <2>1 DEF JobOK, NothingYet
    <3>3. QED BY <2>1, <2>3, <3>1, <3>2 DEF JobOK, NothingYet, Target
  <2>4. QED BY <2>2, <2>3
<1>7. ASSUME NEW j \in Job, Wake(j) PROVE JobOK(i)'
  <2>1. CASE i # j
    BY <1>7, <2>1, Frame DEF Wake, TypeOK
  <2>2. CASE i = j
    <3>1. /\ pc'[j] = "button" /\ attempt'[j] = attempt[j] + 1
          /\ attempt[j] \in Nat /\ locked[j] = attempt[j] /\ NothingYet(j)
          /\ outcome[j] = NONE
      BY <1>7 DEF Wake, TypeOK, JobOK, _MAX_RETRIES
    <3>2. UNCHANGED <<serverVars, job, info, outcome, history>>
      BY <1>7 DEF Wake
    <3>3. QED BY <2>2, <3>1, <3>2 DEF JobOK, NothingYet, Outcome
  <2>3. QED BY <2>1, <2>2
<1>8. ASSUME NEW j \in Job, LateEffect(j) PROVE JobOK(i)'
  <2>1. /\ j \in late /\ late' = late \ {j}
        /\ outcome[j] = "failed" /\ applied[j] = 0
        /\ UNCHANGED <<cron, job, pc, attempt, info, outcome, locked>>
    BY <1>8 DEF LateEffect, JobOK
  <2>2. CASE TakeEffect(j)
    <3>1. CASE i # j
      BY <2>1, <2>2, <3>1, FrameTakeEffect
    <3>2. CASE i = j
      <4>1. applied'[j] = 1 /\ state'[Target(j)] \in since'[j] /\ pc[j] = "done"
        BY <2>1, <2>2, OwnTakeEffect DEF JobOK, Outcome
      <4>2. QED BY <2>1, <3>2, <4>1 DEF JobOK, NothingYet, Target
    <3>3. QED BY <3>1, <3>2
  <2>3. CASE UNCHANGED <<state, applied, since>>
    <3>1. CASE i # j
      BY <2>1, <2>3, <3>1, Frame
    <3>2. CASE i = j
      <4>1. pc[j] = "done"
        BY <2>1 DEF JobOK, Outcome
      <4>2. QED BY <2>1, <2>3, <3>2, <4>1 DEF JobOK, NothingYet, Target
    <3>3. QED BY <3>1, <3>2
  <2>4. QED BY <1>8, <2>2, <2>3 DEF LateEffect
<1>9. ASSUME NEW j \in Job, FetchModule(j) PROVE JobOK(i)'
  <2>1. /\ pc[j] = "fetch" /\ Finish(j, "ok")
        /\ info' = [info EXCEPT ![j] = state[Target(j)]]
        /\ UNCHANGED <<serverVars, job, attempt, history>>
    BY <1>9 DEF FetchModule
  <2>2. CASE i # j
    BY <2>1, <2>2, Frame DEF Finish, TypeOK
  <2>3. CASE i = j
    <3>1. pc'[j] = "done" /\ outcome'[j] = "ok" /\ info'[j] = state[Target(j)]
      BY <2>1 DEF Finish, TypeOK
    <3>2. applied[j] = 1 /\ j \notin late /\ state[Target(j)] \in since[j]
      BY <2>1 DEF JobOK
    <3>3. QED BY <2>1, <2>3, <3>1, <3>2 DEF JobOK, NothingYet, Target
  <2>4. QED BY <2>2, <2>3
<1>10. CASE UNCHANGED vars
  BY <1>10, Frame DEF vars
<1>11. QED
  BY <1>1, <1>2, <1>3, <1>4, <1>5, <1>6, <1>7, <1>8, <1>9, <1>10
  DEF Next, JobStep

-----------------------------------------------------------------------------
(* Theorems *)

\* Every job is in order at every moment, whatever the others, the lock and the
\* server do.
THEOREM ManagerInvariance == Spec => []ManagerInv
<1>1. Init => ManagerInv
  BY InitType, InitJobs DEF ManagerInv
<1>2. ManagerInv /\ [Next]_vars => ManagerInv'
  BY NextType, NextJob DEF ManagerInv
<1>3. QED
  BY <1>1, <1>2, PTL DEF Spec

\* _call_with_ir_cron_retry never makes a button take effect twice, and never
\* leaves a request under way beside one that has been answered.
THEOREM WorksOnce == Spec => []ButtonAtMostOnce
<1>1. ManagerInv => ButtonAtMostOnce
  BY DEF ManagerInv, JobOK, ButtonAtMostOnce
<1>2. QED BY <1>1, ManagerInvariance, PTL

\* The error of the ir_cron lock is raised only after every attempt has met it, or
\* an error that reads like it.
THEOREM AllAttemptsUsed == Spec => []LockedOutOnlyAtTheEnd
<1>1. ManagerInv => LockedOutOnlyAtTheEnd
  BY DEF ManagerInv, JobOK, LockedOutOnlyAtTheEnd
<1>2. QED BY <1>1, ManagerInvariance, PTL

\* The dict an operation returns has a state its module had after its own
\* button worked.
THEOREM AnswerIsFresh == Spec => []InfoIsUpdated
<1>1. ManagerInv => InfoIsUpdated
  BY DEF ManagerInv, JobOK, InfoIsUpdated
<1>2. QED BY <1>1, ManagerInvariance, PTL

\* An operation that ends before its button has worked, shut out or refused after
\* however many attempts, leaves nothing behind that could work later.
THEOREM EarlyErrorsAreClean == Spec => []RaisedEarlyChangesNothing
<1>1. ManagerInv => RaisedEarlyChangesNothing
  BY DEF ManagerInv, JobOK, NothingYet, RaisedEarlyChangesNothing
<1>2. QED BY <1>1, ManagerInvariance, PTL

-----------------------------------------------------------------------------
(* OdooTestContainer.  The argument: in its loop, what start was asked for  *)
(* and is not installed is still to be visited (LoopOK), which an           *)
(* installation that has raised leaves as it is; and what cleanup has       *)
(* visited is gone or stuck (CleanupOK).                                    *)

-----------------------------------------------------------------------------
(* Sequences *)

LEMMA RangeOfTail ==
    ASSUME NEW S, NEW s \in Seq(S), s # <<>>
    PROVE  /\ Tail(s) \in Seq(S)
           /\ Range(s) = {Head(s)} \cup Range(Tail(s))
<1>1. /\ Tail(s) \in Seq(S) /\ Len(Tail(s)) = Len(s) - 1 /\ Len(s) \in Nat
      /\ \A i \in 1 .. Len(Tail(s)) : Tail(s)[i] = s[i + 1]
      /\ DOMAIN s = 1 .. Len(s) /\ DOMAIN Tail(s) = 1 .. Len(Tail(s))
      /\ Len(s) > 0 /\ Head(s) = s[1]
  BY HeadTailProperties, EmptySeq, LenProperties
<1>2. ASSUME NEW i \in DOMAIN s PROVE s[i] = Head(s) \/ s[i] \in Range(Tail(s))
  <2>1. CASE i = 1
    BY <1>1, <2>1
  <2>2. CASE i # 1
    <3>1. i - 1 \in DOMAIN Tail(s) /\ Tail(s)[i - 1] = s[i]
      BY <1>1, <2>2
    <3>2. QED BY <3>1 DEF Range
  <2>3. QED BY <2>1, <2>2
<1>3. Head(s) \in Range(s)
  BY <1>1 DEF Range
<1>4. ASSUME NEW i \in DOMAIN Tail(s) PROVE Tail(s)[i] \in Range(s)
  <2>1. i + 1 \in DOMAIN s /\ Tail(s)[i] = s[i + 1]
    BY <1>1
  <2>2. QED BY <2>1 DEF Range
<1>5. QED BY <1>1, <1>2, <1>3, <1>4 DEF Range

LEMMA RequestsAreSequences == Requests \subseteq Seq(Addon)
<1> SUFFICES ASSUME NEW M \in SUBSET Addon, IsFiniteSet(M), NEW s \in SetToSeqs(M)
             PROVE  s \in Seq(Addon)
  BY DEF Requests
<1>1. Cardinality(M) \in Nat
  BY FS_CardinalityType
<1>2. s \in [1 .. Cardinality(M) -> M]
  BY DEF SetToSeqs
<1>3. s \in [1 .. Cardinality(M) -> Addon]
  BY <1>2
<1>4. QED BY <1>1, <1>3, SeqDef

-----------------------------------------------------------------------------
(* start *)

LEMMA ContainerAtFirst == ContainerInit => ContainerInv
<1> SUFFICES ASSUME ContainerInit PROVE ContainerInv
  OBVIOUS
<1>1. ContainerTypeOK
  BY RequestsAreSequences DEF ContainerInit, ContainerTypeOK, Resource, Starting
<1>2. QED
  BY <1>1
  DEF ContainerInit, ContainerInv, UpOK, SeedOK, Seeded, LoopOK, InLoop, CleanupOK,
      Cleaning, StartedHasAll, CleanupLeavesOnlyStuck

\* What start was given, and whether it uses the seed, does not change.
LEMMA ArgumentsStay ==
    ASSUME [ContainerNext]_containerVars
    PROVE  /\ UNCHANGED envVars
           /\ resolve_seed_info' = resolve_seed_info
<1>1. UNCHANGED envVars
  BY DEF ContainerNext, StartStep, CleanupStep, CreateNetwork, StartPostgres,
         WaitForSeedLogs, StartOdoo, Poll, Authenticate, CheckModule, InstallModule,
         Except, Logout, TakeDown, BecomeReady, Cancel, containerVars
<1>2. QED BY <1>1 DEF envVars, resolve_seed_info

LEMMA ContainerTypes ==
    ASSUME ContainerTypeOK, [ContainerNext]_containerVars
    PROVE  ContainerTypeOK'
<1> USE DEF ContainerTypeOK, Resource, Starting, Cleaning, envVars, Raise
<1>1. CASE CreateNetwork
  BY <1>1 DEF CreateNetwork
<1>2. CASE StartPostgres
  BY <1>2 DEF StartPostgres
<1>3. CASE WaitForSeedLogs
  BY <1>3 DEF WaitForSeedLogs
<1>4. CASE StartOdoo
  BY <1>4 DEF StartOdoo
<1>5. CASE Poll
  BY <1>5 DEF Poll
<1>6. CASE Authenticate
  BY <1>6 DEF Authenticate
<1>7. CASE CheckModule
  BY <1>7 DEF CheckModule
<1>8. CASE InstallModule
  BY <1>8 DEF InstallModule
<1>9. CASE Except
  BY <1>9 DEF Except
<1>10. CASE Logout
  BY <1>10 DEF Logout
<1>11. CASE TakeDown
  <2>1. at' \in {"stop_postgres", "remove_network", "cleaned"}
    BY <1>11 DEF TakeDown, After
  <2>2. /\ up' \in SUBSET Resource /\ retrying' \in BOOLEAN
        /\ modules' \in Seq(Addon)
    BY <1>11 DEF TakeDown, Removes, RemoveFails
  <2>3. QED BY <2>1, <2>2
<1>12. CASE BecomeReady
  BY <1>12 DEF BecomeReady
<1>13. CASE Cancel
  BY <1>13 DEF Cancel, Pending
<1>14. CASE UNCHANGED containerVars
  BY <1>14 DEF containerVars
<1>15. QED
  BY <1>1, <1>2, <1>3, <1>4, <1>5, <1>6, <1>7, <1>8, <1>9, <1>10, <1>11, <1>12, <1>13,
     <1>14 DEF ContainerNext, StartStep, CleanupStep

LEMMA ContainerUp ==
    ASSUME ContainerTypeOK, UpOK, [ContainerNext]_containerVars
    PROVE  UpOK'
<1> USE DEF UpOK, ContainerTypeOK, Resource, Raise
<1>1. CASE CreateNetwork
  BY <1>1 DEF CreateNetwork
<1>2. CASE StartPostgres
  BY <1>2 DEF StartPostgres
<1>3. CASE WaitForSeedLogs
  BY <1>3 DEF WaitForSeedLogs
<1>4. CASE StartOdoo
  BY <1>4 DEF StartOdoo
<1>5. CASE Poll
  BY <1>5 DEF Poll
<1>6. CASE Authenticate
  BY <1>6 DEF Authenticate
<1>7. CASE CheckModule
  BY <1>7 DEF CheckModule
<1>8. CASE InstallModule
  BY <1>8 DEF InstallModule
<1>9. CASE Except
  BY <1>9 DEF Except
<1>10. CASE Logout
  BY <1>10 DEF Logout
<1>11. CASE TakeDown
  BY <1>11 DEF TakeDown, After, Cleaning
<1>12. CASE BecomeReady
  BY <1>12 DEF BecomeReady
<1>13. CASE Cancel
  BY <1>13 DEF Cancel
<1>14. CASE UNCHANGED containerVars
  BY <1>14 DEF containerVars
<1>15. QED
  BY <1>1, <1>2, <1>3, <1>4, <1>5, <1>6, <1>7, <1>8, <1>9, <1>10, <1>11, <1>12, <1>13,
     <1>14 DEF ContainerNext, StartStep, CleanupStep

\* The steps that neither install anything nor touch the loop.
Aside ==
    \/ CreateNetwork \/ WaitForSeedLogs \/ StartOdoo \/ Poll \/ Except
    \/ Logout \/ TakeDown \/ BecomeReady \/ Cancel \/ UNCHANGED containerVars

LEMMA AsideEffect ==
    ASSUME Aside
    PROVE  UNCHANGED <<installed, to_install, retrying>>
BY DEF Aside, CreateNetwork, WaitForSeedLogs, StartOdoo, Poll, Except, Logout,
       TakeDown, BecomeReady, Cancel, containerVars

\* None of them gets into the loop, or behind the start of Postgres.
LEMMA AsideStays ==
    ASSUME ContainerTypeOK, UpOK, Aside
    PROVE  /\ Seeded' => Seeded
           /\ InLoop' => InLoop
           /\ InLoop' => (at' = "check" <=> at = "check")
           /\ at' = "started" => at = "started"
<1>1. CASE CreateNetwork
  BY <1>1 DEF CreateNetwork, UpOK, Seeded, InLoop
<1>2. CASE WaitForSeedLogs \/ StartOdoo \/ Poll
  BY <1>2 DEF WaitForSeedLogs, StartOdoo, Poll, Raise, UpOK, Seeded, InLoop
<1>3. CASE \/ Except \/ Logout \/ Cancel
           \/ BecomeReady \/ UNCHANGED containerVars
  BY <1>3 DEF Except, Logout, Cancel, BecomeReady, containerVars, Seeded, InLoop
<1>4. CASE TakeDown
  BY <1>4 DEF TakeDown, After, Cleaning, Seeded, InLoop
<1>5. QED BY <1>1, <1>2, <1>3, <1>4 DEF Aside

LEMMA ContainerSeed ==
    ASSUME ContainerTypeOK, UpOK, SeedOK, [ContainerNext]_containerVars
    PROVE  SeedOK'
<1>1. UNCHANGED envVars /\ resolve_seed_info' = resolve_seed_info
  BY ArgumentsStay
<1>2. CASE Aside
  BY <1>1, <1>2, AsideEffect, AsideStays DEF SeedOK, envVars
<1>3. CASE StartPostgres
  BY <1>1, <1>3 DEF StartPostgres, InDatabase, SeedOK, Seeded, envVars, Raise
<1>4. CASE Authenticate \/ CheckModule
  BY <1>1, <1>4 DEF Authenticate, CheckModule, SeedOK, Seeded, envVars, Raise
<1>5. CASE InstallModule
  <2>1. at = "install" /\ installed \subseteq installed'
    BY <1>5 DEF InstallModule
  <2>2. QED BY <1>1, <2>1 DEF SeedOK, Seeded, envVars
<1>6. QED
  BY <1>2, <1>3, <1>4, <1>5 DEF ContainerNext, StartStep, CleanupStep, Aside

LEMMA ContainerLoop ==
    ASSUME ContainerTypeOK, UpOK, LoopOK, [ContainerNext]_containerVars
    PROVE  LoopOK'
<1>1. UNCHANGED envVars /\ resolve_seed_info' = resolve_seed_info
  BY ArgumentsStay
<1> SUFFICES ASSUME ~resolve_seed_info, InLoop'
             PROVE  /\ to_install' \in Seq(Addon)
                    /\ at' # "check" => to_install' # <<>>
                    /\ Range(modules) \subseteq installed' \cup Range(to_install')
  BY <1>1 DEF LoopOK, envVars
<1>2. CASE Aside
  BY <1>2, AsideEffect, AsideStays DEF LoopOK
<1>3. CASE StartPostgres
  BY <1>3 DEF StartPostgres, InLoop, Raise
<1>4. CASE Authenticate
  <2>1. CASE retrying
    BY <1>4, <2>1 DEF Authenticate, InLoop, LoopOK, Raise
  <2>2. CASE ~retrying
    <3>1. at' = "check" /\ to_install' = modules
      BY <1>4, <2>2 DEF Authenticate, InLoop, ToInstall, Raise
    <3>2. QED BY <3>1 DEF ContainerTypeOK
  <2>3. QED BY <2>1, <2>2
<1>5. CASE CheckModule
  <2>1. /\ to_install \in Seq(Addon) /\ installed' = installed
        /\ Range(modules) \subseteq installed \cup Range(to_install)
    BY <1>5 DEF CheckModule, LoopOK, InLoop
  <2>2. \/ /\ to_install # <<>> /\ Head(to_install) \in installed
           /\ to_install' = Tail(to_install) /\ at' = "check"
        \/ to_install # <<>> /\ to_install' = to_install
    BY <1>5 DEF CheckModule, InLoop, Raise
  <2>3. to_install # <<>> => /\ Tail(to_install) \in Seq(Addon)
                            /\ Range(to_install) =
                                   {Head(to_install)} \cup Range(Tail(to_install))
    BY <2>1, RangeOfTail
  <2>4. QED BY <2>1, <2>2, <2>3
<1>6. CASE InstallModule
  <2>1. /\ to_install \in Seq(Addon) /\ to_install # <<>>
        /\ Range(modules) \subseteq installed \cup Range(to_install)
    BY <1>6 DEF InstallModule, LoopOK, InLoop
  <2>2. \/ /\ installed' = installed \cup {Head(to_install)}
           /\ to_install' = Tail(to_install) /\ at' = "check"
        \/ installed \subseteq installed' /\ to_install' = to_install
    BY <1>6 DEF InstallModule
  <2>3. /\ Tail(to_install) \in Seq(Addon)
        /\ Range(to_install) = {Head(to_install)} \cup Range(Tail(to_install))
    BY <2>1, RangeOfTail
  <2>4. QED BY <2>1, <2>2, <2>3
<1>7. QED
  BY <1>2, <1>3, <1>4, <1>5, <1>6 DEF ContainerNext, StartStep, CleanupStep, Aside

\* start gets to its end from the loop only, with nothing left to visit.
LEMMA ContainerStarted ==
    ASSUME ContainerTypeOK, UpOK, UpOK', SeedOK, LoopOK, StartedHasAll,
           [ContainerNext]_containerVars
    PROVE  StartedHasAll'
<1>1. /\ UNCHANGED envVars /\ resolve_seed_info' = resolve_seed_info
      /\ Range(modules)' = Range(modules)
  BY ArgumentsStay DEF envVars
<1> SUFFICES ASSUME at' = "started"
             PROVE  \A m \in Range(modules) \ installed' :
                        resolve_seed_info /\ m \in seed_config.modules \ seed_modules
  BY <1>1 DEF StartedHasAll, UpOK, envVars
<1>2. CASE Aside
  BY <1>2, AsideEffect, AsideStays DEF StartedHasAll
<1>3. CASE CheckModule
  <2>1. at = "check" /\ to_install = <<>> /\ installed' = installed
    BY <1>3 DEF CheckModule, Raise
  <2>2. CASE resolve_seed_info
    <3>1. /\ seed_modules \subseteq installed
          /\ Range(modules) \subseteq seed_config.modules
      BY <2>1, <2>2 DEF SeedOK, Seeded, resolve_seed_info
    <3>2. QED BY <2>1, <2>2, <3>1
  <2>3. CASE ~resolve_seed_info
    <3>1. Range(to_install) = {}
      BY <2>1 DEF Range
    <3>2. QED BY <2>1, <2>3, <3>1 DEF LoopOK, InLoop
  <2>4. QED BY <2>2, <2>3
<1>4. CASE StartPostgres \/ Authenticate \/ InstallModule
  BY <1>4 DEF StartPostgres, Authenticate, InstallModule, Raise
<1>5. QED
  BY <1>2, <1>3, <1>4 DEF ContainerNext, StartStep, CleanupStep, Aside

-----------------------------------------------------------------------------
(* cleanup *)

\* A step of cleanup leaves its resource behind only where Docker does.
LEMMA ContainerCleanup ==
    ASSUME ContainerTypeOK, UpOK, CleanupOK, CleanupLeavesOnlyStuck,
           [ContainerNext]_containerVars
    PROVE  CleanupOK' /\ CleanupLeavesOnlyStuck'
<1> USE DEF CleanupOK, CleanupLeavesOnlyStuck, Cleaning, Visited
<1>1. CASE TakeDown
  <2>1. /\ at \in Cleaning /\ at' = After[at]
        /\ stuck \subseteq stuck' /\ up' \subseteq up
        /\ Takes[at] \in up' => Takes[at] \in stuck'
    BY <1>1 DEF TakeDown, Removes, RemoveFails
  <2>2. CASE at = "stop_odoo"
    BY <2>1, <2>2 DEF Takes, After
  <2>3. CASE at = "stop_postgres"
    BY <2>1, <2>3 DEF Takes, After
  <2>4. CASE at = "remove_network"
    BY <2>1, <2>4 DEF Takes, After, ContainerTypeOK, Resource
  <2>5. QED BY <2>1, <2>2, <2>3, <2>4
<1>2. CASE Logout
  BY <1>2 DEF Logout
<1>3. CASE BecomeReady \/ UNCHANGED containerVars
  BY <1>3 DEF BecomeReady, containerVars
<1>4. CASE StartStep \/ Cancel
  <2>1. at' \notin Cleaning \cup {"cleaned"}
    BY <1>4
    DEF StartStep, Cancel, CreateNetwork, StartPostgres, WaitForSeedLogs, StartOdoo,
        Poll, Authenticate, CheckModule, InstallModule, Except, Raise
  <2>2. QED BY <2>1
<1>5. QED BY <1>1, <1>2, <1>3, <1>4 DEF ContainerNext, CleanupStep

-----------------------------------------------------------------------------
(* Theorems about the containers *)

LEMMA ContainerStep ==
    ASSUME ContainerInv, [ContainerNext]_containerVars
    PROVE  ContainerInv'
<1>1. /\ ContainerTypeOK /\ UpOK /\ SeedOK /\ LoopOK /\ CleanupOK
      /\ StartedHasAll /\ CleanupLeavesOnlyStuck
  BY DEF ContainerInv
<1>2. ContainerTypeOK' /\ UpOK'
  BY <1>1, ContainerTypes, ContainerUp
<1>3. SeedOK' /\ LoopOK' /\ StartedHasAll'
  BY <1>1, <1>2, ContainerSeed, ContainerLoop, ContainerStarted
<1>4. QED BY <1>1, <1>2, <1>3, ContainerCleanup DEF ContainerInv

\* What start has not installed it is still going to visit, and what cleanup has
\* visited is gone or stuck.
THEOREM ContainerInvariance == ContainerSpec => []ContainerInv
<1>1. QED BY ContainerAtFirst, ContainerStep, PTL DEF ContainerSpec

\* start returns with every requested module installed, or relied on a seed
\* image that lacks it.
THEOREM StartReturnsAll == ContainerSpec => []StartedHasAll
<1>1. ContainerInv => StartedHasAll
  BY DEF ContainerInv
<1>2. QED BY <1>1, ContainerInvariance, PTL

\* cleanup leaves behind only what Docker has not removed.
THEOREM CleanupReachesAll == ContainerSpec => []CleanupLeavesOnlyStuck
<1>1. ContainerInv => CleanupLeavesOnlyStuck
  BY DEF ContainerInv
<1>2. QED BY <1>1, ContainerInvariance, PTL

=============================================================================
