--------------------------- MODULE ModuleManager ---------------------------
(***************************************************************************)
(* services/modules/module_manager.py: install_module, uninstall_module    *)
(* and upgrade_module, any number of them under way at once on one Odoo    *)
(* database, with the retry loop for the ir_cron lock.                     *)
(*                                                                         *)
(* Each operation finds the module, perhaps calls a button method of it    *)
(* through OdooClient.call, and fetches it again.  Each of these awaits is *)
(* one action, at the moment the server handles the request.  A button     *)
(* method takes long: the client's timeout may end the call while the      *)
(* server goes on, and the button then takes effect later.                 *)
(***************************************************************************)
EXTENDS Naturals, FiniteSets

CONSTANTS
    Job,            \* invocations of the three operations
    Module,         \* technical names of modules
    NONE

_MAX_RETRIES == 3

Operation == {"install", "uninstall", "upgrade"}

(* modules/types.py: ModuleState, with the state of a module Odoo does not  *)
(* list.                                                                    *)
ModuleState ==
    {"uninstalled", "installed", "to install", "to upgrade", "to remove",
     "uninstallable"}

Unlisted == "unlisted"

\* How an operation can end.
Outcome ==
    {"ok", "skipped", "not_found", "not_installed", "refused", "cron_error", "failed"}

ASSUME NoneAssumption == NONE \notin ModuleState \cup Outcome

\* The texts of an exception that can mention ir_cron or a scheduled action:
\* that of the exception itself, and those of Odoo's data payload.
Text == {"str", "data.message", "data.debug", "data.name"}

\* What an exception mentions it in: the lock's error in any of them, another
\* one nowhere, or by chance, as in a traceback's path.  Odoo's message is often
\* no more than "Odoo Server Error", and its translation need not mention it:
\* then only the payload or its debug does.
Mentions == SUBSET Text

VARIABLES
    state,          \* the server's ir.module.module: state of each module
    cron,           \* a scheduled action holds the lock buttons need
    job,            \* operation and module of each job
    pc,             \* where each job is
    attempt,        \* the loop variable of _call_with_ir_cron_retry
    info,           \* the module state in the dict a job returns
    outcome,        \* how each job ended
    late            \* jobs whose button the server still works on, unawaited

\* History variables.
VARIABLES
    applied,        \* how often the button of each job took effect
    since,          \* the states its module has had since then
    locked          \* attempts of each job whose error mentioned the lock

serverVars == <<state, cron, late>>
history == <<applied, since, locked>>
vars == <<serverVars, job, pc, attempt, info, outcome, history>>

-----------------------------------------------------------------------------
(* The Odoo server *)

\* The states in which Odoo lets each button do its work, and the one it
\* leaves behind; in any other state install is a no-op and the other two
\* are a UserError.
Accepts(operation) ==
    CASE operation = "install"   -> ModuleState \ {"uninstallable"}
      [] operation = "uninstall" -> {"installed", "to upgrade"}
      [] operation = "upgrade"   -> {"installed", "to upgrade"}

Leaves(operation) ==
    IF operation = "uninstall" THEN "uninstalled" ELSE "installed"

Target(j) == job[j].module

Acceptable(j) == state[Target(j)] \in Accepts(job[j].operation)

\* The button of j takes effect.
TakeEffect(j) ==
    LET new == Leaves(job[j].operation)
    IN  /\ state' = [state EXCEPT ![Target(j)] = new]
        /\ applied' = [applied EXCEPT ![j] = @ + 1]
        /\ since' = [i \in Job |->
                        IF i = j THEN {new}
                        ELSE IF Target(i) = Target(j) /\ applied[i] > 0
                        THEN since[i] \cup {new}
                        ELSE since[i]]

CronTakesLock ==
    /\ ~cron
    /\ cron' = TRUE
    /\ UNCHANGED <<state, late, job, pc, attempt, info, outcome, history>>

CronReleasesLock ==
    /\ cron
    /\ cron' = FALSE
    /\ UNCHANGED <<state, late, job, pc, attempt, info, outcome, history>>

-----------------------------------------------------------------------------

Init ==
    /\ state \in [Module -> ModuleState \cup {Unlisted}]
    /\ cron = FALSE
    /\ job \in [Job -> [operation : Operation, module : Module]]
    /\ pc = [j \in Job |-> "find"]
    /\ attempt = [j \in Job |-> 1]
    /\ info = [j \in Job |-> NONE]
    /\ outcome = [j \in Job |-> NONE]
    /\ late = {}
    /\ applied = [j \in Job |-> 0]
    /\ since = [j \in Job |-> {}]
    /\ locked = [j \in Job |-> 0]

Finish(j, how) ==
    /\ pc' = [pc EXCEPT ![j] = "done"]
    /\ outcome' = [outcome EXCEPT ![j] = how]

\* _find_module, and what the operation makes of the state it finds: an
\* unlisted module is an error, an installed one is not installed again, and
\* only an installed one can be upgraded.  uninstall does not look.
FindModule(j) ==
    /\ pc[j] = "find"
    /\ LET found == state[Target(j)]
           operation == job[j].operation
       IN  \/ /\ found = Unlisted
              /\ Finish(j, "not_found")
              /\ UNCHANGED info
           \/ /\ found = "installed"
              /\ operation = "install"
              /\ info' = [info EXCEPT ![j] = found]
              /\ Finish(j, "skipped")
           \/ /\ found \notin {"installed", Unlisted}
              /\ operation = "upgrade"
              /\ Finish(j, "not_installed")
              /\ UNCHANGED info
           \/ /\ found # Unlisted
              /\ operation = "install" => found # "installed"
              /\ operation = "upgrade" => found = "installed"
              /\ pc' = [pc EXCEPT ![j] = "button"]
              /\ UNCHANGED <<info, outcome>>
    /\ UNCHANGED <<serverVars, job, attempt, history>>

\* Fault: only the exception's own text is looked at.
_is_ir_cron_error_OwnText(mentions) == "str" \in mentions

\* Does the error mention ir_cron, or a scheduled action?
_is_ir_cron_error(mentions) ==
    \/ "str" \in mentions
    \/ \E key \in {"data.message", "data.debug", "data.name"} : key \in mentions

RetriesLeft(j) == attempt[j] < _MAX_RETRIES

\* The except clause of the loop: sleep and try again, or raise.
SleepOrRaise(j, mentions, how) ==
    \/ /\ _is_ir_cron_error(mentions) /\ RetriesLeft(j)
       /\ pc' = [pc EXCEPT ![j] = "sleep"]
       /\ UNCHANGED outcome
    \/ /\ ~(_is_ir_cron_error(mentions) /\ RetriesLeft(j))
       /\ Finish(j, how)

\* The button call meets the lock: the server rolls back, and the error names
\* the lock somewhere.
ButtonLocked(j) ==
    /\ pc[j] = "button"
    /\ cron
    /\ locked' = [locked EXCEPT ![j] = @ + 1]
    /\ \E mentions \in Mentions \ {{}} : SleepOrRaise(j, mentions, "cron_error")
    /\ UNCHANGED <<serverVars, job, attempt, info, applied, since>>

\* Fault: the wait is for the lock to be free, not for a time.
Wake_WhenFree(j) ==
    /\ pc[j] = "sleep"
    /\ ~cron
    /\ attempt' = [attempt EXCEPT ![j] = @ + 1]
    /\ pc' = [pc EXCEPT ![j] = "button"]
    /\ UNCHANGED <<serverVars, job, info, outcome, history>>

\* asyncio.sleep returns: the next turn of the loop.
Wake(j) ==
    /\ pc[j] = "sleep"
    /\ attempt' = [attempt EXCEPT ![j] = @ + 1]
    /\ pc' = [pc EXCEPT ![j] = "button"]
    /\ UNCHANGED <<serverVars, job, info, outcome, history>>

\* The button call returns.
ButtonWorks(j) ==
    /\ pc[j] = "button"
    /\ ~cron
    /\ Acceptable(j)
    /\ TakeEffect(j)
    /\ pc' = [pc EXCEPT ![j] = "fetch"]
    /\ UNCHANGED <<cron, late, job, attempt, info, outcome, locked>>

\* Another error after which nothing has changed: a UserError, or the safety
\* guard's refusal, which every attempt has to pass.  One that reads like the
\* lock's is treated like it.
ButtonRefused(j) ==
    /\ pc[j] = "button"
    /\ \E mentions \in Mentions :
           /\ locked' = [locked EXCEPT ![j] = IF mentions = {} THEN @ ELSE @ + 1]
           /\ SleepOrRaise(j, mentions, "refused")
    /\ UNCHANGED <<serverVars, job, attempt, info, applied, since>>

\* Fault: a timeout is retried as if it had been the lock.
ButtonGivenUp_Retried(j) ==
    /\ pc[j] = "button"
    /\ attempt[j] < _MAX_RETRIES
    /\ pc' = [pc EXCEPT ![j] = "sleep"]
    /\ late' \in {late, late \cup {j}}
    /\ UNCHANGED <<state, cron, job, attempt, info, outcome, history>>

\* A network error, a timeout or a cancelled task: the request may be lost,
\* or the server may still be at work on it.
ButtonGivenUp(j) ==
    /\ pc[j] = "button"
    /\ Finish(j, "failed")
    /\ late' \in {late, late \cup {j}}
    /\ UNCHANGED <<state, cron, job, attempt, info, history>>

\* The server finishes what nobody waits for any more, or rolls it back.
LateEffect(j) ==
    /\ j \in late
    /\ late' = late \ {j}
    /\ \/ /\ ~cron
          /\ Acceptable(j)
          /\ TakeEffect(j)
       \/ UNCHANGED <<state, applied, since>>
    /\ UNCHANGED <<cron, job, pc, attempt, info, outcome, locked>>

\* The other requests fail: find and fetch.
GiveUp(j) ==
    /\ pc[j] \in {"find", "fetch"}
    /\ Finish(j, "failed")
    /\ UNCHANGED <<serverVars, job, attempt, info, history>>

\* The task is cancelled while it sleeps.
CancelSleep(j) ==
    /\ pc[j] = "sleep"
    /\ Finish(j, "failed")
    /\ UNCHANGED <<serverVars, job, attempt, info, history>>

\* Fault: the button's own result is returned for the module's info.
FetchModule_ButtonResult(j) ==
    /\ pc[j] = "fetch"
    /\ Finish(j, "ok")
    /\ UNCHANGED <<serverVars, job, attempt, info, history>>

\* _fetch_module_info: the dict to return.
FetchModule(j) ==
    /\ pc[j] = "fetch"
    /\ info' = [info EXCEPT ![j] = state[Target(j)]]
    /\ Finish(j, "ok")
    /\ UNCHANGED <<serverVars, job, attempt, history>>

-----------------------------------------------------------------------------

\* A step of the operation's own, or a failed request that ends it.
JobStep(j) ==
    \/ FindModule(j)
    \/ ButtonLocked(j) \/ ButtonWorks(j) \/ ButtonRefused(j) \/ ButtonGivenUp(j)
    \/ Wake(j)
    \/ GiveUp(j)
    \/ FetchModule(j)

Next ==
    \/ CronTakesLock \/ CronReleasesLock
    \/ \E j \in Job : JobStep(j) \/ CancelSleep(j) \/ LateEffect(j)

Spec == Init /\ [][Next]_vars

\* Requests are answered or time out, and sleeps end; nobody has to cancel, and
\* the lock may be held for ever.
FairSpec == Spec /\ \A j \in Job : WF_vars(JobStep(j))

-----------------------------------------------------------------------------
(* Properties *)

\* Every variable has its type; a job makes at most _MAX_RETRIES attempts.
TypeOK ==
    /\ state \in [Module -> ModuleState \cup {Unlisted}]
    /\ cron \in BOOLEAN
    /\ job \in [Job -> [operation : Operation, module : Module]]
    /\ pc \in [Job -> {"find", "button", "sleep", "fetch", "done"}]
    /\ attempt \in [Job -> 1 .. _MAX_RETRIES]
    /\ info \in [Job -> ModuleState \cup {NONE}]
    /\ outcome \in [Job -> Outcome \cup {NONE}]
    /\ late \in SUBSET Job
    /\ applied \in [Job -> Nat]
    /\ since \in [Job -> SUBSET ModuleState]
    /\ locked \in [Job -> Nat]

\* The retry loop repeats a button only after an attempt that was rolled back:
\* the button takes effect at most once, and none is pending beside it.
ButtonAtMostOnce ==
    \A j \in Job : applied[j] + (IF j \in late THEN 1 ELSE 0) <= 1

\* The lock fails an operation only if every one of the attempts met it, or an
\* error that reads like it: an operation that is still trying has had such an
\* error on each past attempt.
LockedOutOnlyAtTheEnd ==
    \A j \in Job :
        /\ outcome[j] = "cron_error" => locked[j] = _MAX_RETRIES
        /\ pc[j] = "sleep" => locked[j] = attempt[j]
        /\ pc[j] = "button" => locked[j] = attempt[j] - 1

\* "Returns updated module info dict": the state an operation returns is one
\* the module had after its own button took effect, whatever other operations
\* did to it in between; never the state found before.
InfoIsUpdated ==
    \A j \in Job :
        outcome[j] = "ok" => applied[j] = 1 /\ info[j] \in since[j]

\* An operation that skips, that raises before its button is called, that the lock
\* has shut out at the last attempt or whose button Odoo or the guard refused,
\* after however many attempts, has changed nothing and changes nothing later.
RaisedEarlyChangesNothing ==
    \A j \in Job :
        outcome[j] \in {"not_found", "not_installed", "skipped", "cron_error", "refused"}
            => applied[j] = 0 /\ j \notin late

\* Every operation ends, however often the lock is taken.
JobsEnd == \A j \in Job : <>(pc[j] = "done")

-----------------------------------------------------------------------------
(* The inductive invariant the proofs rest on *)

\* Before the button has worked, nothing has happened and nobody still works.
NothingYet(j) == applied[j] = 0 /\ j \notin late

\* One job along its way: what its position and its outcome say of the button,
\* of the server's late work and of the lock it has met.
JobOK(j) ==
    /\ pc[j] # "done" => outcome[j] = NONE
    /\ pc[j] \in {"find", "button", "sleep"} => NothingYet(j)
    /\ pc[j] = "find" => attempt[j] = 1 /\ locked[j] = 0
    /\ pc[j] = "button" => locked[j] = attempt[j] - 1
    /\ pc[j] = "sleep" => locked[j] = attempt[j] /\ RetriesLeft(j)
    /\ pc[j] = "fetch" => applied[j] = 1 /\ j \notin late
    /\ j \in late => outcome[j] = "failed" /\ applied[j] = 0
    /\ applied[j] \in {0, 1}
    /\ applied[j] = 1 => state[Target(j)] \in since[j]
    /\ outcome[j] = "ok" => applied[j] = 1 /\ info[j] \in since[j]
    /\ outcome[j] = "cron_error" => locked[j] = _MAX_RETRIES
    /\ outcome[j] \in {"not_found", "not_installed", "skipped", "cron_error", "refused"}
           => NothingYet(j)

ManagerInv == TypeOK /\ \A j \in Job : JobOK(j)

=============================================================================
