------------------------- MODULE OdooTestContainer --------------------------
(***************************************************************************)
(* godoo-testcontainers: OdooTestContainer.start brings up a network, a    *)
(* Postgres and an Odoo container, waits for Odoo, authenticates and       *)
(* installs the requested modules; StartedOdooContainer.cleanup takes all  *)
(* of it down.  seed_resolver.py decides whether Postgres starts from a    *)
(* seed image.                                                             *)
(*                                                                         *)
(* Every call of Docker or of the server is an action that may fail, and   *)
(* an installation may restart the server.  start may be cancelled at any  *)
(* of its awaits; CancelledError is no Exception.                          *)
(***************************************************************************)
EXTENDS Naturals, Sequences, FiniteSets, SequencesExt

CONSTANTS
    Addon,          \* Odoo modules
    MaxAttempts,    \* polls of _wait_for_odoo_ready before TimeoutError: 120
    RetryAttempts   \* the same after a failed installation: 60

ASSUME ContainerConstants == {MaxAttempts, RetryAttempts} \subseteq Nat \ {0}

VARIABLES
    modules,        \* parameter modules, in order
    seed_image,     \* ODOO_SEED_IMAGE is set
    seed_config,    \* seed-config.json's modules for this version, or no entry
    seed_modules,   \* the modules the seed image holds in fact
    at,             \* where start, and then cleanup, is
    up,             \* Docker resources that exist
    stuck,          \* those whose stop or remove has failed
    ready,          \* Odoo answers
    attempts,       \* polls of the current wait
    installed,      \* modules installed in the database
    to_install,     \* modules the loop still has to visit
    retrying,       \* the loop is in its except branch
    session         \* the client holds a session

envVars == <<modules, seed_image, seed_config, seed_modules>>
containerVars == <<envVars, at, up, stuck, ready, attempts, installed, to_install,
                   retrying, session>>

Resource == {"network", "postgres", "odoo"}

NoEntry == [present |-> FALSE, modules |-> {}]

\* Each module is requested once, in some order.
Requests == UNION {SetToSeqs(M) : M \in {S \in SUBSET Addon : IsFiniteSet(S)}}

-----------------------------------------------------------------------------
(* seed_resolver.py *)

\* The seed is used, for it covers every requested module.
resolve_seed_info ==
    /\ seed_image
    /\ seed_config.present
    /\ Range(modules) \subseteq seed_config.modules

\* What start leaves for the loop.
ToInstall ==
    IF resolve_seed_info
    THEN SelectSeq(modules, LAMBDA m : m \notin seed_config.modules)
    ELSE modules

\* What the database holds when Postgres is up.
InDatabase == IF resolve_seed_info THEN seed_modules ELSE {}

ContainerInit ==
    /\ modules \in Requests
    /\ seed_image \in BOOLEAN
    /\ seed_config \in [present : {TRUE}, modules : SUBSET Addon] \cup {NoEntry}
    /\ seed_modules \in SUBSET Addon
    /\ at = "network"
    /\ up = {}
    /\ stuck = {}
    /\ ready = FALSE
    /\ attempts = 0
    /\ installed = {}
    /\ to_install = <<>>
    /\ retrying = FALSE
    /\ session = FALSE

-----------------------------------------------------------------------------
(* start *)

Starting == {"network", "postgres", "seed_logs", "odoo", "wait", "authenticate",
             "check", "install"}

\* network.create, the step before the try.
CreateNetwork ==
    /\ at = "network"
    /\ \/ up' = up \cup {"network"} /\ at' = "postgres"
       \/ at' = "raised" /\ UNCHANGED up
    /\ UNCHANGED <<envVars, stuck, ready, attempts, installed, to_install,
                   retrying, session>>

\* An exception inside the try.
Raise == at' = "except"

\* pg.start: a container that does not come up may still have been created.
StartPostgres ==
    /\ at = "postgres"
    /\ \/ /\ up' = up \cup {"postgres"}
          /\ at' = IF resolve_seed_info THEN "seed_logs" ELSE "odoo"
       \/ Raise /\ up' \in {up, up \cup {"postgres"}}
    /\ installed' = InDatabase
    /\ UNCHANGED <<envVars, stuck, ready, attempts, to_install, retrying,
                   session>>

\* wait_for_logs, for a seed only.
WaitForSeedLogs ==
    /\ at = "seed_logs"
    /\ at' = "odoo" \/ Raise
    /\ UNCHANGED <<envVars, up, stuck, ready, attempts, installed, to_install,
                   retrying, session>>

StartOdoo ==
    /\ at = "odoo"
    /\ \/ up' = up \cup {"odoo"} /\ at' = "wait"
       \/ Raise /\ up' \in {up, up \cup {"odoo"}}
    /\ attempts' = 0
    /\ UNCHANGED <<envVars, stuck, ready, installed, to_install, retrying,
                   session>>

\* Odoo comes up, on its own time.
BecomeReady ==
    /\ "odoo" \in up /\ ~ready
    /\ ready' = TRUE
    /\ UNCHANGED <<envVars, at, up, stuck, attempts, installed, to_install,
                   retrying, session>>

Limit == IF retrying THEN RetryAttempts ELSE MaxAttempts

\* One poll of _wait_for_odoo_ready: an HTTPError or no uid means another one,
\* the last one raises TimeoutError, and an answer that is not what the code
\* expects raises at once.
Poll ==
    /\ at = "wait"
    /\ attempts' = attempts + 1
    /\ \/ ready /\ at' = "authenticate"
       \/ attempts' < Limit /\ UNCHANGED at
       \/ Raise
    /\ UNCHANGED <<envVars, up, stuck, ready, installed, to_install, retrying,
                   session>>

\* client.authenticate: before the loop, and in the except branch of its body.
Authenticate ==
    /\ at = "authenticate"
    /\ \/ Raise /\ UNCHANGED <<session, to_install>>
       \/ /\ ready
          /\ session' = TRUE
          /\ to_install' = IF retrying THEN to_install ELSE ToInstall
          /\ at' = IF retrying THEN "install" ELSE "check"
    /\ UNCHANGED <<envVars, up, stuck, ready, attempts, installed, retrying>>

\* mm.is_module_installed, or the end of the loop.
CheckModule ==
    /\ at = "check"
    /\ \/ /\ to_install = <<>>
          /\ at' = "started"
          /\ UNCHANGED to_install
       \/ /\ to_install # <<>> /\ ready
          /\ IF Head(to_install) \in installed
             THEN to_install' = Tail(to_install) /\ UNCHANGED at
             ELSE at' = "install" /\ UNCHANGED to_install
       \/ to_install # <<>> /\ Raise /\ UNCHANGED to_install
    /\ retrying' = FALSE
    /\ UNCHANGED <<envVars, up, stuck, ready, attempts, installed, session>>

\* Fault: an installation that has raised is not tried again.
InstallModule_NoRetry ==
    /\ at = "install"
    /\ \/ /\ ready
          /\ installed' = installed \cup {Head(to_install)}
          /\ UNCHANGED ready
       \/ /\ installed' \in {installed, installed \cup {Head(to_install)}}
          /\ ready' \in {ready, FALSE}
    /\ to_install' = Tail(to_install)
    /\ at' = "check"
    /\ UNCHANGED <<envVars, up, stuck, attempts, retrying, session>>

\* Fault: the second try is made like the first.
InstallModule_RetriesForever ==
    /\ at = "install"
    /\ \/ /\ ready
          /\ installed' = installed \cup {Head(to_install)}
          /\ to_install' = Tail(to_install)
          /\ retrying' = FALSE
          /\ at' = "check"
          /\ UNCHANGED <<ready, attempts>>
       \/ /\ installed' \in {installed, installed \cup {Head(to_install)}}
          /\ ready' \in {ready, FALSE}
          /\ at' = "wait" /\ retrying' = TRUE /\ attempts' = 0
          /\ UNCHANGED to_install
    /\ UNCHANGED <<envVars, up, stuck, session>>

\* mm.install_module: it may raise before or after the server has installed the
\* module, and the server may restart meanwhile.  The first exception leads to
\* a wait, a new session and a second try; the second one leaves start.
InstallModule ==
    /\ at = "install"
    /\ \/ /\ ready
          /\ installed' = installed \cup {Head(to_install)}
          /\ to_install' = Tail(to_install)
          /\ retrying' = FALSE
          /\ at' = "check"
          /\ UNCHANGED <<ready, attempts>>
       \/ /\ installed' \in {installed, installed \cup {Head(to_install)}}
          /\ ready' \in {ready, FALSE}
          /\ IF retrying
             THEN Raise /\ UNCHANGED <<retrying, attempts>>
             ELSE at' = "wait" /\ retrying' = TRUE /\ attempts' = 0
          /\ UNCHANGED to_install
    /\ UNCHANGED <<envVars, up, stuck, session>>

\* except Exception: network.remove, suppressed, and raise.  Docker removes no
\* network that a container is attached to.
Except ==
    /\ at = "except"
    /\ up' \in {up, IF up = {"network"} THEN {} ELSE up}
    /\ at' = "raised"
    /\ UNCHANGED <<envVars, stuck, ready, attempts, installed, to_install,
                   retrying, session>>

\* What a thread of asyncio.to_thread is bringing up.
Pending == CASE at = "network" -> {"network"}
             [] at = "postgres" -> {"postgres"}
             [] at = "odoo" -> {"odoo"}
             [] OTHER -> {}

\* Cancelled at an await: no handler of start runs, and the thread goes on.
Cancel ==
    /\ at \in Starting \cup {"except"}
    /\ up' \in {up, up \cup Pending}
    /\ at' = "cancelled"
    /\ UNCHANGED <<envVars, stuck, ready, attempts, installed, to_install,
                   retrying, session>>

-----------------------------------------------------------------------------
(* cleanup *)

Logout ==
    /\ at = "started"
    /\ session' = FALSE
    /\ at' = "stop_odoo"
    /\ UNCHANGED <<envVars, up, stuck, ready, attempts, installed, to_install,
                   retrying>>

Cleaning == {"stop_odoo", "stop_postgres", "remove_network"}

\* What a step of cleanup takes down, and the step after it.
Takes == [stop_odoo |-> "odoo", stop_postgres |-> "postgres",
          remove_network |-> "network"]

After == [stop_odoo |-> "stop_postgres", stop_postgres |-> "remove_network",
          remove_network |-> "cleaned"]

\* Docker removes it; a network has no container attached to it.
Removes(r) ==
    /\ r = "network" => up \subseteq {"network"}
    /\ up' = up \ {r}
    /\ UNCHANGED stuck

RemoveFails(r) ==
    /\ stuck' = stuck \cup {r}
    /\ UNCHANGED up

\* Fault: suppress around the whole of cleanup.
TakeDown_OneSuppress ==
    /\ at \in Cleaning
    /\ \/ Removes(Takes[at]) /\ at' = After[at]
       \/ RemoveFails(Takes[at]) /\ at' = "cleaned"
    /\ ready' = (ready /\ "odoo" \in up')
    /\ UNCHANGED <<envVars, attempts, installed, to_install, retrying, session>>

\* c.stop or network.remove, each with its own suppress(Exception).
TakeDown ==
    /\ at \in Cleaning
    /\ Removes(Takes[at]) \/ RemoveFails(Takes[at])
    /\ at' = After[at]
    /\ ready' = (ready /\ "odoo" \in up')
    /\ UNCHANGED <<envVars, attempts, installed, to_install, retrying, session>>

-----------------------------------------------------------------------------

StartStep ==
    \/ CreateNetwork \/ StartPostgres \/ WaitForSeedLogs \/ StartOdoo \/ Poll
    \/ Authenticate \/ CheckModule \/ InstallModule \/ Except

CleanupStep == Logout \/ TakeDown

ContainerNext == StartStep \/ CleanupStep \/ BecomeReady \/ Cancel

ContainerSpec == ContainerInit /\ [][ContainerNext]_containerVars

\* Docker and the server answer or fail.
FairContainerSpec == ContainerSpec /\ WF_containerVars(StartStep)

-----------------------------------------------------------------------------
(* Properties *)

\* What start returns has every requested module installed, whichever
\* installations failed or restarted the server on the way, and its client has
\* a session.  Of a seed image that is used it relies on what seed-config.json
\* says of it: such an image may lack what it lacked from the start.
StartedHasAll ==
    at = "started" =>
        /\ \A m \in Range(modules) \ installed :
               resolve_seed_info /\ m \in seed_config.modules \ seed_modules
        /\ session
        /\ up = Resource

\* cleanup reaches every resource: what it leaves behind is what Docker itself
\* has not removed.
CleanupLeavesOnlyStuck == at = "cleaned" => up \subseteq stuck

\* start returns or raises, whatever fails.
StartEnds == <>(at \notin Starting \cup {"except"})

-----------------------------------------------------------------------------
(* The inductive invariant the proofs rest on *)

\* The types the other parts need.
ContainerTypeOK ==
    /\ modules \in Seq(Addon)
    /\ retrying \in BOOLEAN
    /\ up \in SUBSET Resource
    /\ at \in Starting \cup Cleaning
              \cup {"started", "cleaned", "except", "raised", "cancelled"}

\* Docker's side follows the steps of start, and the client's too.
UpOK ==
    /\ at = "network" => up = {}
    /\ at = "postgres" => up = {"network"}
    /\ at \in {"seed_logs", "odoo"} => up = {"network", "postgres"}
    /\ at \in {"wait", "authenticate", "check", "install", "started"} => up = Resource
    /\ at \in {"check", "install", "started"} => session
    /\ at \in {"network", "postgres", "seed_logs", "odoo"} => ~retrying

\* The database has what its seed image has.
Seeded == at \in {"seed_logs", "odoo", "wait", "authenticate", "check", "install"}

SeedOK == resolve_seed_info /\ Seeded => seed_modules \subseteq installed

\* In the loop: what is not installed is still to be visited.
InLoop ==
    at \in {"check", "install"} \/ (retrying /\ at \in {"wait", "authenticate"})

LoopOK ==
    ~resolve_seed_info /\ InLoop =>
        /\ to_install \in Seq(Addon)
        /\ at # "check" => to_install # <<>>
        /\ Range(modules) \subseteq installed \cup Range(to_install)

\* What each step of cleanup has before it.
Visited == [stop_odoo |-> {}, stop_postgres |-> {"odoo"},
            remove_network |-> {"odoo", "postgres"}]

CleanupOK == at \in Cleaning => up \cap Visited[at] \subseteq stuck

\* What is left of a step of start, or of cleanup, is still before it.
ContainerInv ==
    ContainerTypeOK /\ UpOK /\ SeedOK /\ LoopOK /\ CleanupOK
        /\ StartedHasAll /\ CleanupLeavesOnlyStuck

=============================================================================
