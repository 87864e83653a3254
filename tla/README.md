# godoo in TLA+

A model of [godoo](../src/README.md), the asyncio client of the Odoo ERP: its
client core with the safety guard, the services built on it and the test
containers. TLC checks every module on small instances. TLAPS proves, for every
value of the constants, each invariant and each property of steps that the runs
check, and that the client and the feed implement their abstract specifications;
only liveness is left to TLC alone.

godoo is a library: no thread and no task of its own, almost no state of its
own, and a server that many others use at the same time. What can go wrong lies
between two awaits: a session, a cursor, a lock, a field or a reconciliation
that was read on one side of an await is used on the other, a request is lost
or answered too late, a dictionary of the process outlives what it was made
for. The modules are about that.

## 1. Inventory

Paths are relative to `src/packages/godoo/src/godoo/` unless they begin with
`godoo-testcontainers`.

| Component | State it keeps | Operations | Hard part | What makes it correct |
|---|---|---|---|---|
| client core (`client.py`, `rpc/transport.py`, `safety/`) | session, password, http client, safety context, process-wide default context | `authenticate`, `logout`, `aclose`, `set_safety_context`, `set_default_safety_context`, `call` and the CRUD helpers, which are `call` with a method name | calls and authentications of several tasks overlap; the guard awaits the application; answers are lost | no unapproved effect; one grant's credentials; no effect twice; a refusal is final; every call ends |
| change feed (`services/cdc/functions.py`, `get_feed`) | generator: cursor, page | iterate, stop, resume with `since_id` | commits and deletions between the reads of a page; a consumer that stops inside a page | every wanted change once, in order, nothing else, an end |
| change history (`get_history`) | none | three reads | messages come and go in between, and the type of a field comes from a cache that others share | only and all of the record's changes; the newest under a limit; each value as it was stored |
| field cache (`services/cdc/field_cache.py`) | one dictionary per process | `ensure_fields_cached`, `clear_cache` | concurrent readers, several databases, fields that change | complete results, no other field's metadata |
| value display (`services/cdc/resolver.py`) | none | `resolve_values` | - | shows all that the type was stored in |
| module manager (`services/modules/`) | none (the server's `ir.module.module`) | install, uninstall, upgrade with retry | concurrent jobs, the `ir_cron` lock and the ways an error names it, buttons whose answer is lost | a button works once; all attempts are used; the answer is fresh |
| properties (`services/properties/`) | none (a field of a record) | `update_safely`, `update_safely_batch` | read, merge and write are not atomic; `gather` | nothing erased; a batch tells the truth |
| URLs (`services/urls/`) | one dictionary per process, keyed by `id(client)` | `get_base_url`, `get_record_url`, `get_portal_url` | concurrent and forced reads, reuse of an address | a URL of the right server, current when forced; a token to its own server only |
| attendance (`services/attendance/`) | none (`hr.attendance`) | `clock_in`, `clock_out`, `get_status`, list | check then act, timestamps in seconds by clocks that differ, late requests | one open attendance; closed ones stay |
| timesheets (`services/timesheets/`) | none (`account.analytic.line`) | `start_timer`, `stop_timer`, `log_time`, lists | two clocks, rounding, deletion in between | a stopped timer does not run, and its hours have passed |
| accounting (`services/accounting/`) | none | traces, days to pay, partner, closing entries, balance, posted lines | reads of books that change | answers that were true of one moment |
| mail (`services/mail/`) | none | post a note or a message | a caller that posts again after an error; an answer without an id | no message twice; the error tells whether there is one |
| errors (`errors.py`, `_categorize_error`) | none | classification, `to_json` | which errors are answers | a class per answer, and none of them for a failure |
| configuration (`config.py`) | none | `config_from_env`, `create_client` | aliases, empty variables; a client whose authentication fails | no setting is missing |
| test containers (`godoo-testcontainers`) | Docker network and two containers | `start`, `cleanup` | each step can fail; installs restart Odoo; cancellation | all modules installed; all taken down |
| `godoo-introspection` | none | none (an empty package) | - | - |

Every service calls the server through `OdooClient.call` and nothing else, and
keeps no reference to another service; `OdooTestContainer` uses `OdooClient` and
`ModuleManager`; `get_feed` and `get_history` share the field cache; all clients
of a process share the two caches and the default safety context.

`PROJECT.json` lists the components with what is and is not modelled of each
(`components`), and all hazards at their lines with the properties about them
(`hazards`).

## 2. Modules

| Module | Models | State and actions |
|---|---|---|
| `GuardedCall` | nothing of the code: what a call promises | status and number of effects of each call |
| `OdooClient` | one client, its transport and guard, shared by the tasks of an event loop | variables carry the names of the attributes; `pc` and `apc` are where each coroutine is suspended; an action is the code between two awaits; `wire`, `reply` and `effects` are the server's side |
| `Errors` | `errors.py`, `_categorize_error`, and the class of each way a call can end | no state; extended by `OdooClient`, whose outcomes it classifies |
| `Config` | `config_from_env` | no state |
| `Mail` | `post_internal_note`, `post_open_message` and callers that try again | one call of `GuardedCall` per try; `messages` is the server's table |
| `ChangeFeed` | nothing of the code: what a feed promises | a log and the list of events so far |
| `CdcFeed` | `get_feed` and a consumer | `at` is the await or yield the generator is suspended at; one action per read and per turn of the loop; `Commit` and `Delete` are the server's transactions; `handled` is what the consumer has seen over all its feeds |
| `Resolver` | `resolver.py` | no state: the columns shown for a type, the columns a type is stored in |
| `FieldCache` | `field_cache.py` | `_cache` is the dictionary; lookup, answer and store are three actions per reader |
| `CdcHistory` | `get_history` | three reads, all combinations of options; the third is a reader of `FieldCache` |
| `UrlCache` | `services/urls/functions.py` | `address` is `id()`: free again when `Collect` removes a client; `Url` is what a call returns |
| `ModuleManager` | the three operations and `_call_with_ir_cron_retry` | `attempt` is the loop variable; `cron` is the lock; a button may work although the client has given up (`LateEffect`) |
| `PropertiesUpdate` | `update_safely`, `update_safely_batch` | `props` is the field on the server; `batch` is what `gather` has told the caller |
| `Attendance` | `clock_in`, `clock_out` and the functions they call | `attendance` is the table; `now` the timestamp of a call, by a clock of its own |
| `Timesheets` | timers | the table, the server's clock and the client's `skew` against it |
| `Accounting` | all of `services/accounting/functions.py` | the state of each move and the reconciliation of each line, which bookkeepers change between the reads |
| `OdooTestContainer` | `start`, `cleanup`, `seed_resolver.py` | `up` is what Docker holds; one action per Docker or server call |

The theorems stand in modules of their own, which come after the model they are
about; the inductive invariants they rest on stand at the end of the models.

| Proof module | About |
|---|---|
| `OdooClient_proofs`, `CdcFeed_proofs`, `Attendance_proofs`, `Accounting_proofs` | the module of that name |
| `CdcHistory_proofs` | `CdcHistory`, with the `FieldCache` inside it |
| `ModuleManager_proofs` | `ModuleManager`, then `OdooTestContainer` |
| `UrlCache_proofs` | `UrlCache`, then `PropertiesUpdate` |
| `Mail_proofs` | `Mail`, then `Timesheets` |

The last three extend both models. That is why the second one of each has names
of its own for what every model has: `ContainerSpec`, `UpdatesNext`,
`TimersTypeOK`, and `at` for where a call is. The two halves of such a module
share no variable and no lemma; no theorem relates the two systems.

Three modules are put together from others:

- `Mail` does not model the client again. `Client == INSTANCE GuardedCall` has a
  call for each try, and `GuardedCall` is what `OdooClient` is proved to
  implement; `Errors` gives the classes of exception a refused and a failed call
  may raise, and the except clauses of `docs/guides/error-handling.md` decide
  what the caller does next.
- `CdcHistory` contains an instance of `FieldCache`, in which `get_history` is
  one reader, and hands the types it is given to `Resolver`.
- `CdcFeed` contains `ChangeFeed` as `Promise`: `wanted` is what the options ask
  for, the other variables are its own.

`MC<Module>` extends a module and gives its constants values for TLC. Names
follow the source where TLA+ allows it. An operator called `X_Something` and
marked "Fault" is `X` with a plausible bug: no specification uses it, and
`PROJECT.json` names the property that TLC finds violated when it stands in for
`X`.

What lies outside `src/` (the Odoo server, Docker, httpx, the event loop) is
modelled from how the code uses it and marked `external`: a posted request is
carried out, rejected or lost; the answer may be lost after it was carried out;
a request whose caller has given up may still arrive.

## 3. Runs

One run per component with state asks everything of it at once; one further run
finds a disagreement between the code and its guide. All set `CHECK_DEADLOCK FALSE`:
invocations are finite, and a system whose calls have all ended stops.

| Run | Shows | Bounds |
|---|---|---|
| `client` | no unapproved effect; nobody is asked who need not be; a refusal is final; credentials never mix, and a failed authentication ends nobody's session; every call ends; `OdooClient` implements `GuardedCall` | 1 call, 2 authentications, 2 contexts, one reading and one deleting method |
| `feed` | `CdcFeed` implements `ChangeFeed`: every wanted change once, in order, and nothing else unless deleted; complete at its end; whoever resumes sees everything | 3 rows in 2 messages, 2 models, 2 records, 1 field, pages of 1 and 2, 1 failure |
| `history` | the history is of the record, complete, and newest under a limit; its values are those stored; no reader is given another field's type | 3 messages, limits none, 0, 1, two dates; then a smaller log beside a second reader, with 2 models, 2 fields and a change of one |
| `modules` | one effect per button, every attempt used however the error names the lock, fresh answers; every job ends | 2 jobs on one module, 3 attempts as in the code, errors of the button that read like the lock's or not |
| `properties` | nothing erased; a batch that returns has written all | 3 updates, 2 of them one batch, 2 records, 2 names that are set or not |
| `urlcache` | URLs of the client's own server, and tokens to their own server, but for an address used again; a forced result is current | 2 clients, 2 servers, 2 addresses, 2 calls, a parameter that is set once |
| `attendance` | one open attendance, closed ones stay, refusals are right | 2 calls over every table of up to 2 records, 2 employees, 3 times, any of which a clock may show |
| `timesheets` | stopped timers do not run, and their hours are real | 3 calls, 4 steps of 18 s, clocks one step apart |
| `container` | a started container has everything; cleanup leaves nothing it could remove; start ends | 3 modules, 3 polls, 2 after a failed install |
| `accounting` | payments are reconciled, paid is seen, and a trace is whole or empty | an invoice of two instalments, two payments, two reconciliations, two dates |
| `mail` | no message twice, no error class of an answer after a post, what was posted was asked for and an id that the answer holds is returned | 2 posts beside each other, 2 tries each, every body, answers of ten forms |
| `client_default` (violation) | the client never consults the global default safety context | 1 call, 1 context |

Why the bounds are enough: a race in this code needs two parties and one await
between them, so two calls (three where a batch meets another writer, or where
an operation must undo what a second and a third have done) reach every
overlap. Calls of `OdooClient` read nothing of each other: what a call meets is
the session, the contexts and the http client, which the run changes in every
order around one call, and the proofs are for any number of calls. A page size
of 1 or 2 makes a message with two rows span a page end. The retry limit is the
code's own. Two models or fields suffice to confuse one with the other; the
fields of a second database could only enter the shared cache with a type that
a change of the first database brings too. A caller of `Mail` that tries twice
has every pair of a request that is late and one that is answered.

`history` looks at two kinds of starting points, `Scenario`: quiet ones, with
every log and every option and nobody else in the process, and busy ones, with
one log and one set of options beside another reader, `clear_cache` and one
change of a field. What the log does matters to the first two reads and what
the cache does to the third, so that `CdcHistory` lets the log be quiet after
the second (`LogIsRead`).

`MaxFailures`, `MaxDate`, `MaxTime`, `MaxSkew`, `MaxHours`, `MaxTries`, `Pages`
and `MaxAttempts` are the bounds on counters; each is named where it is declared.

The operators without state are checked over all their inputs by assumptions of
MC modules, which TLC evaluates: every field type but `text` is shown by its
columns (`MCCdcHistory`); every error class has a code of its own, and no answer
of the server becomes a network error (`MCMail`); no setting of a configuration
is empty, and the client's own methods are guarded as the guide says
(`MCOdooClient`).

### What the properties leave out, and how

Where the code relies on its caller or on the server, a history variable notes
the very situation in which it is let down, and the property speaks of all
others:

- `CdcFeed.overtaken`: rows whose transaction committed after one with higher
  ids. The cursor has passed them.
- `PropertiesUpdate.disturbed`: records that changed while an update had read
  and not yet written them, or while a write whose caller had given up was under
  way.
- `Attendance.crossed`: employees of whom a record was written between another
  call's read and its write.
- `Attendance.misdated`: employees of whom an attendance, open at first or made by
  `clock_in`, did not begin after all the others on record: the clocks differ or
  were set back, or it was within one second, or somebody entered it so. What is
  closed stays closed even then, and `clock_in` is refused with reason.
- `UrlCache.before`: the clients that were at a client's address before it. A
  client may get the URL of their server, and a portal URL then takes its own
  server's token there.
- `OdooTestContainer.seed_modules`: what a seed image holds in fact, against
  what `seed-config.json` says.
- `FieldCache.ever`: the types a field has had. A cached type may be an old one;
  `ValuesAreShown` is about fields that have had one.

A mutant of the code breaks each property all the same: none is empty.

### Where code and documentation differ

Checked, with a counterexample: `set_default_safety_context` guards nothing
(`client_default`). `docs/guides/safety-guards.md:66` offers it "for all clients
that do not have an explicit safety context", but `client.py:78` always passes
`undefined=False`.

Met while modelling, in the models, and admitted by the properties:

| Code | Documentation |
|---|---|
| an authentication that was in flight stores its session after a `logout` (`rpc/transport.py:62`) | `logout`: "Clear session and password." (`rpc/transport.py:124`) |
| a timeout raises `OdooNetworkError`; nothing raises `OdooTimeoutError` (`rpc/transport.py:86`) | the guide's handler of it (`docs/guides/error-handling.md:78-91`) |
| an answer that is no JSON-RPC response raises `JSONDecodeError` or `KeyError` (`rpc/transport.py:89`) | `OdooError` is the "Base class for all Odoo client errors." (`errors.py:10`) |
| the cursor skips rows that commit below it (`services/cdc/functions.py:137`) | ids avoid events being "skipped or duplicated" (`docs/services/cdc.md:59-61`) |
| a row whose message is deleted between two reads passes the filter (`services/cdc/functions.py:203`) | "only yield events for the requested model" (`:202`) |
| the field cache belongs to the process and knows no database (`services/cdc/field_cache.py:13`) | "cached across pages within a single feed iteration" (`docs/services/cdc.md:73-74`) |
| the URL cache is keyed by an address that is used again (`services/urls/functions.py:21`) | "cached per client instance" (`:19`) |
| a property set between read and write is erased (`services/properties/functions.py:42`) | "the properties service solves this" (`docs/services/properties.md:10-12`) |
| `update_safely` merges the list of properties and writes the list; it does not call `properties_to_write_format` (`services/properties/functions.py:35-42`) | "Converting them to write format", "automatically inside `update_safely`" (`docs/services/properties.md:15,70`) |
| `gather` raises at the first failure; what `asyncio.run` finds unfinished then it cancels (`services/properties/functions.py:53`) | "a failure on one record does not prevent the others from being updated" (`docs/services/properties.md:50-51`) |
| two overlapping `clock_in` or `clock_out` both write (`services/attendance/functions.py:68,82`) | "raises an error if ..." (`docs/services/attendance.md:60-63`) |
| an open attendance is not seen behind a closed one with a later or equal `check_in`, which clocks that differ give (`services/attendance/functions.py:48,71`): a second one is opened, or `clock_out` is refused | as above |
| `start_timer` sets no timer flag, and `stop_timer` counts from `create_date` (`services/timesheets/functions.py:41-47,64`) | "the timer flag set"; "Computes elapsed hours from `timer_start`" (`docs/services/timesheets.md:48,53-54`) |
| `stop_timer` overwrites the hours of a completed entry (`services/timesheets/functions.py:71`) | "Stop a running timer" (`docs/services/timesheets.md:53`) |
| `startup_timeout` is never read (`godoo-testcontainers`, `container.py:168`) | "Max seconds to wait for Odoo to be ready" (`docs/testing.md:56`) |
| without `ODOO_VERSION` the image is 17.0 (`seed_resolver.py:18-19`) | "Defaults to latest." (`docs/testing.md:108`) |
| a seed that lacks one requested module is not used (`seed_resolver.py:60`) | "Only modules not already present in the seed are installed" (`docs/testing.md:63-64`) |
| one reconciled instalment gives `days_to_pay` (`services/accounting/functions.py:214`) | "Paid in ... days", else "Not yet paid" (`docs/services/accounting.md:77-81`) |
| the balance adds up both sides of every entry of the journal, of any date, which is nil: `CashIsNil` proves it (`services/accounting/functions.py:268`) | "current balance for a cash/bank journal" (`:267`); "Sum posted balances for a journal up to the current date" (`docs/services/accounting.md:91`) |
| a closing entry is told by the names of its lines, and an empty name (`False`) raises `AttributeError` (`services/accounting/functions.py:168`) | "all lines reference accounts starting with '1'" (`:158`); "accounts in the 129x range" (`docs/services/accounting.md:62`) |
| `get_cash_account_ids` returns ids of journals (`services/accounting/functions.py:70`) | its name |
| the text columns are fetched and never shown (`services/cdc/functions.py:33`) | "char/text: old_value_char" (`services/cdc/resolver.py:19`); Odoo has a text column |
| plain text with something between angle brackets is sent as HTML (`services/mail/functions.py:26`) | "Plain text is wrapped" (`:21`) |
| for an answer without an id, `_extract_id` returns 0 (a dict) or a bool, or raises `TypeError` (`None`, `[]`) or `ValueError` (a word), although the message is posted (`services/mail/functions.py:33-39`) | both functions "always return a single `int` message ID" (`docs/services/mail.md:57-58`) |
| only the move's own partner is looked at (`services/accounting/functions.py:133`) | "Check the cash/bank line itself for a `partner_id`" (`docs/services/accounting.md:48`) |

### Fairness

Liveness is checked under weak fairness of the code's own steps only.
`httpx.AsyncClient()` has a default timeout of five seconds, so that every post
ends; the event loop runs a task that can go on; `asyncio.sleep` ends; Docker's
calls return or raise. The application's `confirm` is assumed to return, and a
feed's consumer to handle an event and ask for the next, starting a new feed
after each that ended. Nobody has to commit, delete, log out, cancel or release
the `ir_cron` lock.

## 4. Proofs

Every theorem is about the whole specification (`Spec => ...`) and every value
of the constants that the named assumption of its module allows. `P` in a table
is a property that a run checks as well.

Each proof goes the same way. The property is not inductive; its module states
an invariant that is, in named parts: the types, what holds of one call (job,
update, reader, row) along its way, and what holds of the data between calls.
TLC first checked that invariant with the constants of the component's run. The
lemmas of the proof module then show that `Init` has it and that each action
keeps each part, and the theorems follow from it.

### `OdooClient_proofs`

From `SentinelAssumption`: `None`, the sentinel, contexts and outcomes are
different things.

| Theorem | Says |
|---|---|
| `TypeCorrect` | `TypeOK` (P) |
| `Invariance` | the inductive invariant `IInv` |
| `GuardHolds` | `EffectsAreApproved` (P) |
| `GuardIsExact` | `OnlyAskedWhenDue` (P) |
| `CredentialsCoherent` | `CredentialsAreOneGrant` (P) |
| `NoSecondEffect` | `AtMostOnce`, which `GuardedCall` implies as well |
| `RefusedIsOver` | `RefusalIsFinal` (P) |
| `SessionIsKept` | `SessionChangesHands` (P), about steps |
| `Refinement` | `KeepsPromise` (P): each step is one of `GuardedCall` or leaves its variables alone |

None of the guard properties is inductive by itself. That no unapproved call has
an effect needs that none is on the wire, which needs that none was posted,
which needs that a suspended `confirm` is the one that was due. `CallOK` states
this for one call along its life (`QuietUntilPosted`, `PostedIsApproved`), with
what the server's answer tells of the effect (`ReplyTells`) and what the outcome
tells the caller (`OutcomeTells`); `IInv` is its conjunction over all calls with
`TypeOK` and `CredentialsAreOneGrant`. `CredentialsAreOneGrant` is inductive with
`TypeOK` because `AuthGranted` writes both halves without an await in between.
The lemma `CallFrame` says that a call whose variables a step leaves alone stays
in order, since approvals only grow; each action then has to be looked at for the
call it is about only. The refinement maps `pc` and `outcome` to a status and
keeps `effects`; a step is simulated under `IInv`, which is why `ReturnOk` may
demand an effect. Only two actions touch the session at all
(`OnlyTwoTouchTheSession`).

### `CdcFeed_proofs`

From `LogAssumption`: the ids of the finitely many rows are positive numbers,
every row has a message, page sizes are positive, and `None` is no set of ids.

| Theorem | Says |
|---|---|
| `FeedInvariance` | the inductive invariant `FeedInv` |
| `NothingLost` | `NothingSkipped` (P) |
| `ReturnsComplete` | `CompleteAtReturn` (P), about steps |
| `FeedKeepsPromise` | `KeepsPromise` (P): `get_feed` implements `ChangeFeed` |

A page is the first so many of the matching rows: `FirstRowsAreFirst` says that
none is missing below one of them, `ShortPageIsLast` that a page shorter than
asked for leaves none behind, which is what ends the feed. So no row that is
owed is missing between the cursor and a row of the page (`PageOK`), and the
cursor, which follows the page, passes none that was not handled (`PassedOK`).
What a transaction commits below rows that are already there is overtaken at
that moment and no longer owed (`CommitOwes`). With `res_ids` there is a second
read: a row whose message was not among those read must then lie above every row
whose message was (`MessagesOK`). For the refinement, handling an event is a
step that delivers in `ChangeFeed`, a commit and a deletion are its own, and all
else is a stutter.

### `CdcHistory_proofs`

From `HistoryConstants`: every row has a message, dates and limits are numbers,
`None` is no type, and a scenario consists of what its fields say.

| Theorem | Says |
|---|---|
| `HistoryInvariance` | the inductive invariant `HistoryInv`, which includes `FieldCache`'s `CacheInv` |
| `SharesCache` | `Cache!Spec`: what `get_history` and the readers beside it do to the cache is what `FieldCache` says readers do |
| `TypesNotInvented` | `NeverInvented` (P) |
| `AllChanges` | `Complete` (P) |
| `LimitDropsOldest` | `NewestKept` (P) |
| `ShowsWhatWasStored` | `ValuesAreShown` (P) |

The cache is proved for its own actions first (`CacheStep`), and `StepShares`
carries that over. A reader has a type of every name it wants, or asks for it
(`ReadersOK`), and every type in the dictionary, in an answer or in a result is
one its field has had (`NamesOK`). Messages are read before rows, so that a row
that is there throughout comes with its message, and its message comes unless a
limit has kept newer ones only (`ReadOK`). `ShownAsStored` is the resolver's part.

### `ModuleManager_proofs`: `ModuleManager`

From `NoneAssumption`: `None` is neither a state nor an outcome. The number of
attempts is the code's.

| Theorem | Says |
|---|---|
| `ManagerInvariance` | the inductive invariant `ManagerInv` |
| `WorksOnce` | `ButtonAtMostOnce` (P) |
| `AllAttemptsUsed` | `LockedOutOnlyAtTheEnd` (P) |
| `AnswerIsFresh` | `InfoIsUpdated` (P) |
| `EarlyErrorsAreClean` | `RaisedEarlyChangesNothing` (P) |

The loop goes round only through an answer that names the lock, which the server
has rolled back: in front of each attempt nothing has happened and nothing of
the job is under way (`NothingYet`), and the lock was met once per attempt used.

### `ModuleManager_proofs`: `OdooTestContainer`

From no assumption; requests are finite, as lists are.

| Theorem | Says |
|---|---|
| `ContainerInvariance` | the inductive invariant `ContainerInv` |
| `StartReturnsAll` | `StartedHasAll` (P) |
| `CleanupReachesAll` | `CleanupLeavesOnlyStuck` (P) |

In the loop of `start`, what was asked for is installed or still to be visited
(`LoopOK`), through a failed installation, the wait for a server that restarts
and the second try, and for any order of the modules: the proof needs of it only
what dropping the first element does to a sequence (`RangeOfTail`). With a seed
nothing is left for the loop, and the database has what the image has (`SeedOK`).
For `cleanup`, what a step has before it is gone or stuck (`CleanupOK`). All that
happens beside these (`Aside`) gets neither into the loop nor into `cleanup`.

### `UrlCache_proofs`: `UrlCache`

From `UrlConstants`: `None` is neither a server nor an address.

| Theorem | Says |
|---|---|
| `UrlInvariance` | the inductive invariant `UrlInv` |
| `OwnServer` | `UrlOfOwnServer` (P) |
| `ForcedIsFresh` | `ForcedIsCurrent` (P) |

A call keeps its client alive and so at its address until it ends; what it
stores there is its own server's, and what it finds there was stored for a
client that was at that address before (`CacheOK`). Where none of those was of
another server, the base of a portal URL is the server of its token.

### `UrlCache_proofs`: `PropertiesUpdate`

From `ConstantsAssumption`: a batch consists of updates, and an absent value is
no value.

| Theorem | Says |
|---|---|
| `UpdatesInvariance` | the inductive invariant `UpdatesInv` |
| `SafeUpdates` | `NothingErased` (P) |
| `BatchTellsTheTruth` | `BatchOkMeansAllWritten` (P) |

What an update has merged is what it would merge now, unless its record was
disturbed (`UpdateOK`); its write then changes the names it was given and no
others (`ReplaceEffect`). A second update that holds an older merge of the same
record disturbs it by the first one's write, late writes included.

### `Attendance_proofs`

From `AttendanceConstants`: times are bounded by a number, old records are not
those of the calls, and `None` is nothing else. Nothing is assumed of the records
there are at first, nor of the clocks.

| Theorem | Says |
|---|---|
| `AttendanceInvariance` | the inductive invariant `AttendanceInv` |
| `OneOpen` | `AtMostOneOpen` (P) |
| `ClosedStaysClosed` | `ClosedStays` (P), about steps |
| `RefusalsAreRight` | `RefusedRightly` (P), about steps |

While no other call of an employee writes, what a call was answered is what it
would be answered now (`StatusOK`). That is all `ClosedStays` and a refused
`clock_in` need: an attendance that is reported as open is open (`StatusOpen`).
For the rest, `get_status`, which looks at the attendance with the latest
`check_in` only, must tell whether any is open (`StatusTells`), and for that an
open attendance must have begun after every other one of its employee
(`EmployeeOK`): this is where `misdated` comes in.

### `Accounting_proofs`

From `AccountingConstants`, which says what each constant is and that the lines
are finitely many, and `DoubleEntry`, Odoo's rule that the lines of a move add up
to nil.

| Theorem | Says |
|---|---|
| `AccountingInvariance` | the inductive invariant `AccountingInv` |
| `PaidInvoicesHaveDays` | `PaidIsSeen` (P) |
| `TracesAreWhole` | `TraceIsWhole` (P) |
| `CashIsNil` | `BothSides`: the balance is nil, which is a divergence and no promise |
| `PaymentsAreOfTheInvoice` | `PaymentIsReconciled` (P), about steps |

The reconciliation that `calculate_days_to_pay` has read of a line may be undone
before it reads that reconciliation's lines. An id is used once, and what it
joins is of two moves at least (`LedgerOK`); so either it still joins a line of
the invoice with one of another move, or nothing any more, and then the invoice
has not stayed paid (`CallOK`). The same makes the date that is taken a payment's,
and a trace that finds lines at all finds its own and another move's (`TraceOK`).

`get_cash_balance` adds up the lines of whole moves. `AmountOf` is a fold of the
community modules, a recursive function over sets, and induction over sets is out
of reach as a rule with an operator in it. The proof goes by least
counterexamples instead: numbers have a least one (`LeastNumber`, from the
well-foundedness of `<`), so that a set without a sum, two different sums of one
set, or a set of whole moves with another sum than nil would come in a smallest
size. `SumExists` and `SumsAgree` give the equation of the recursion,
`AmountOfBoth` adds disjoint sets, and `WholeMovesBalance` takes one move away
from the smallest counterexample.

### `Mail_proofs`: `Mail`

From `TriesAssumption` (a task tries at least once) and `NoneAssumption` (the
sentinel is no class of exception, form of an answer or number).

| Theorem | Says |
|---|---|
| `MailInvariance` | the inductive invariant `MailInv` |
| `NeverTwice` | `AtMostOneMessage` (P) |
| `AnswersAreTrue` | `ClassTellsEffect` (P) |
| `PostsAreAsked` | `PostedAsAsked` (P) |
| `UsesTheClient` | `Client!Spec`: what the tasks do with the client, one call per try, is what `GuardedCall` allows |

The classes a failed call may raise are none of the `except` clause's, up to the
roots of the hierarchy (`FailuresAreNoAnswers`), so that a task goes on only
after a refusal. `TriesOK` says that every try before the last was refused and
none after it was begun; `MessagesOK` that each message is the effect of one try
and that a refused try has none. Only the last try can then have made a message
(`OneMessage`). An answer, of whatever form, comes from a try that has made its
message. The proof uses of the client only the actions of `GuardedCall`,
which `Refinement` shows it to implement, and `UsesTheClient` shows that the tasks
ask for nothing else: each try is invoked once, and answered once.

### `Mail_proofs`: `Timesheets`

From `TimesheetConstants`: the bounds are numbers, and `NIL` is neither a call
nor an entry.

| Theorem | Says |
|---|---|
| `TimersInvariance` | the inductive invariant `TimesheetsInv` |
| `HoursHavePassed` | `HoursAreReal` (P) |
| `StoppedTimersStand` | `StoppedNotRunning` (P) |

Only the call an entry is named after creates it, and a call that has gone on,
with no request of its own still under way, will not again (`Settled`). So the
entry a `stop_timer` has read is that of its write, however late, or is gone; its
`create_date` is the one that was read, and what is written is at most what has
passed since, the clocks only going forward. That `StoppedNotRunning` is
inductive needs that no hours written are nil (`HasHours`), for a running timer is
one without hours: a late write of another call cannot start it again, and a late
request to create it cannot come.

### What the proofs changed

Proving `CdcHistory` showed that `SUBSET Field \ {{}}` had been read as
`SUBSET (Field \ {{}})`, so that a reader could also ask for no names at all,
which `ensure_fields_cached` is never called for; `FieldCache` and `CdcHistory`
now say `(SUBSET Field) \ {{}}`. `AttendanceConstants` did not say before that
`None` is no employee, user, time or record; nor the assumptions of `Timesheets`
and `Accounting` that it is no call, entry, date or function.

The type invariant of `Timesheets` bounded hours by a sum of the constants, which
is false where that is less than the least amount a `stop_timer` writes; they are
numbers now, and `HoursAreReal` is what bounds them. `Accounting` says that its lines, and
`OdooTestContainer` that its requests, are finite: a sum over an infinite set, or
a sequence of its members, would have no value. The types of `Timesheets` and
`Accounting` now say what `kind` is.

### Checked by TLC only

- Liveness (`CallsEnd`, `EventuallyHandled`, `JobsEnd`, `StartEnds`): progress
  under fairness needs ENABLED, which the provers at hand do not know.
- What the assumptions of the MC modules say of operators without state, and the
  disagreement that `client_default` shows.

## 5. What is not modelled

- The values, names and wording of events, entries, URLs and errors.
- The functions that are one read and hand its answer on: `check` of the change
  log, `list_modules`, `list_attendances`, `list_timesheets`. They have no state
  and are calls of `OdooClient`.
- `create_client`'s http client, which stays open when its authentication fails:
  nobody holds it, and nothing in the repository says who should close it.
- What Odoo itself would refuse beyond what the code relies on: Odoo has its own
  constraint against overlapping attendances, and the models let any request be
  refused without relying on it.
- What the event loop does at its end to the updates of a batch that has raised.
- Seed image scripts and workflows; `godoo-introspection` is empty.

Assumed of what lies outside: an `OdooNetworkError` does not mention `ir_cron`;
posted entries balance (`DoubleEntry`); a row of the change log is stored by the
type its field has at that moment (`Resolver!StoredIn`).

## 6. Plan

Done: every component with state or with more than one request; the pure parts;
the client under `Mail` and the cache under `CdcHistory`; the abstract
specifications `GuardedCall` and `ChangeFeed` with their refinements; the proofs
of section 4.

Every invariant and every property of steps that a run checks is proved. Left to
do: a composition of `OdooTestContainer` over `ModuleManager`, whose installs are
one step at present.
