# Verification of the Lemello backend

TLA+ models of the Lemello backend (`src/`, a FastAPI service on PostgreSQL),
TLC runs over small instances of them, and TLAPS proofs of what matters most for
every instance. `PROJECT.json` lists components, runs, mutants, findings, hazards
and theorems, and maps every definition to the lines it models.

## 1. The system

| Component | State | Operations | Interacts with |
|---|---|---|---|
| Registration (`app/api/v1/auth.py`, `app/services/auth.py`, `app/models/user.py`) | rows of `users`, entries of its two unique indexes | `POST /api/v1/auth/register` | session, tokens, pipeline, log |
| Database sessions (`get_db`) | session, transaction, pooled connection of a request | open, commit after the yield, rollback, close | engine cache, PostgreSQL |
| Engine cache (`app/core/database.py`) | two module globals | `_managed_engine`, `clear_engine_cache` | all worker threads |
| Access tokens and guards (`app/core/security.py`, `app/api/deps.py`) | none of its own; clocks, token claims, the account's row | issue, verify, `get_current_user`, optional guard, roles | `users` |
| Request pipeline (`app/main.py`) | `request.state`, context variable | two middlewares, four exception handlers | every endpoint, log |
| Logging pipeline (`app/core/logger.py`) | queue, listener thread, file, drop counter, module globals | configure, emit, drop, write, shut down | every thread |
| Schemas, error envelope (`app/schemas`, `app/core/exceptions.py`) | none | validate, normalise | registration, pipeline |
| Settings (`app/core/config.py`) | read once at import, from the environment and `.env` | validators | all |
| OpenAPI patch, health, root (`app/main.py`, `app/routers/health.py`) | cached schema | GET | - |
| Migrations (`migrations/`) | schema of the database | upgrade, downgrade | `users` |
| Release workflow, version bump (`.github/workflows`, `scripts/`) | runs, releases and their tags, images, `pyproject.toml` | bump, check, merge, test, push, release, run again | GitHub, its registry |

How they interact: uvicorn runs one event loop per server process. Middlewares
and exception handlers run on it; `register`, `get_db` and the guards are plain
functions, so each runs in a thread of the pool with a copy of the request's
context. Several server processes share one PostgreSQL, which alone arbitrates
between their transactions. Records of all threads go through one bounded queue
to one listener thread; `configure_logging` may replace queue, listener and file by
others. Settings are read before anything else exists, migrations run outside the
servers, and releases are made by GitHub's runners.

What is hard (the list with lines is `hazards` in `PROJECT.json`): transactions
that overlap on the unique indexes and wait for each other; a commit that runs
after the response; errors while handling errors; crashes between flush and
commit; a client that is gone when its 201 comes; clocks that differ and claims that are cut to seconds; a row that changes
between two steps of a guard; a context variable that is reset before the last
record; a queue that is full exactly when the sentinel must go in; a second
pipeline beside a listener that never stopped; three foldings of one address; a
validator that reads what another one refused; a migration that dies half-way; a
version that was free when it was checked; runs that GitHub creates in any order.

## 2. Modules

| Module | Kind | Models |
|---|---|---|
| `UserDirectory` | abstract specification | what registration promises to clients |
| `Registration` | detailed specification | a registration from `get_db` to the end of its session |
| `RegistrationProofs` | proofs | invariants of `Registration`, and that it implements `UserDirectory` |
| `AuthGate`, `AuthGateProofs` | specification, proofs | tokens, guards and the account's row |
| `EngineCache`, `EngineCacheProofs` | specification, proofs | the unlocked engine cache |
| `RequestPipeline`, `RequestPipelineProofs` | specification, proofs | middlewares and exception handlers around an endpoint |
| `LogPipeline`, `LogPipelineProofs` | specification, proofs | queue, listener and shutdown of file logging, and configuring it again |
| `ReleasePipeline`, `ReleasePipelineProofs` | specification, proofs | version bumps and checks, merges, and the queued runs that push and release |
| `Migrations`, `MigrationsProofs` | specification, proofs | the two revisions, up and down, one transaction per command |
| `Settings` | operators | which environments start, and with which key |
| `UserSchemas` | operators | what UserCreate and UserUpdate make of a payload |
| `OpenApiPatch` | operators | the documented schema after `custom_openapi` |
| `Validation`, `ValidationProofs` | specification, proofs | a process that takes one input: settings, a payload, or the routes of its schema |
| `MC*` | model checking | sets and symmetry for TLC; no definition is replaced. `MCSequential` runs `Migrations` and `Validation` |

Operators whose comment begins with MUTANT are wrong on purpose: each is a
plausible bug in the definition that follows it, and `PROJECT.json` names the
property that notices it.

### Registration and UserDirectory

A request is a member of `Requests` with a payload `body[r]` and a server
`home[r]`. `pc[r]` follows the code:

| `pc` | Code | Actions |
|---|---|---|
| `new` -> `opened` | `get_db` up to its yield; no connection is taken yet | `Arrive` |
| `opened` | validation by `UserCreate` (FastAPI solves the dependency first), hashing | `RejectBody`, `HandlerRaises` |
| -> `inserting` | `begin_nested` takes a connection from the pool | `Checkout`, `PoolTimeout` |
| -> `flushed` | the INSERT adds its entry to the email index, then to the username index | `InsertEntry`, `Conflict` |
| -> `answered` | token, response model, 201 | `Respond` |
| -> `closing` | `db.commit()` after the yield | `Commit`, `CommitRaises` |
| `failing` -> `closing` | `except`: `db.rollback()` | `Rollback`, `RollbackRaises` |
| -> `done` | `finally`: `db.close()`; then an error is answered if nothing was | `Close` |
| -> `lost` | the server process dies | `Crash` |

`entries[r]` is PostgreSQL's side of the open transaction: an INSERT that meets
an uncommitted entry waits (`Held`), one that meets a committed row fails
(`Taken`). `Reap` is PostgreSQL ending the transaction of a client that is gone.
`CommitRaises` has both outcomes: the link may break before or after the commit
took effect. A server that crashes right after sending its COMMIT is `Commit`
followed by `Crash`.

`answer[r]` is the response that was sent, `heard` the requests whose client was
still there when it was. Sending is never an error: uvicorn discards what it sends
to a client that has gone, and the code after the send, the commit among it, runs
all the same (`Send`). So a client that heard nothing may have a row, namely when a
201 was on its way to it; if nothing was sent, because its server died or its
session failed first, there is none (`ErrorStoresNothing`). Its second attempt is
another request with the same payload, which meets that row and gets an honest 409.

The order "201, then commit" is that of the FastAPI the project locks (0.128): a
dependency with yield is left after the response has been sent, and, when the
endpoint raised, before the error response is sent. `UserDirectory` states what
remains true in spite of it: a 201, heard or not, is a *promise*, which is
exclusive (no stored row and no other promise has its identity) and is later
kept or broken; a request without any response may still be refused, but only as
long as no promise to it is open or kept, even an unheard one (`Unanswered`); a 409 is grounded in a stored row; nothing else changes the
directory. `CreatedIsPersisted`, which the code does not keep, is what would
forbid breaking a promise.

### AuthGate

Time is in ticks, `TicksPerSecond` to the second, and each server's clock runs
`skew[s]` ticks ahead of real time. `CreateAccessToken` cuts `iat` and `exp` to
seconds as PyJWT does; `VerifyToken` compares them with another server's clock
and the leeway; `Revoked` compares `iat` with the truncated
`password_changed_at`. `history` holds every version of the account's row;
`LoadUser` is the single read of it in a guard. `SetActive`, `SoftDelete`,
`SetRole` and `ChangePassword` stand for writers the repository does not have
yet (the columns exist and the guards read them), and are external. A token's
`born` and `life` are not claims: they record when it was really issued and for
how long, so that properties can speak of real time.

`ClockAssumption` includes `MaxSkew <= (Leeway - 1) * TicksPerSecond`: truncation
costs up to one second of the leeway, so clocks may differ by the rest.

### EngineCache

Every read and write of `_engine_cache_instance` and `_engine_cache_key` is a
step, and so is every call on an engine, because nothing locks them. An engine
is the number of its creation; `built` records the settings it was created for;
`use`, fixed at the start, says which threads use which settings.
Also modelled: `create_engine` raising (`BadKeys`), and the `AttributeError` of a
`dispose()` on a global that has become None.

### RequestPipeline

A request enters through the layers of the module's header and comes out as a
response or an exception; `kind[r]` says how it will end. `ctx` is the context
variable, `state` is `request.state`, `sent` is what the client got, `logged`
the records in order. The handler of last resort runs in Starlette's
ServerErrorMiddleware, outside both middlewares, and is called (for its logging)
even if the response has started; with `debug`, which each process reads once, it
is not called at all. The router's own 404 is Starlette's HTTPException; the
handler for FastAPI's, a subclass, does not see it, and only the middlewares label
it.

### LogPipeline

`pipes` is the sequence of pipelines `configure_logging` has made, each with its
queue, listener, file and drop counter; `attached` is the one whose handler is on
the root logger. Records are numbered within the pipeline they were made for; 0
is the sentinel. A thread's `Emit` makes the record, `Enqueue` or `Drop` hands it
over, to the pipeline it was made for even if another one is attached by then.
`Take`, `Write` and `ReopenFails` are the listener.

`CorrelationIDFilter` runs twice, on the queue handler in the thread that logs and
on the file handler in the listener's, and each time reads the context of its own
thread: `Stamp(context, id)` is its `if correlation_id`. The listener is started
outside any request, so its `context` has no id, and only that condition keeps
`Handled` from taking the record's id away. `emitted[n]` is the request record `n`
was made for, `stamped[n]` the id it had after the first filter, and the `id` in
`written` what stands in its line.

`CountDrop` has the three ends of a drop: counted, reported on stderr, or in a
report that was due and that stderr refused, after which `_dropped_count` starts
again at 0 although nobody was told (`refused`). `Write` may fail as well: an error
of the stream is swallowed by the handler (`ok` is FALSE, the record counts as
handled and is missing from the file), while an error of opening a closed file again
is not, and ends the thread (`ReopenFails`).
 `StopListener`, `Join`, `CloseFile` and `RemoveHandlers` are `shutdown_logging`, between whose steps other
threads go on; `Configure` and `ConfigureFails` come when it is over, because
`configure_logging` calls it first. A listener that did not get its sentinel goes
on beside the next pipeline, with its own queue and file. From the Python the
project pins (3.14): `QueueListener.stop` uses `put_nowait` for its sentinel, and
a closed FileHandler opens its file again when a record arrives. The handler's
lock makes `enqueue` one step.

### ReleasePipeline

`pulls` is the bag of open pull requests that passed the version check, `main` the
sequence of pushes, `run[c]` the run of push `c`, and `image`, `latest` and `tag`
what the registry and the releases hold. `Bump` is `scripts/bump_version.py`;
`OpenPull` is a pull request whose check passed (`pr-checks.yml`), also because `gh
release view` got no answer; `Merge` is a push. Unless it touches no watched path
GitHub creates a run for it some time later, in an order it does not promise
(`Create`). `Enter` is the concurrency group as GitHub implements it: one run works,
one waits, and one that comes cancels the one that waits. `turns` numbers the runs
as they enter the group; `latest` holds the turn of the run whose image has that
tag, so that a commit whose run is started again comes with a new turn. `Test` to `CreateFails` are the jobs of a run;
each call to GitHub can fail, and a push or a release that fails may have taken
effect. `blind` marks a run whose `gh release view` failed for another reason than
a missing release, which the workflow takes for "unique".

### Migrations

A command (`Begin`) is an `alembic upgrade` or `downgrade` to any version, and runs
the statements between the two versions one `Execute` at a time, in the one
transaction that `env.py` opens. `session` is what that transaction sees, `database`
what is committed; each holds the objects there are and `alembic_version`.
`Fails` and `After` are PostgreSQL's rules on dependencies. `Die` ends a command
before any statement or before its commit, and stands also for a statement that
fails: the model has no other step for one.

### Validation, over Settings, UserSchemas and OpenApiPatch

These parts are functions: nothing runs beside them, so each module defines the
operators and one property of an input. `Validation` instantiates the three; its
actions choose an input from the sets that are its constants, and its invariants
are the properties of that input. `MCSequential` gives the sets; since neither a
migration nor one of these inputs meets anything else, each of its behaviours is of
one of them.

* `Settings!Load` validates the fields in their order, hands the key's validator
  what `info.data` holds at that moment (nothing, when APP_ENV was refused, and
  then the development default), and refuses the whole if any field was refused.
  A text is a word, its case and its padding, because those are what
  `Environment._missing_` and the upper-casing validators look at; blanks are not
  stripped there, so a padded word is refused. A key has a stem for every rule of
  `validate_secret_key`, and two that break none: `random`, and `pattern`, which
  can be guessed (a word or a pair of characters over and over) and is accepted.
  `SecureWhenGuarded` therefore does not say that a key is good; it says that a
  process which starts runs in the environment it was told, with the key it was
  given, and in production and staging never without one, nor with one that a rule
  forbids.
* `UserSchemas` has strings over one character of each kind that Python's
  `lower()` and `strip()` and PostgreSQL's `LOWER()` treat differently, among them
  the Kelvin sign and the dotted I, which PostgreSQL folds or not according to the
  locale. Python folds the dotted I to two characters, a letter and a combining
  mark; here they are one, which no username and no rule on emails takes apart.
  `EmailStr` is pydantic's: it drops a display name (`Address`) and returns what
  email-validator makes of the address, the local part in NFC and the domain mapped
  by UTS 46 (`Normalized`), after `normalize_email` and before the database. For
  these there are an accented letter in both encodings and a fullwidth letter. Which
  addresses it refuses is modelled only as far as one @ inside goes, so the model
  accepts more than the library. That the stored form is a fixed point of all foldings is what lets
  `Registration` take folding to be one idempotent function.
* `OpenApiPatch` takes the schema FastAPI generates for a set of routes, always
  with the registration route, which declares the error envelope.

## 3. Runs

All bounds are in the `.cfg` files; the table says why they are enough.

| Run | Shows | Bounds |
|---|---|---|
| `registration` | unique identities, grounded refusals, no row unless a 201 was sent, pools never overdrawn, final answers; implements `UserDirectory` | 3 requests (a winner, a waiter, a third that meets either), 2 servers, 1 connection each so that `PoolTimeout` happens; payloads equal in both, one or no field, up to case, and an invalid one; each response heard or not. 1.1 million states |
| `registration_liveness` | every request ends, nothing stays held | 3 requests on one server with 2 connections, so that waiting for an entry and for a connection mix; each response heard or not; no symmetry. 400 000 states |
| `registration_persisted` | violation: 201 without a row | 2 requests |
| `auth_guard` | revocation, expiry and full lifetime across skewed clocks; admission on one current version; no downgrade | 2 servers, half-second ticks, skew up to the allowed second, 9 ticks: past lifetime, leeway and skew; 4 versions of the row, so that it can be stored, changed and changed back (the fourth only up to tick 5, constraint `LastVersionIsEarly`); negative, absent, short and long deltas |
| `engine_cache` | right engine, disposal, bounded race | 3 threads, 3 settings of which one is refused, 5 calls, used by one thread, by racing threads with one setting, or by all at will |
| `engine_race` | violation: an engine is lost without `dispose()` | 2 threads, 1 setting |
| `pipeline` | headers, ids, records and answers agree; one answer, and always one | 2 requests of any of nine kinds, each with a good, bad or no id, with and without debug mode |
| `pipeline_records` | violation: a record without id | 1 request |
| `logging` | each file is a prefix of what its pipeline accepted; ids; drops accounted for; logging never waits; a shutdown ends | 2 threads, one request id and none, queue of 2, 3 records for a first pipeline and 1 for a second: full queues, stops that fail, reopened files, a second pipeline beside a surviving listener; one line of each file refused by the disk (`MayRefuse`). At most one drop is in the counter when the next one comes; `DropsAddUp` covers every number. 570 000 states |
| `logging_stop` | violation: the listener survives a shutdown | the same |
| `release` | a green run has released its own commit; `latest` follows the order of the group; runs end | 3 pull requests, so that one works, one waits and one cancels it, their runs created in any order; 1 run started again; versions of numbers 0 and 1 from 1.0.1, which allow a minor and then a patch bump or the same version twice. 640 000 states |
| `sequential` | what starts, what is stored and what is documented; no statement of a migration fails, and `alembic_version` tells the schema | about 82 000 inputs: environments and keys at each side of every rule, in both sources; strings of up to 4 characters of 12 kinds for email (bare, or behind a display name) and username, with lengths from 2 to 3, and of up to 5 characters of the 5 kinds a password's rules tell apart; every set of 12 kinds of routes. 5 commands to any version, enough to go up and down both revisions twice with a command that dies in between; each may die before any statement; with and without an extension that was there before |

`MaxCalls`, `MaxRecords`, `MaxNow`, `MaxVersions`, `MaxTokens`, `MaxPulls`,
`MaxReruns`, `MaxPart` and `MaxCommands` are the only caps on otherwise unbounded
counters. `auth_guard` switches deadlock checking off because these caps, and the
constraints of `MCAuthGate` (nothing is explored once every request is answered),
end the behaviour; all others check for deadlock. One token and one request are
enough there, because tokens and requests do not affect each other.
Symmetry is used only in runs without liveness properties.

The uses of the engine cache: the server reads its settings once and its threads
race with them; tests change settings and clear the cache in one thread. Threads
that do both at once are explored too, but only `TypeOK` is promised of them.

### Fairness

* `Registration!Fairness`: weak fairness of each request's own progress (the
  thread pool runs its threads, `pool_timeout` fires, PostgreSQL decides waiting
  INSERTs) and of `Reap` (PostgreSQL notices a dead client by TCP keepalive).
  Nothing makes requests arrive, steps fail or servers crash. An INSERT waits
  only for an entry whose owner can go on, because every request takes the email
  entry first; the mutant without that order deadlocks.
* `RequestPipeline!Spec`: weak fairness of each request's task on the event loop.
* `LogPipeline!FairSpec`: only that a thread in a logging call runs. The disk may
  be stuck and the listener with it. `ShutdownEnds` names what it needs beyond
  that, `DiskResponds` and `ShutdownRuns`, as its hypothesis.
* `ReleasePipeline!Spec`: weak fairness of each run's own steps: GitHub creates
  the run of a push some time, starts the one that waits, and its runners take up the work there is and end a job that exceeds its time. Nothing makes
  pull requests appear or merge, or runs start again.

## 4. Proofs

All proofs are complete down to their leaves; they assume only the named ASSUMEs
of the modules, which TLC evaluates on its instances.

**RegistrationProofs** (from `ConstantsAssumption`: folding is idempotent, the
set of requests is finite, pools are not empty). None of the properties is
inductive alone. `UniqueIdentity` speaks of committed rows, but rows become
committed from open transactions, so the invariant `Exclusive` speaks of owning a
value, by a committed row or by an index entry. That `Commit` commits a request
that owns *both* its values is `Phases`, which ties the other variables to `pc`.
`ConflictJustified` needs the same of a conflict that is still on its way through
the rollback: `Grounded`. `IInv` is the conjunction with `TypeOK`,
`ErrorStoresNothing` and `PoolRespected`; it was model-checked before it was
proved. From it follow the theorems `IdentityIsUnique`, `ConflictsAreJustified`,
`ErrorsStoreNothing`, `PoolIsRespected`, `AnswersAreFinal`, and `Refinement`:
`Respond` maps to `Promise`, `Commit` to `Store`, the other steps that end an
answered transaction to `Break`, `Close` to `Refuse` or `Fail` or a stutter,
everything else to a stutter.

**AuthGateProofs** (from `ClockAssumption`). `Honest` bounds a token's claims by
its real times, `Stamped` does so for a password change, and `RequestOk` says
what each verdict implies about token and row. The arithmetic of `\div` is in
four lemmas (`Truncation`, `LaterSecond`, `SameOrEarlierSecond`,
`LeewayCoversSkew`). Theorems: `RevocationIsSound`, `NoTokenOutlives`,
`TokensLiveTheirLife`, `ServiceIsEntitled`, for every resolution,
skew, leeway and lifetime that satisfy the assumption.

**RequestPipelineProofs** (which cites no assumption). The properties speak of what was sent; the invariant `Ok` says, layer
by layer, what a request carries on its way there: its id in the state from the
first middleware on and in the context until the reset, no completion in the log
before `correlation_id_middleware` returns, and a log that tells the status of the
response after it. `Replace` reduces each step to `Ok` of the parts it replaces.
Theorems: `ResponsesLabelled`, `RecordsUnderOwnId`, `LogTellsAnswer`,
`AnsweredOnce`, for any number of requests and any ids.

**EngineCacheProofs** (from `CacheAssumption`: threads and settings are finitely
many, as in any process). The properties have two unrelated reasons, so `IInv` has
two conditional parts. Without overlap a thread is alone with the globals, and
`Alone` says at each of its steps how far they agree with each other: between the
two assignments of `_managed_engine` they do not. With one set of settings threads
race, and `Shared` counts engines against threads: until the key is set, each
engine has a thread that is about to set it (`Setters`); from then on nobody
becomes a builder any more, and there are no more engines than threads that are
past building (`Spent`). `RaceIsBounded` alone is not inductive: it does not say
that a thread about to build has not built before. Theorems:
`CallersGetTheirEngine`, `SwappedEnginesDisposed`, `RacersBuildOneEach`.

**LogPipelineProofs** (from `LogAssumption`: the queue has room for a record,
threads are finitely many). A file is a prefix of what was accepted because the
records handled, the one in the listener's hand and the queue up to the sentinel
are all that was accepted, in that order: `InOrder`. A record behind a sentinel is
never written, which is why the sentinel is in the invariant. `Flushes` says that
what was accepted before `stop()` comes before the sentinel, and `Life` how far each pipeline is: the attached one runs
until the shutdown stops it, every other one is closed, or its stop failed and its
listener goes on. One lemma per operation on one pipeline proves that it keeps
`PipeOk`; what it says of ids, `KeepsIds`, needs that the listener's context has no
id and that each record was stamped with its own. `Replaced` and `OnePipe` lift it
to the sequence of all pipelines. Theorems: `LinesKeepTheirId`, `FilesAreInOrder`, `StopsFlush`, `DropsAddUp`, for any
number of threads, records and configurations and any size of the queue.

**ReleasePipelineProofs** (from `ReleaseAssumption`). That a green run has released
its own commit rests on the concurrency group: between the duplicate check of a
run and its release no other run releases. `Group` says that one run is at work and
one waits, `Unreleased` that a run that saw its version free still finds it free,
`Pushed` that it has pushed its own image. For `latest`, `Behind` says that
the run that waits has a later turn than the one at work, and `Forward` that neither
is behind `latest`; the order of the commits does not come into it. Theorems:
`GreenRunsReleased`, `LatestFollows`, for any number of pull requests, runs,
repeated runs and versions.

**MigrationsProofs** (from `MigrationsAssumption`). That `alembic_version` tells the
schema says nothing of a command under way, so the invariant speaks of the open
transaction too: `Made(v, t, n)` is what there is before statement `n` on the way
from version `v` to `t`, and `IInv` says that the transaction has exactly that,
apart from an extension that was there before. `UpStep` and `DownStep` go
through the twelve statements. Theorems: `StatementsSucceed`, `SchemaIsTold`, after
any number of commands.

**ValidationProofs** (from `ValidationAssumption`, which says what the inputs are made
of: keys of the model's six kinds, of any length, or none; strings of the model's
characters, of any length; reserved names that match the username's pattern;
routes of the model's kinds, with the registration route). Each invariant is
about one input, so it follows from what its operators do:

* `GuardedIsSecure`: a word is accepted only as what it spells, the default key is
  validated like any other and is a placeholder, which a guarded environment refuses,
  and no validator changes a key.
* `StoredFormStays`: an address in a lower-cased string is lower-case
  (`AddressIsPart`), NFC and UTS 46 bring no capital back and change nothing the second
  time (`NormalOne`, `NormalizedStays`), so that `EmailStr` returns what it has
  returned before (`EmailStays`). The result of `lower()` has only characters that `lower()`
  leaves alone, and the rules exclude blanks, so that a second pass changes nothing
  (`Canonical`); for `strip()`, a string and its folding have their first and last
  character that is not blank at the same places (`StripAlike`), so that, character
  by character, a name the database takes for a reserved one is one (`NotReserved`).
  First and last exist because numbers are well-founded (`Least`, `Greatest`).
* `PatchedSchemaIsClosed`: what FastAPI generates is closed under references,
  rewriting 422 to 400 adds one to a model that is there, and a model is pruned
  only when nothing refers to it.

The inductive invariants of `Registration`, `EngineCache`, `LogPipeline`,
`ReleasePipeline` and `Migrations` were model-checked on the runs' instances before
they were proved.

**Only model-checked**: the liveness properties `EveryRequestEnds`,
`NothingStaysHeld`, `EveryRequestAnswered`, `LoggingNeverBlocks`, `ShutdownEnds` and
`EveryRunEnds`, because liveness under fairness is out of the prover's reach. Every
other property of a passing run is a theorem.

## 5. What is not modelled

* Password hashing and JWT cryptography: library calls without state; a token is
  ours or it is not.
* Log formatters and the sanitizer, headers other than id and security: text.
* Health and root endpoints: no state; the checks of the database and of Redis are
  TODOs in the code, so the degraded answer cannot be reached.
* Of the settings: text fields without a rule, `ai_temperature`, and how text
  becomes a number. Of the schemas: which addresses EmailStr refuses (a library; what
  it returns is modelled), and the response schemas (declarations). Which payloads are valid stays a constant of `Registration`.
* Columns of the table, the offline mode of Alembic, and the pgvector types
  registered for autogenerate: nothing the properties tell apart.
* `bump_version.py` reads the file and replaces it by one rename, alone; only its
  arithmetic is modelled. Labels and test jobs of `pr-checks.yml` gate merges.

## 6. Findings

Each is a run with `expect: violation`; `PROJECT.json` quotes the lines.

1. A 201 is sent before the commit (`registration_persisted`).
2. A race of first uses loses an engine without disposing of it (`engine_race`).
3. The record of an unhandled exception has no correlation id
   (`pipeline_records`).
4. With a full queue `shutdown_logging` leaves its listener running
   (`logging_stop`).

More exceptions are written into the models instead of runs of their own. In
debug mode (`APP_DEBUG`) a 500 is Starlette's debug page, which has neither id nor
security headers, although `app/main.py:221` speaks of all 500s: the second
disjunct of `EveryResponseLabelled`. And HTTPExceptions, unhandled exceptions and
refused hosts are answered outside the envelope that `app/schemas/errors.py:16`
calls unified; no property speaks of the envelope.

`validate_secret_key` looks "for obvious weak patterns" (`app/core/config.py:207`) and
says that a key "must not be a repeating pattern" (line 210), but refuses only one
character repeated and five listed keys: a repeated pair or word starts in production.

Of the release workflow, `GreenRunReleased` and `LatestFollowsGroup` say what holds;
these are the cases they leave out:

* `release.yml:14` says of concurrent releases "queue them instead", but a group
  holds one waiting run, and a newer push cancels it. If that push touches only
  tests, its paths filter sees nothing to release, and the cancelled commit is
  released with the next application change only (`README.md:592`: "Automatic
  release on merge to `main`").
* A `gh release view` that fails for whatever reason counts as "unique"
  (`release.yml:88`), so the image of a released version can be pushed over.
* The tag of a release goes to the head of main, not to the commit that was built
  (`release.yml:122` has no `--target`).
* `latest` follows the order in which runs enter the group, not that of the commits:
  a run started again later takes it back to its older commit, and so does an older
  push whose run GitHub creates after that of a newer one.
* A pull request whose `gh release view` gets no answer passes the version check
  (`pr-checks.yml:79`); the duplicate check of its run is the one that counts.
* A failure between push and release leaves an image without a release.

## 7. Plan

Done: Registration with its abstract specification, AuthGate, RequestPipeline,
EngineCache, LogPipeline (with a second configuration), ReleasePipeline, Migrations
and Validation, model-checked and proved. To do:

1. `SignupSession`: Registration composed with AuthGate (the token of a promise
   that is broken opens nothing).
