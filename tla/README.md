# A TLA+ model of codex-api-server

`codex-api-server` (under `src/`) is a FastAPI service that lets authenticated
clients run turns of the Codex agent over HTTP, either to the end
(`POST /v1/chat`, `/v1/conversations`, `/v1/threads`, ...) or as a stream of
server-sent events. One asyncio process serves all requests; a second kind of
process, the administrator's command line, changes the same SQLite database.

This directory holds the model of its core: the modules, the TLC
configurations, the proofs (TLAPS) and `PROJECT.json`, which ties every
definition to the lines it translates, every property to a plausible bug that
breaks it, and every hazard of the code to the properties that guard it.

    tlc -config AllHandlers.cfg MCCodexServer     # one run
    tlapm CodexServerProofs.tla                   # the proofs of one module

## 1. Inventory

| component | code | state | operations |
|---|---|---|---|
| Job limiter | `app/concurrency.py` | a counter of the requests inside, a cap | `slot()`: enter, refuse with 429, exit |
| Thread locks | `app/codex/service.py:106-124`, and the `async with` and `try/finally` around every turn | one `asyncio.Lock` per thread id, made on demand, never removed | `_lock_for`, acquire, leave, cancel while waiting, `if lock.locked(): lock.release()` |
| Turn registry | `app/codex/service.py:77-98` | thread id -> handle of the streamed turn | `register`, `unregister`, `get` |
| CodexService | `app/codex/service.py` | none of its own | `chat`, `chat_start`, `chat_resume`, `start_thread`, `resume_thread`, `stream_turn`, `interrupt_turn`, `archive_thread` |
| Thread endpoints | `app/routes/threads.py` | the position of each request | create, message, the two streams, delete, interrupt, list |
| Chat endpoints | `app/routes/chat.py` | the position of each request | chat, start, continue, delete, list |
| Tables | `app/db/threads.py`, `app/db/chat.py` | a row (owner, archived, last turn) per thread or conversation | insert, touch, archive, delete, list |
| Database connection | `app/db/connection.py` | an `asyncio.Lock` before one `sqlite3.Connection`, used from worker threads, with its one transaction | `run` |
| API keys | `app/dependencies.py`, `app/db/api_keys.py`, `app/db/clients.py` | rows of clients and keys | lookup, the checks, `touch_last_used` |
| Administrator's commands | `cli/users.py`, `cli/api_keys.py` | none; each command is a process | create, rotate, revoke, enable, disable |
| Codex backend | the SDK, outside the repository | threads and turns | start, resume, archive a thread; run, interrupt a turn |
| Migrations | `app/db/migrations.py` | the tables, the column added in version 3, the stamped version | `run_migrations`, by the server at its start and by every command |
| Audit and middleware | `app/middleware.py`, `app/db/audit.py`, `_mark_audit` | marks on a request, one row | `dispatch`, `_audit`: the row is written when the response starts |
| Errors and request bodies | `app/errors.py`, `app/schemas.py` | none | exceptions to status and code, for the client and for the audit row |
| Lists | `list_threads`, `list_conversations` and their queries | the client's cursor | one page |
| Account, health, me | `app/routes/` | none | read only |
| Repository paths, configuration, login of the backend account | `app/dependencies.py:19-54`, `app/config.py`, `app/codex/auth.py` | none | validation, declarations, I/O |

**Interaction.** An authenticated request checks who owns the thread it names
(a database read), enters the limiter's slot, and inside it calls CodexService,
which takes the lock of the thread and drives the backend. A plain request
wraps that call in `asyncio.wait_for`; it leaves lock and slot *before* it
writes its row. A streaming request runs a generator (`stream_turn`) inside a
generator (`_stream_response`) inside the response; each `yield` suspends all
of it until the client has taken the chunk, and the row is written *inside*
slot and lock. The streamed turn's handle is in the registry, where the
interrupt endpoint, which takes neither slot nor lock, finds it.

**What is hard.**

- *Suspension.* Every `await` lets other requests in: ownership is checked
  before an await, the turn starts after it; a row is written after the lock
  that ordered the turns was released.
- *Ways out.* A turn ends by return, an SDK error, a timeout while waiting for
  anything (the lock included), a client that leaves at an await or at a yield,
  a deadline found to have passed between two chunks, or the end of the
  process. Each has to give back slot, lock and registry entry exactly once.
- *Late finalisation.* `_stream_response` may return or be dropped with the
  inner generator suspended: the slot is free, while the thread's lock and
  registry entry stay until the generator is finalised.
- *A release that does not ask.* `stream_turn` releases its lock "if locked",
  whoever holds it.
- *Other processes.* Keys and clients change while a request is between their
  lookup and its checks; commands may die between two statements; server and
  commands migrate the same file.
- *Threads that cannot be cancelled.* Cancelling `Database.run` frees its lock,
  while the worker thread goes on with the connection and whatever transaction
  is open on it.
- *Two tasks per response.* The handler (for a stream its generator) and the
  middleware run side by side; the audit row is fixed when the response starts
  and holds back the head of the answer, while marks are still being made.

**What makes each component correct.** Limiter: counts the requests inside,
never above the cap, and is given back on every way out. Locks: one holder,
first come first served, no waiter forgotten. Registry: maps a thread to the
turn that runs on it, and to nothing else. Endpoints: one turn at a time per
thread; a turn only on the caller's own threads, with the sandbox of the table
it was found in; an answer "ok" means the row says so; a confirmed deletion is
final. Keys: nobody is let in whose key and client were not good at one moment;
a revocation is final. Database: a call that is not run into by a stray one is
all or nothing, and no transaction is left behind. Responses: the answer, the
audit row, the stream's events and the tables tell the same story. Migrations:
the stamp is true, and a broken-off run can be repeated. Lists: no row twice,
none missed that was there all along.

## 2. The modules

| module | models | state |
|---|---|---|
| `Domain` | the sets of requests, threads and clients | - |
| `JobLimiter` | `JobLimiter.slot()` | `inUse`, and `slots`, the requests inside |
| `ThreadLocks` | the locks of `CodexService` | `want`, `holding`, `ahead` |
| `TurnRegistry` | `TurnRegistry` | `registry`, `tracked` |
| `ThreadStore` | the two tables behind `Database.run` | `rows`, `writes`, `stray`, `leaving`; history: `disturbed` |
| `CodexBackend` | the backend as `service.py` relies on it (external) | `mode`, `creator`, `archivedThreads`, `turn`, `earlier` |
| `CodexServer` | all handlers of threads and chat, with CodexService; composes the five above | `pc`, `handler`, `client`, `thread`, `victim`, `late`, `answer`, `restarts` |
| `TurnGate` | abstract: what clients are promised of turns (alone on their thread, on the caller's own threads, "ok" only after a turn) | `owner`, `caller`, `place`, `phase` |
| `ServerProperties` | the properties of `CodexServer`, the refinement mapping to `TurnGate`, and the inductive invariant | - |
| `ApiKeys` | `require_auth`, the key and client tables, the commands | `clients`, `keys`, `known`, `step`, `old`, `new`, `auth`, `presented`, `found`; history: `blocked`, `spent` |
| `Database` | `Database.run`: calls, the lock, worker threads, sqlite3's transactions | `queue`, `kind`, `job`, `result`, `open`, `pending`, `log`, `dirty`; history: `asked`, `disturbed` |
| `Responses` | a request from its arrival to its answer, with errors, audit marks and row, and a stream's events | `route`, `at`, `raised`, `marks`, `late`, `upstream`, `saved`, `chunk`; `dispatch`, `answer`, `entry`, `log`, `unaudited`; `got`, `events` |
| `Migrations` | `run_migrations` by several processes | `tables`, `column`, `version`, `writer`, `at`, `crashes`; history: `met` |
| `Pages` | the list endpoints and a client that goes through the pages | `row`, `filter`, `limit`, `cursor`, `listed`, `at`; history: `steady` |
| `MCCodexServer`, `MCApiKeys` | symmetry for TLC; the other modules are run as they are | - |
| `CodexServerProofs`, `OwnershipProofs`, `RecordsProofs` | theorems: of limiter and locks by themselves, then of the server: who holds what; whose threads turns run on (with `TurnGate`); what the tables say. Each extends the one before | - |
| `ApiKeysProofs`, `DatabaseProofs`, `ResponsesProofs`, `MigrationsProofs`, `PagesProofs` | theorems of one module each | - |

Operators introduced by a comment "Mutant:" are variants of the definition
below them with a plausible bug; nothing uses them. They serve to show that
each checked property does depend on the code.

### How CodexServer corresponds to the code

One asyncio task serves a request, and a step of the model is what that task
does from one point where it *really* suspends to the next; `pc[r]` names that
point (the list is in the module). An `await` that never suspends is no
boundary: an uncontended `asyncio.Lock` is acquired in the same step, and
`async with` exits, registry updates and synchronous code belong to the step
they follow. In particular a plain request leaves lock and slot, and takes its
place in the queue for the database, in one step (`RunReturns`).

| `pc` | the task is suspended in |
|---|---|
| `checking` | the owner lookup, `_require_owned_thread` / `_conversation` |
| `admission` | just before `job_limiter.slot()` |
| `opening`, `resuming`, `starting` | `thread_start`, `thread_resume`, `thread.turn` |
| `waiting` | `lock.acquire()` |
| `turn` | `thread.run`, or the next event of a stream |
| `announcing`, `relaying`, `failing`, `finishing` | a `yield` of a stream: status, event, error, completed |
| `closing` | the last chunk of a response, or the unwinding of a dropped one |
| `saving`, `marking` | `Database.run` for the row of the turn or of the deletion |
| `archiving`, `interrupting`, `signalling` | `thread_archive`, the registry lookup, `handle.interrupt()` |
| `zombie` | answered and out of the slot; the generator is not finalised yet |

- A handler is named as in the source (`create_thread`, `chat`, ...).
- `late` holds the requests whose `CODEX_REQUEST_TIMEOUT` passed. A plain
  request in CodexService then ends by `PlainTimeout`; a stream by
  `StreamTimeout` at an await (`wait_for` cancels the generator, whose
  `finally` clauses run) or by `ChunkSentLate` at the top of the loop (the
  generator stays suspended).
- `GeneratorEnds` is the two `finally` clauses of `stream_turn`; for an
  existing thread the `acquire` is outside the `try`, so a task cancelled there
  only leaves the queue.
- A `WriteRow` is performed in the order in which tasks asked for the
  connection (`writes`); reads need no place in it.
- A write may raise: a command can hold the database for longer than
  `busy_timeout`. A plain request then ends as an internal error, a stream breaks
  off with its generator suspended (`SaveFails`, `MarkFails`).
- A write that is cancelled while it waits is withdrawn. One that has begun goes
  on without its task (`stray`): it lands at any later time (`StrayLands`; its
  worker is then in `leaving` until it lets go of the connection), or raises or is
  rolled back (`StrayEnds`).
- Stray workers share the connection and its one transaction with whatever call
  comes next. A write next to one may be lost although the call returns (`Save`,
  `Mark` with `rows` unchanged: the request is answered "ok"), or may land
  although the call raises (`SaveFails`, `MarkFails`), and an owner check may find
  a row that is not committed yet (`OwnersSeen`). `disturbed` remembers the
  requests one of whose calls met a stray worker.
- The backend's call and reply are one step, except for a turn, which is
  `requested`, `running` and then ended, independently of who awaits it.
- `Restart` clears everything in memory and ends every task; the tables stay,
  and any subset of the running turns dies with the process.
- Requests that fail validation change nothing and are left out. `CodexServer`
  starts from an authenticated request; `ApiKeys` models how it becomes one.

### How ApiKeys corresponds to the code

Each SQL statement is one transaction. Rows of clients and keys are never
deleted and a key never changes its owner, so a command that checks for a row
and then updates it is one step. `create` and `rotate` write, then print; they
are processes with a step per statement, that may die in between. `known` is
the set of raw keys that were printed, the only keys a client can present.
`require_auth` reads key and client with one SELECT (`FindByHash`), decides in
a later step on what it read (`CheckKey`; only the expiry is compared with the
present) and then touches the key. `blocked` is a history variable: the requests
whose key and client have at no moment been usable since the request came.

### How Database corresponds to the code

A task that calls `run` is in `queue` until it returns, raises or is cancelled;
the first in the queue has the lock. `job[t]` is how far its worker thread has
come with one function of `app/db`: a read is one SELECT, a write is what
Python's sqlite3 makes of `with conn: conn.execute(...)`: it looks whether a
transaction is open, sends BEGIN if not, sends the statement, looks again at the
exit of the `with`, and sends COMMIT or ROLLBACK. Between any two of these the
interpreter may switch to another thread. As long as calls are not cancelled
these steps are invisible to anybody; with a stray worker they are not, and
`disturbed` records whom it may have hit. The SELECTs that a few functions put
around their write (`archive_thread`, `create_thread`) are left out here; the one
that matters, whether there is a row to archive, is `FindsRow` in `CodexServer`.
`CodexServer` keeps of all this what it does to a call: nothing when no stray
worker is about (`UndisturbedIsAtomic` and `StoredInOrder` are its entitlement to
a write in one step, in the order of the queue), and any combination of
returning or raising with written or not written when one is.

### How Responses corresponds to the code

One request, to any kind of endpoint (`route`). `at` is the position of the
handler, or of the generator of its stream, in its own task; `dispatch` that of
the middleware in another. A handler raises (`raised`) or responds; at that
moment the middleware makes the audit entry from the marks of `request.state`
as they are then (`Respond`), inserts it, or fails to (`InsertRow`), and
only then lets the answer through (`SendHead`). An exception no handler knows
passes the middleware, is audited as 500 `internal_error`, and is answered
outside of it. Answers of `/health` are not audited. What asks for no key
(`Open`) is answered by `AnswerOpen`: `/health`, the pages `/docs` and
`/openapi.json` that FastAPI serves by default, the 307 for a slash too many or too
few, and CORS preflights; all but `/health` leave a row without a client.
`RefuseUnread` has the other rows without one: an unknown path (404), a method
the path does not have (405), a body that cannot be read (400) or parsed (422).
Which error may come from where is the table `Refusals` and the actions of the
working handler; status and code are translated by `StatusOf`, `CodeOf` and
`MapCodexException`.

### How Migrations corresponds to the code

`at[p]` is the statement that process `p` comes to. `with conn` begins no
transaction for CREATE and ALTER, so each commits by itself; only the write of
the version is in one. The four initial files are those earlier programs
leave: new, version 1, version 2 without the column, and up to date or
later. `Crash` stops a process between two statements, and `Start` runs it again
(the server by `restart: unless-stopped`). "others" stands for the tables and
indexes of version 1, which no later statement asks about.

### How Pages corresponds to the code

A client asks for pages with the last id it was given as the cursor and stops
at one that is shorter than the limit. Rows of both tables are covered: a thread
is created and archived, a conversation created and deleted. Ids are numbers for
their order only; a new row may come anywhere in it.

### The specifications that are implemented

`LimiterSpec` (a request enters the slot below the cap, and only a request that
is inside leaves it) and `LocksSpec` (one lock per request at a time; the
release that does not ask is run by a holder only) state how the two shared
objects are meant to be used. `CodexServer`, with all its ways to enter and
leave them, is shown to implement both: checked as properties (in
`same_thread`, where three requests meet on one lock: with two, a release that
takes the holder's lock away cannot be told from a restart), and proved
(`ServerUsesLimiter`, `ServerUsesLocks`). The variables of the component are
variables of the composition, so the mapping is the identity and the content is
in the disciplines of use.

`TurnGate` is a specification of another kind: four variables that know of no
lock, slot, registry, row or generator. A turn request arrives, a thread is
opened for its caller, a turn runs if it is the only one on a thread that the
caller owns, it leaves, and may then be confirmed; a crash refuses whoever has
no answer. `ServerProperties` maps the server to it (`Gate`, with `Phase(r)`
computed from where the task of `r` is, and `owner` from the backend's view of
who started a thread) and `TurnGateSpec` is checked in `all_handlers` and proved
(`HandlersImplementGate`): one turn at a time, on own threads, and no "ok"
without a turn, as one step-by-step property over all handlers. Requests that run no turn are invisible to it.

## 3. Runs

| run | checks | what it shows |
|---|---|---|
| `same_thread` | `SlotsExact`, `SlotsFollowTasks`, `RegistryExact`, `OneTurnPerThread`, `NobodyWaitsInVain`, `DeletedStaysDeleted`, `LastTurnForward`, `LimiterSpec`, `LocksSpec`, `NoOvertaking` | three requests (stream, message, interrupt, delete, either table) of two clients on one thread with two slots: the slot is left once on each way out, the registry names the lock's holder, turns never overlap and are served in order, limiter and locks are used as specified, no waiter is forgotten, a confirmed deletion that met no stray worker is final, and `last_turn_id` never goes back although it is written without the lock, except by a stray write |
| `all_handlers` | `ServerInv`, `NothingLeaks`, `FreshThreadsUnlocked`, `TurnsStayWithOwner`, `InterruptsOwnTurn`, `AnsweredIsRecorded`, `TurnGateSpec` | all ten handlers, two clients, one restart: the inductive invariant, clean-up, isolation of clients and of the two tables, a confirmed turn that met no stray worker is recorded, and the handlers implement `TurnGate` |
| `liveness` | `SlotsReturned`, `LocksReturned`, `TurnRequestsServed` | under fairness, and a backend that may never answer, every slot and lock comes back and every turn request ends |
| `api_keys` | `BlockedIsRefused`, `KeysKeepTheirClient`, `RevocationIsFinal` | authentication against concurrent commands: no request is let in whose key was never usable since it came; principals and rotated keys keep their client; a request whose key is revoked before its lookup is never let in, although `enable` accepts a revoked key |
| `database` | `UndisturbedIsAtomic`, `OnlyStraysDisturb`, `NoTransactionLeftOpen`, `StoredInOrder`, `CallsEnd` | three calls, two of which may be cancelled anywhere: what a stray worker may break (a write that ran next to it), and what not (all other calls, the state it leaves the connection in, the lock) |
| `responses` | `AnswersAreAudited`, `RowsAreTrue`, `SuccessIsSaved`, `StreamsTellTheirEnd`, `TurnsAreAnswered` | every answer has its one row with the same status and code, unless the insertion failed; a row claims no success that was not stored, and one without a client bears no endpoint's mark and tells of a success only where no key is asked for; success is told after the write; a stream ends with a word; every turn request is answered |
| `migrations` | `StampIsTrue`, `MigratedIsStamped`, `FailsOnlyInCompany`, `VersionNeverFalls`, `EveryoneMigrates` | three processes, two crashes, every initial file: no stamp on half a schema, no failure of a process that is alone, and everybody comes through in the end |
| `pages` | `ListedInOrder`, `SteadyRowsListed` | four ids, pages of one or two rows, any changes in between |

Four runs show where the documentation says something that the code does not
do (section 6): `abandoned_turns`, `stream_at_capacity`, `shared_connection`,
`stream_timeouts`.

### Bounds

| run | requests | threads | clients | cap | other |
|---|---|---|---|---|---|
| `same_thread` | 3 | 1 | 2 | 2 | one existing thread or conversation; about 1.5 million states |
| `all_handlers` | 2 | 2 | 2 | 2 | one existing, one to be started; one restart |
| `liveness` | 2 | 2 | 1 | 2 | no symmetry |
| `api_keys` | 1 | - | 2 | - | 2 keys, 2 commands |
| `database` | 3 calls | - | - | - | 2 of them can be cancelled |
| `responses` | 1 | - | - | - | `MaxEvents` = 3 events before the last ones |
| `migrations` | - | - | - | - | 3 processes, `MaxCrashes` = 2 |
| `pages` | - | 4 rows | 1 | - | `MaxLimit` = 2 |

The exact constants are in each `.cfg`. Three requests are enough for a holder,
a waiter and a third that is refused, interrupts, or queues behind the waiter;
with a cap of 2, two of them are inside and one is turned away. Two threads
separate "the same lock" from "another lock", and the one that is not there yet
can be named by anybody before it is started. One restart separates before from
after. Two strays and a third call let one call be disturbed while another
is not. Two requests never share anything in `Responses`, so one is enough; its
database is a write that may fail. Three migrating processes allow two to meet
while a third comes alone. Four rows and pages of two give three pages, with a
row on each side of every cursor. What these instances cannot show for larger
ones is, for the properties listed there, what section 5 proves for every value of the
constants. `MaxRestarts`, `MaxEvents`, `MaxCrashes` and `MaxLimit` are the only
bounds on what the code does not bound; every request is served once, so all
else is finite by itself. All runs check for deadlock: `AllServed`, `Quiet`,
`Answered`, `AllMigrated` and `Listed` are the only final states, and the
administrator's commands never end.

Requests and clients are symmetric (no action names one), which the runs of
`MCCodexServer` and `MCApiKeys` without liveness use.

## 4. Fairness

`FairSpec` assumes weak fairness of

- `ServerStep(r)`: the event loop runs a task that can go on. A lock that is
  free wakes its first waiter, a passed deadline fires `wait_for`, the database
  performs the next write, a dropped generator is finalised (the event loop's
  async-generator hooks and reference counting see to it);
- `DeadlinePasses(r)`: time passes for whoever is in a slot;
- `TakesChunk(r)`: the client of a stream takes the chunk that was sent to it,
  or its connection ends. The code does *not* enforce this: the deadline is
  looked at only between chunks, so a client that keeps the connection and
  does not read pins its slot. That assumption is listed among the hazards.

Nothing is assumed of the backend, which may never answer, and no client has to
leave. `FairDbSpec`: the event loop runs its tasks, and the operating system
runs the worker threads. `FairResponseSpec`: handler and middleware run, time
passes, and a client that stays takes its chunks. `FairMigrationsSpec`: processes
run, and one that stopped is started again; neither a timeout on the file nor a
crash has to happen.

## 5. Proofs

Assumptions: `DomainAssumption` (the "none" values are none of the real ones),
`LimiterAssumption` (`MaxJobs` is an integer, of any sign: the configuration is
not validated), `ServerAssumption` (the handlers are among the modelled ones),
`KeysAssumption`, `DatabaseAssumption` (the cancellable calls are calls),
`MigrationsAssumption` ("nobody" is no process) and `PagesAssumption` (ids are
ordered, and a table has finitely many). Nothing else is assumed; in particular
no other set has to be finite (that the requests inside the limiter and those in
the queues of the locks are finitely many is part of what is proved).

| theorem | says |
|---|---|
| `LimiterCountsExactly`, `LocksAreFifo`, `LocksHaveAFirst` | of the components alone, under their specifications |
| `ServerInvariant` | `Spec => []ServerInv`, the inductive invariant |
| `SlotsAreReleasedOnce`, `NothingIsLeaked`, `RegistryIsExact`, `FreshThreadsAreUnlocked` | what follows from it |
| `ServerUsesLimiter`, `ServerUsesLocks` | `Spec => LimiterSpec`, `Spec => LocksSpec` |
| `ServerWithinCap`, `ServerServesInOrder` | the components' theorems, lifted to the server |
| `WaitsAreNotCircular` | `Spec => []NobodyWaitsInVain`: the first in the queue of a lock holds it and waits for no lock, or can take it now |
| `OwnerInvariant` | `Spec => []OwnerInv`, inductive beside `ServerInv` |
| `TurnsAreOwned`, `InterruptsAreOwned`, `TurnsRunAlone` | turns and interrupts stay on the caller's threads and in their sandbox; no two awaited turns of one thread |
| `HandlersImplementGate` | `Spec => TurnGateSpec`: every step of every handler is a step of `TurnGate` or a stutter |
| `GateKeepsTurnsApart` | of `TurnGate` itself: in all its behaviours turns run apart, on threads of their callers |
| `RecordsInvariant` | `Spec => []RecordsInv`, inductive beside the two |
| `DeletionsAreFinal`, `AnswersAreRecorded`, `LastTurnMovesForward` | what a client was told is in the tables and stays there, for requests that met no stray worker; `last_turn_id` goes forward, as an action property |
| `AuthenticationIsSound`, `KeysStayWithTheirClient` | a request is let in only if its key and client were usable together at one moment since it came; principals and rotated keys keep their client |
| `RevokedKeysStayOut` | `KeysSpec => []RevocationIsFinal` |
| `OnlyStraysRunTogether`, `TransactionsAreEnded`, `CallsAreAtomic`, `WritesAreInOrder` | of `Database`, for any number of calls: two workers run together only if one was cancelled; no transaction stays open; an undisturbed call is all or nothing, and committed in its turn |
| `ResponseInvariant` | `ResponseSpec => []ResponseInv`, inductive |
| `EveryAnswerIsAudited`, `AuditTellsTheTruth`, `SuccessIsStored`, `StreamsSayHowTheyEnd` | of `Responses`, for every endpoint, failure and number of events |
| `StampIsAlwaysTrue`, `WhoMigratesIsStamped`, `AloneItSucceeds`, `VersionOnlyRises` | of `Migrations`, for any number of processes and crashes |
| `PagesDescend`, `PagesMissNothing` | of `Pages`, for any ids, limit and changes: no row twice, none missed that was there all along |

**The invariant.** None of the resource properties is inductive by itself: that
`ResponseEnds` leaves the slot exactly once depends on the slot being held in
`closing`, which depends on every step that leads there. `ServerInv` says, for
each task, what it holds *at each position* (`TaskInv`): whether it is in its
slot, whether it surely holds, may hold, or does not hold the lock of its
thread, and whether its turn is registered. It also says that the queues are ordered
(`QueuesOrdered`), that the registry is exact (`RegistryExact`, without which
`unregister`, which pops whatever is there, could drop another turn's handle)
and that rows exist of started threads only (`RowsKnown`, without which nobody
knows that a fresh thread's lock is free). With it the argument is local: a
step of one task leaves the part of the others alone (`OthersKeep`) because
`ReleaseIfLocked` is run by a holder, and a lock has one holder. There is a lemma per
action, and each establishes at the same time that the step is one of
`LimiterNext` and of `LocksNext` or a stutter, which gives the two
implementation theorems.

**The waiters.** That nobody waits in a circle is the part of `LocksReturned`
that needs no fairness. A queue is kept as the set `ahead` of each request, so
that it has a first is a fact about finite sets: `LinesFit` says that finitely
many are at the locks and that who is ahead of somebody ahead of me is ahead of
me; a request with the smallest `ahead` on its lock (`WFMin`) has nobody ahead.
`ServerInv` then says of that request that it holds the lock and is past
`waiting`, or is at `waiting` without a lock, where `LockGranted` may take it on.

**Owners.** `OwnerInv` (in `OwnershipProofs`) settles two moments: a thread that
is started gets its creator and sandbox for good, and is opened by one request
only (`OpenedOnce`); a request that passed the owner check found a row, and rows
name the creator (`RowsOwned`). From then on `OwnerFits` keeps `Entitled(r)`,
through every await, up to the turn and beyond; so does the handle an interrupt
has in hand (`VictimIsOwn`), which was looked up when the registry was exact and
is used an await later. `TurnsRunAlone` joins it with `ServerInv`: two turns of
one thread would both hold its lock, except that `chat` takes none; its thread
is ephemeral, was opened by this request alone, and no row names it. The
refinement of `TurnGate` then goes step by step: the guard of the gate's start
of a turn is `TurnsRunAlone` in the next state, and `Entitled` gives its owner.
That `TurnGate` is worth implementing is `GateKeepsTurnsApart`, by an invariant of
its own (`GateInv`): a thread that may be opened has no owner, so nobody runs on
it.

**The tables.** `RecordsInv` is about rows that are written *after* slot and lock
were left. `WritesFit` says that the queue of writes holds every task that waits
to write, once, and turns of one thread in the order in which they began;
`TurnsInOrder` that whatever is written, or is on its way, began before the turn
that runs now. Together they make the next write of `last_turn_id` a later
turn's, unless it is a stray one, which `CameLate` accounts for. `DeletionFits`
says what a deletion knows at each of its steps, and that whoever got past the
owner check finds its row there or a confirmed deletion, and `OpenersFit` that
nobody can delete what is not written yet: hence no insertion ever brings a
deleted row back. Of a disturbed request the tables may lack what it was told,
so that `Unheard`, `DeletionFits` and the two properties speak of the others only
(`UndisturbedCalls`: such a call writes exactly what it says; `DisturbedForGood`:
who was disturbed stays so). The restriction is needed: without it TLC finds a
deletion answered "ok" next to a stray worker whose rollback kept the row.

**The answer.** `ResponseInv` relates the two tasks of a request. `DispatchFits`
fixes the order response, row, head (one row, equal to the entry); `MarksFit`
says which marks the handler has left at each of its places and which exception
goes with which marks (`RaisedFits`), and that a request without a principal has
left none but the failed authentication; from which the entry is true at the moment
it is made (`EntryFits`), and later marks do not matter to it. `StreamFits` and
`EndFits` say what the generator has sent at each place of its loop. To be
inductive it has to know how far the upstream generator is: not started before
the slot is entered, finished while the row is stored, and whatever is sent once
it is finished says how the stream ended.

**The keys.** `KeysInv` relates what a request found to its row as it is now:
owners never change, and a row found good was usable when it was read, which
takes the request out of `blocked` for as long as it lives. `CommandFits` does
the same for the keys that a command has in hand. `RevokedKeysStayOut` rests on
what `spent` remembers: a request whose key was revoked before its lookup either
waits for it, with the key revoked for good, or found a revoked row.

**The connection.** `LockInv` says that only the first in line at the lock has
got beyond waiting, and that whoever has a result has left the line; so two
workers at once mean that one of the calls was cancelled, which is
`OnlyStraysDisturb`.
`TransactionInv` gives every open transaction to a worker that has yet to
leave it: whoever writes finds or opens one and ends one, so that the last to
leave cannot leave one open, whichever thread's it was. `Alone` describes the
connection as an undisturbed worker finds it at each of its steps, and makes
atomicity a matter of single steps. `OrderInv` adds the order: the line at the
lock is in the order of the calls, whoever gets to the connection finds nobody
waiting who came before (`LineInv`), so that an undisturbed call begins when all
undisturbed ones before it are over (`TurnsInv`), and a statement is executed once
(`OnceInv`).

**The migrations.** The invariant says what is surely in the file at each
statement a process can come to; nothing is ever taken out, so that the
statements of the others cannot disturb it. `FailsOnlyInCompany` needs that a
process which has met nobody has read the file as it still is.

**The pages.** A page is a prefix of `Descending`, which is a `CHOOSE`: nothing is
known of it until a descending enumeration is shown to exist. That is an
induction over finite sets, and since an induction theorem with an operator as a
parameter cannot be cited, it is done with a smallest counterexample
(`SmallestMember`): take out its greatest element, and put that before an
enumeration of the rest (`GreatestExists`, `DescendingExists`).
`PageProperties` says what one SELECT returns, and `PagesInv` is inductive with
two additions to the properties: the cursor is the last id listed
(`CursorAtLast`), and a row that matched all along still matches and is listed
once the cursor is past it (`NoGap`).

**Only model-checked.** All safety properties of the runs are proved. Liveness
(`SlotsReturned`, `LocksReturned`, `TurnRequestsServed`, `CallsEnd`,
`TurnsAreAnswered`, `EveryoneMigrates`) is out of the prover's reach, as is
`ENABLED`, on which weak fairness rests; the four properties of the runs of
section 6 are false. `GateInv` and all inductive invariants
were checked by TLC on the instances of section 3, or smaller ones, before they
were proved; only `ServerInv` is kept as an invariant of a run, since the
theorems establish the others.

## 6. Where the documentation and the code differ

1. `concurrency.py` calls the limiter a cap on concurrent Codex turns. It caps
   the turns that are *awaited*: a timeout or a disconnect leaves the slot, and
   nothing interrupts the turn (`abandoned_turns`). This rests on the external
   model of the backend.
2. "Requests that arrive once capacity is full fail fast with 429." A stream
   has sent its 200 before it enters the slot; it breaks off
   (`stream_at_capacity`).
3. The docstring of `Database` says that the connection is never handed to two
   threads concurrently. A cancelled call frees the lock while its worker still
   uses it (`shared_connection`). What that can and cannot break is the subject
   of the run `database`.
4. The audit log must record timeouts. A stream's row is written when its 200 is
   sent; the mark of the timeout comes later and is in no row
   (`stream_timeouts`). The same goes for its "completed" and its errors.

Without a run of their own, since what the documentation promises is less
definite or follows from the points above:

- Only streamed turns are registered, so the interrupt endpoint answers
  `interrupted: false` while a plain turn of the thread runs (`LookUpTurn`).
- The owner of a new thread is stored after its first turn: if that fails, times
  out or is cut off, the thread exists in the backend and belongs to nobody
  (`PlainTimeout`, `RunRaises`, `SaveFails`, `Restart`).
- `rotate` revokes the old key before it prints the new one: for a moment, or
  for good if the command dies, the client has no key (`RotateRevokes`).
- A CodexError of `handle.interrupt()` is mapped by nobody and becomes a 500
  (`InterruptRaises`).

## 7. What is left out, and the plan

**Not modelled.** Validation and resolution of repository paths (sequential,
without state; `Responses` has their refusal), configuration (its values are the
constants), the login of the backend account (interactive I/O), the contents of
answers, of events and of the read-only endpoints, request ids, durations and
addresses in the audit log, and the reading of the log and of the lists of the
command line.

**Kept apart.** `ApiKeys`, `Database`, `Responses`, `Migrations` and `Pages` are
not composed with `CodexServer` into one module. An authenticated request keeps
its principal whatever becomes of the key, so that the product of `ApiKeys` and
`CodexServer` would have no interaction to check but a larger state space.
`Database` has the statements of a call and the transaction that workers share;
`CodexServer` has their effects on a call as a choice (section 2), wider than the
statements allow: it does not tell which stray worker rolled a write back.
`Responses` follows one request; what requests do to each other is
`CodexServer`'s.

**The plan.** Every component that was to be modelled is, and every safety
property of the runs has its theorem. What remains with TLC is liveness. What a
later change of the code would ask for first is a model of the account endpoints
if they begin to change anything, and of a limit on how long a client may leave
a chunk of a stream unread, which would make the assumption `TakesChunk`
unnecessary.
