# A TLA+ model of the Claude proxy server

The repository is a FastAPI server that lets the employees of a company share a
set of Claude accounts.  A request with an employee's key (`ccp_...`) is given to
the account with the fewest open connections, sent to Anthropic with the token of
that account, streamed back and logged.  Admins create, change, delete and unban
accounts, and manage users, while requests run.

The server runs four uvicorn worker processes (`src/Dockerfile`).  They share
PostgreSQL (accounts, users, request log) and Redis (connection counters and
rate limits); each has a pool of httpx clients of its own.  Inside a worker the
asyncio handlers interleave at every `await`.  What is hard about the program is
what happens between those awaits, and that is what this project models.

Paths below are relative to the repository; `application/...` etc. stand for
`src/application/...`.

## Inventory

| Part | State | Operations | Talks to | What makes it correct |
|---|---|---|---|---|
| Account state managers (`infrastructure/state/`) | a counter and a rate limit per account, in Redis or in memory | acquire, release, mark, restore, clear, is_rate_limited | Redis | the counter is the number of open connections; the Redis manager does what the in-memory one does |
| Routing (`application/routing/`) | none | `select` | state manager | load stays balanced though counters are read before they are raised |
| Request proxying (`application/services/proxy_service.py`) | a `RequestLog` per request | `proxy_request`, `_sync_response`, `_stream_response` | routing, state manager, client pool, account table, request log, Anthropic | every acquire is released once; reactions to 429 and bans stick; log rows mean what they say; requests end |
| Account table (`infrastructure/repositories/account_repository.py`) | `claude_accounts` | list_available, create, update, update_status, delete | PostgreSQL | no lost row, no resurrected row |
| Account administration (`application/services/account_service.py`) | none | create, update, delete, unban | account table, client pool, state manager | overlapping calls leave table, pool and Redis in agreement |
| Client pool (`infrastructure/http/client_pool.py`) | a client per account, one pool per worker | initialize, get, add, refresh, remove, close_all | httpx | an account in the table keeps its client in a running worker, unless httpx refuses its proxy, of which an admin is told |
| Users and keys (`application/services/user_service.py`) | `users` | create, update, rotate, get_by_api_key, ensure_admin_exists | PostgreSQL | a key opens for its user only; one first admin |
| Server (`api/lifespan.py`, `api/dependencies.py`) | the above, per worker | boot, shutdown, probe job | everything | workers boot whatever the others do |
| Request log and statistics (`infrastructure/repositories/log_repository.py`, `application/services/stats_service.py`) | `request_logs` | create; usage of a user, overview, accounts, models | PostgreSQL | token numbers are what the stream said last; pages are consistent and history stays |
| Database sessions (`core/database.py`) | 20 + 10 connections per worker | get_db | PostgreSQL | requests do not wait for each other in a circle, lose answers or leave connections behind |
| Probes (`application/services/probe_service.py`) | none | a job every five minutes | PostgreSQL | it ends |
| Crypto, configuration, HTTP surface | none that is read back | | | |

The hard behaviours, each listed at its line under `hazards` in `PROJECT.json`:

- *Interleaving.*  `select` makes a Redis round trip per account and the INCR of
  `acquire` comes after the last one.  `release` is two Redis commands.  A 429 is
  a write to Redis and one to PostgreSQL; `unban` is the same two the other way
  round.
- *Read, wait, write.*  `update_account`, `update_user` and `rotate_api_key` save
  a whole object they read some awaits earlier.
- *Exits outside `try`.*  `decrypt_token` and `pool.get` run after `acquire` and
  before the `try`; a generator that is never started runs no `finally`; a
  cancelled one cannot await in its `finally`.
- *Failures.*  Any call to Redis or PostgreSQL may fail, with or without effect;
  Redis may come back empty (its service has no volume); a worker may die.
- *A full pool.*  A request keeps its database connection through the call to
  Anthropic, or comes back for a new one after it, and there may be none.
- *Two sources, two queries.*  Token numbers come from several events of a stream,
  a usage page from two queries with other commits in between.
- *Several processes.*  The pools of four workers, one table; four workers that
  boot on an empty table.
- *Validated late.*  `proxy_url` is any string.  What httpx makes of it shows when a
  client is built: in an admin call that has committed it already and, in a refresh,
  taken the old client out; and at the next boot of every worker.

## Modules

```
AccountState <-- RedisAccountState               the two state managers (refinement)

ConnectionLedger <-- ProxyService, ProxySystem   what acquire and release are for (refinement)

AccountStore <-- LeastConnections <-- ProxyService <---+
      ^                                                +-- ProxySystem
      +---------- AccountService <---------------------+

UserService          DatabaseSessions          RequestLog
```

Each has an `MC...` module with the values of constants that a `.cfg` cannot
write (no MC module changes a definition), and, where there are theorems, a
`...Proofs` module.  Faulty variants of operations stand under a heading of
their own, before the operation they are a variant of: no specification uses
them, they are the bugs the properties are there to catch.

**AccountState** is what the interface promises, as the in-memory manager keeps
it under its lock: atomic operations on `connections` and `until`.

**RedisAccountState** is the manager the server uses, a Redis command to a step.
`conn` is `conn:<id>`, `expiry` the deadline of `rl:<id>` (its TTL added to the
clock), `pc` and `acct` where the callers are between `acquire` and the two
commands of `release`.  `Restart` empties Redis.  Time is counted in ticks,
`TicksPerSecond` to a second, because `int()` drops fractions.

**AccountStore** is what the later modules share: `status` (the row), `conn` and
`limited` (Redis), `pool` (per worker, the proxy a client was built with).
`Malformed` are the proxies httpx refuses; `lifespan` raises if one of the rows it
loads has one (`Bootable`, `BootPool`).  It uses
the atomic counter of AccountState, which RedisAccountState implements as long as
Redis keeps its data.  A rate limit is there or not; when it expires is open.

**LeastConnections** is the choice of an account: `List`, a `Filter` per
`is_rate_limited`, a `Score` per `get_connections`, then `Acquire`.  The SELECT has
no ORDER BY, so the loops go through the rows in any order, and ties of
connections and priority go either way.

**ProxyService** is the life of a request, from one await to the next (the list
of labels is in the module).  `Replies` is all Anthropic can do; the code tells
nothing else apart.  A stream differs from a sync request where the code differs:
a stream is released by the generator, does not raise on an error status, keeps
its status when it fails.  `RedisFails`, `DatabaseFails`, `CancelStream` and
`AbandonStream` are what can go wrong at every await.  A request whose connection
no `release` will give back ends as `lost`, any other as `done`.

**ConnectionLedger** is the abstract specification of what proxying does to the
counters: a request opens one connection at most (`OpenConnection`), gives back
that one at most once (`CloseConnection`, a plain `- 1`: nothing is clamped), or is
given up on the way (`GiveUp`), which leaves an open one open for ever.
`KeepsLedger` in ProxyService says that the handlers implement it, `Stage` being
what a label of a handler means there.

**AccountService** is the admin calls, a transaction or a pool operation to a step.
SQLAlchemy keeps only weak references to loaded objects, so `repo.update` reads the
row again, and its commit writes the columns that differ from that second read;
the first read may be stale by then.  A create or an update ends in `CreateClient`
(`ClientPool._create_client`), which raises for a malformed proxy: the call has
`failed`, what it committed stays, and after the pop of a refresh there is no client
(`UpdatePop`, `UpdateBuild`, `CreateAdd`).  `aclose()` may raise, and so may any
statement or Redis command (`CallRaises`).  A call
needs a worker that is `up`; `WorkerDies` ends the calls of a worker and drops its
pool, `WorkerBoots` builds a new one from the table, which it cannot as long as a
malformed proxy is among the rows it loads.  What an ended call knew is dropped
(`Forget`), so that it does not tell states apart.

**ProxySystem** puts both together with worker deaths: a dead worker's requests
stay counted (`lost`), its admin calls stop half-way, and nobody is served by it until
a boot gets through (`ServerBoots`).  Only a worker with a request or a call to lose
dies here (`ServerDies`): without one a death changes the pool alone, as in
`admin_calls`, and would double the states.  `CalmSystemSpec` is the same server while Redis and PostgreSQL
answer and no worker dies: admin calls still change and delete accounts under the
requests.

**UserService** is the user calls, with the same read-modify-write, and
`ensure_admin_exists` of the workers that boot.

**DatabaseSessions** is the pool of one worker.  `out` is the set of sessions that
have a connection; a request has one session (`Session`), takes a connection with
the first statement of a transaction (`Connect`), gives it back with `Commit` or
`Close`, and may time out while it waits.  The four kinds differ in how long they
keep it: a request that does not stream through the upstream call, a stream not at
all (`ExitEarly`), an admin call or a page until its commit, the probe job for its
only SELECT.  What the statements do is in the other modules.

**RequestLog** is where the numbers in the statistics come from.  A stream receives
lines and, once it has ended, parses them one by one (the loop of
`_extract_usage_from_sse`; no other handler runs meanwhile, but none touches what it
reads either).  A line is what the code tells apart: usage at the top, usage inside
`message`, or an exception.  A row takes the date on which its transaction began,
as `now()` does.  `Totals` and `Breakdown` are the two queries of the usage page,
`Visible`, `UserRows` and `AccountRows` the rows the pages count.  Token columns are
a set, so the two cache columns behave like `input_tokens` and `output_tokens`.

`map` in `PROJECT.json` gives the lines each definition stands for.

## Runs

| Run | Instance | What it shows |
|---|---|---|
| `redis` | 3 callers, 2 accounts, 5 ticks of half a second, Redis may restart at any time | Until it does (`wiped`), `ExactCount`: the counter is the number of holders, and `ImplementsAccountState`: every command is an operation of AccountState, a restored limit ending up to `TicksPerSecond - 1` ticks early.  Always, `NeverOvercounts`, `NegativeIsTransient`, `IdleMeansZero`: counters are too low, never too high, negative only inside `release`, and right again once the account is idle. |
| `routing_burst` | 3 handlers, 2 accounts of different priority, 6 open connections | `Balanced`: stale counters cost at most one connection per concurrent handler. |
| `proxy` | 2 requests, 2 accounts, one unreadable token, any subset of the clients | `DetectedLeavesRotation`, `SyncLeaksEarly`, `AnsweredSyncIsLogged`, and under fairness `EveryRequestEnds`. |
| `admin_calls` | 3 calls on 1 account, 2 workers that die, 2 proxies of which httpx refuses one; every statement may fail | `ClientsKept`: a running worker loses the client of an account in the table only through an update of it that fails in `ClientPool.refresh`.  `RefusalsAreNoticed`: a refused proxy is not in the table with every call on its account answered.  `DeletedStays`. |
| `users` | 2 calls, 2 users, 2 workers, 4 keys | `EveryKeyWorks`, `FirstAdminOnly`, and under fairness `BootsEnd`. |
| `system` | a sync and a streaming request, 1 admin call, 1 account, 2 workers that die; every call to Redis or PostgreSQL may fail | `ConnAccounting`: a counter is the number of handlers that hold a connection or lost it.  `CleanLogMeansOk`: a row with 200 and no error is a success.  `KeepsLedger`: every step is one of ConnectionLedger or does not concern it. |
| `sessions` | 3 requests of any kinds, 2 connections | `StreamsHoldNothing`; `SyncAnswersSurvive`: a full pool loses neither the mark of a 429 or a ban nor the log row of another answer, if the request does not stream; and under fairness, with nobody ever timing out, `EveryRequestEndsClean`. |
| `request_log` | 1 stream of up to 2 lines of 6 kinds, 1 other request, 2 accounts, 2 days | `UsageIsLastWord`, `TokensMeanWhole`: what the rows say.  `BreakdownCovers`, `RowsNameAccounts`, `HistoryKept`: what the pages show while rows are written and accounts deleted. |
| `proxy_ban` | 1 request | violated: a stream's 401/403 is not noticed (README.md:11). |
| `proxy_recovers` | 1 request, fairness | violated: a rate-limited account never comes back by itself (README.md:11). |
| `admin_other_worker` | 1 call, 2 workers | violated: a new account has a client in one worker only (README.md:326). |
| `system_stale` | 1 request, 1 call | violated: an update that overlaps a 429 makes the account available again (README.md:11). |

Each module's first invariant is its type invariant.  Every property has a faulty
variant under `mutants` that breaks it.

**Bounds.**  An account's counter is disturbed by two parties at a time (the one
that reads and the one that writes), so two or three handlers per account show
every kind of overlap; two accounts are what it takes to choose, and to see that
one account's request leaves the other alone.  Three admin calls let one call
overtake two others.  `MaxOpen` stops the burst when an account has six
connections, twice the number of handlers; no other run reaches it.  `MaxTime`
stops the clock after two and a half seconds: a limit of up to two seconds set at
the start runs out, a restored one has a whole or a half second left.
Four keys serve two boots and two rotations.  `system` has one account because
nothing in it relates two, and one request of each kind (`OneOfEach`), because what a
handler does to a counter depends on its own kind only.  No proxy is malformed there:
refusals concern the calls and the pools, which `admin_calls` has, and a request sees
no more of them than an account without a client, which `proxy` has.  The theorems
below are for any number of accounts, requests of any kinds and any `Malformed`.  In `sessions`
two requests can fill the pool while a third waits, and the requests are
interchangeable but for their kind, so that only ordered assignments of kinds are
tried (`KindsInOrder`).  In `request_log` the six lines are one of each kind the
parser distinguishes, among them those the mock of the repository sends; two of
them show every way one can overrule, complete or cut off the other, and one
midnight is enough to fall between any two steps.  `MaxLines` and `MaxDay` stop
streams and the calendar; the proofs hold for any.

**Deadlock** is checked everywhere.  `Quiescent`, `BurstFull`, `AdminQuiescent`,
`SystemQuiescent` and `AllServed` are the states in which the server has nothing
to do.

**Fairness.**  `CalmSpec` has weak fairness of each handler's own steps and of
key expiry, `UserSpec` of each worker's boot.  asyncio runs a ready task, every
httpx read has a timeout (`REQUEST_TIMEOUT_SECONDS`, client_pool.py), an answer of
Anthropic has an end, Redis expires keys, and the process supervisor of uvicorn
restarts a worker that exited.  `DbSpec` has weak fairness of each request's steps: a connection that
is free is given to somebody who waits, Python collects an abandoned session; the
30-second timeout of the pool is not fair, so that nothing depends on it.
No fairness is assumed of clients, failures, deaths or admins.  `BootsEnd` says that every
worker comes up at some time, which leaves out workers that die over and over.  No strong fairness is used.

## Proofs

The theorems hold for every value of the constants: any number of accounts,
requests (a finite set: `RequestsAssumption`, `DbRequestsAssumption`), workers,
users, calls and connections, streams of any length, and with every failure.

- **RedisAccountStateProofs.**  `NoOvercount`, `NegativesPass` and `CountersHeal`
  hold whatever Redis loses.  Their invariant is `Healing`: types, `NeverOvercounts`
  and `NegativeIsTransient` together.  `IdleMeansZero` is not inductive (an idle
  account may become busy and idle again); it follows from the two, which bound
  the counter of an idle account from above and from below.
  Until Redis is wiped it is `Exact`: counters are exact and nobody clamps, for a
  holder is counted and its DECR cannot go below 0; `WipedForEver` lets both
  stages share one history.  `RedisImplements` is the refinement: initial states
  map to initial states, every step to a step or a stutter.  The proof uses the
  assumptions on ticks and retry-after values.
- **ProxyServiceProofs.**  `Accounted` (ConnAccounting) over `ProxyTypeOK`: every
  step is neutral, charges an account with a request or discharges one
  (`StepKind`), and each kind keeps the count (`ChargeKeeps`, `DischargeKeeps`,
  `NeutralKeeps`).  `CleanLog` is proved from `LogInv`, which says for every label
  what the log entry may contain at that point: a status of 0 before
  `release` comes with an error, a 200 without an error with an `ok`.
  `DetectedStaysOut`, `SyncLeaks` and `SyncIsLogged` are about `CalmSpec`, and need
  no fairness.  Their invariant is `CalmProxyInv`.  `CalmOK` says how far a request
  can be without an answer, and that it passes the INSERT of its row on its way from
  an answer to the end; `BornOK`, that a request works on rows that were in the table
  once, so that a row that is missing at the INSERT was deleted; with
  every account in the table, `DetectedLeavesRotation` is inductive by itself
  (`ReactionStep` for the handler that reacts, `RowStep` for the others: a request
  turns a row to `rate_limited` or `banned` or leaves it).
  `ProxyKeepsLedger` is the refinement: `StepKind` gives the effect of a step on the
  counters and `StageStep` where it leads; together they name the step of the
  ledger (`LedgerStep`).  That a DECR is never clamped is `HolderCounted`, from
  ConnAccounting.
- **LeastConnectionsProofs.**  `BurstIsBalanced` (Balanced) needs what the handlers
  have read as part of the invariant.  `SpreadInv` counts the handlers that are about
  to raise the higher of two counters further (`Tempted`): for every level v between
  the counter of b and the higher one of a, as far as a is above v, so many handlers
  are not among those that may still choose a because they read at most v there.
  Nobody who looks now is tempted (`LookingTemptsNobody`), and who chooses a spends
  his temptation.
- **ProxySystemProofs.**  The theorems about requests and those about admin calls
  for the whole server, with worker deaths.  The two sides meet in `status`, `limited`
  and `pool` only.  `SystemInv` (counters, log) is kept because admin calls leave
  `conn` and the handlers alone and a worker's death moves requests to `lost` or
  `done`; `AdminInv` (types, `DeleteInv`, `RefusalInv`) because requests leave the
  calls alone and let rows age as rows do (`SystemRowLife`: inserted once, deleted once).
  `DeathKeeps` and `DeathLedger` are the deaths: a `GiveUp` of the handlers of that
  worker for `SystemKeepsLedger`, the end of its calls for `SystemClientsKept` and
  `SystemRefusalsNoticed`.  `CalmSyncLeaks` and `CalmSyncIsLogged` are about `CalmSystemSpec`,
  from the invariant `CalmInv` of ProxyServiceProofs, which does not mind accounts that
  are created and deleted; these two and `CalmInv` were model-checked on the instance
  of `system` before the proof.  `DetectedLeavesRotation` is not stated there: an unban
  or a stale update (run `system_stale`) is meant to, or does, undo a reaction.
- **AccountServiceProofs.**  `DeletedStaysDeleted`, and `ClientsAreKept` from
  `DeleteInv`: a call that is about to delete a row found one, and one that is
  about to remove a client finds the row deleted.  So of all steps that empty a
  seat (`SeatStep`) only a pop, which leaves the account `Rebuilding`, and a failed
  refresh meet an account in the table; other workers' pools are out of reach
  (`OtherWorker`).  `RefusalsAreNoticed` is not inductive: of a call on
  its way it does not say whether it will fail.  Its
  invariant `RefusalInv` says that for every refused proxy in the table there is a call
  that will fail over it or has failed (`Notices`); who writes a row becomes such a call
  (`WriterNotices`) and remains one (`NoticeStep`), dead or alive (`DeathOfCalls`).
- **UserServiceProofs.**  `KeysWork` from `KeyInv`: the halves of a key stay
  together (`Whole`: rows, copies and loaded rows are pairs, and pairs that differ
  in one half differ in the other (`PrefixAssumption`), so a commit writes both
  halves or none), and no key is held for two users (`NoneShared`).  `OneFirstAdmin` from `FirstInv`: as
  long as there is no first admin nobody serves and the table is empty.

- **DatabaseSessionsProofs.**  The invariant `KeepsConn` says, for each label, that a
  request which does not stream still has the connection it authenticated with until
  its first commit after the call.  That gives `SyncAnswersAlwaysSurvive`, which
  promises the mark of a 429 or a ban, or else the log row, and no more: the commit of
  the mark gives the connection back.
- **RequestLogProofs.**  `LastWordIsLogged` is the correctness of the parser for
  streams of any length.  Its loop invariant (`Parsed`) says that before line n the
  token numbers are the last word of the lines before n; `OneMoreLine` is one turn
  of the loop, `LoopEnds` its two exits.  `Kept` (rows stay, and lose their account
  only when that is deleted) gives `HistoryIsKept`, and `BreakdownAlwaysCovers`
  through `RowsStayVisible`.

Only model-checked: the liveness properties (`EveryRequestEnds`, `BootsEnd`,
`EveryRequestEndsClean`), which are beyond the prover.  Every other property of a
passing run is a theorem.  The four violated properties are not theorems of
anything, as the runs show.

## What the models show about the code

Besides the four violated runs, the models reach these states by design of the
code; no property denies them because the repository makes no clear statement:

- A connection is lost for ever when `decrypt_token` or `pool.get` raises, when
  a stream's client goes before the first byte or during `finally`, when the
  DECR fails, when a worker dies.  `ConnAccounting` says these are all the cases.
- A retry-after that is not a positive integer makes the reaction to a 429 raise
  before it marks anything.
- `max_connections` is stored and shown; nothing compares a counter with it.
- One update that sets `proxy_url` to something httpx refuses (`''`, a URL without a
  known scheme) is answered with a 500, has changed the row, and takes the account's
  client away in that worker: `refresh` pops and closes the old one before it builds
  the next (`client_pool.py:34-39,60-69`).  Until an admin changes the row, no worker
  that dies comes back, because `initialize` raises (`client_pool.py:20-22`,
  `lifespan.py:38`).  `ClientsKept` allows the loss, `RefusalsAreNoticed` says that
  some call on the account was not answered; nothing tells which proxy it was later.
- An admin call that fails half-way leaves what it had done: an account without a
  client, a deleted row with a client, an available row with a rate limit in Redis.
- Two overlapping updates of an account may leave a worker with a client for the
  proxy the table no longer has.
- A rotation or an update of a user that overlaps a deactivation writes
  `is_active` back; an update that overlaps a rotation writes the old key back
  (`how_to_connect.md:170-171` and the dialog in `templates/admin/users.html:108`
  promise more than that).
- When the pool of database connections is full, a stream that was answered 429
  times out before it marks its account in the table, or ends without a log row; so
  does a request that does not stream after its mark, for the log row only; a
  call that committed may time out before it reads its row back, so that an admin
  sees a 500 for what was done (of a rotated key, for the only copy of it).  30
  long requests that do not stream are enough to fill it.
- A request whose `x-request-id` is longer than 64 characters or whose model name is
  longer than 100 is served but not logged.  A row of a request that does not stream
  carries the date of its authentication, so the numbers of a day may grow after
  the day is over.
- `release` in Redis is negative for an instant after data loss.

## Not modelled, and why

- Request bodies, headers and formatting: data nothing here depends on.  One thing
  was seen while reading: `MAX_PROMPT_LOG_CHARS` (`README.md:158`) limits a copy of
  the prompt that is then dropped (`proxy_service.py:88-93`), not what is stored.
- The sums, sorting and names in the statistics, health, metrics, HTML pages:
  computed from what is modelled, or read by nothing.
- `probe_account`: it changes nothing, and the job that should call it
  (`api/lifespan.py:63`) passes three arguments to a constructor that takes two, so
  it raises each time.  The job is a user of the pool in DatabaseSessions.
- Logins: an access token is signed and not stored, and its user is looked up with
  every request.  The table `refresh_tokens` has no code.
- `list_by_user` has no caller (`README.md:205` names a route that does not exist).
- `close_all` and the rest of the shutdown: the process ends there.
- nginx, the databases and Anthropic: external; how they fail is modelled where
  they are called.
- A SQL session that is used after a failed commit, and prefix collisions of keys
  (48 random bits).

## Plan

Built so far, in this order: state managers, account store, routing, request
proxying, administration, the composed server, users and first admins, database
sessions, request log and statistics.

Next:

1. *Redis data loss in ProxySystem*: NeverOvercounts in place of ConnAccounting, and a
   ledger whose counters may be lost.
2. *Proofs about two parts at once*: the counter of AccountStore as the abstract
   counter of RedisAccountState, so that the theorems of ProxySystem hold with
   `release` in two commands.
3. *Lifespan*: the steps of the boot against a table and a Redis that change
   meanwhile (its SELECT and the clients are one step here), shutdown with open
   streams.
