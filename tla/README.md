# Verification of fastapi-asyncpg-template

TLA+ models of the parts of this backend where several processes share state:
API workers (FastAPI on asyncio), Celery workers, the Celery Beat process,
PostgreSQL and Redis.  TLC checks the models on small instances, TLAPS proves the
main results for every size.  `PROJECT.json` holds the tables: runs, mutants,
the map from definitions to source lines, hazards, findings, theorems.

## 1. The system

A request passes the middlewares, a route with its dependencies (user, scopes, API
key), a service and a DAO, which runs SQL through `DataBase` (asyncpg pools).
Services use Redis through `RedisClient` for caching, locks, streams, pub/sub
and token lists.  Work that may wait goes to Celery; Celery Beat submits periodic
tasks.  Every process runs its own event loop: code between two `await`s is atomic
in its process, and nothing is atomic across processes but single SQL statements,
transactions and Redis commands.

| Component | Source (`src/api/...`) | State | Operations | Hard behaviour | What makes it correct |
|---|---|---|---|---|---|
| Idempotent routes | `core/idempotency.py` | two Redis keys per idempotency key | look up, lock, run, store, release | interleaved retries, crash with a lock, lock that expires under a slow handler | the lock excludes; a retry is not executed again; a replay is genuine; a lock does not stay |
| Event bus | `core/events/bus.py` | a Redis stream, a consumer group, a lock per event | publish, start, stop, read, process, acknowledge | lost replies, stop inside a batch, trimming, swallowed errors | handlers start once per event; an entry is in one hand and once; nothing waits for ever |
| Periodic schedule | `core/celery_scheduler.py`, `service/`, `dao/`, `admin_views/periodic_task.py` | rows, a version in Redis, the schedule in the beat process | create, update, delete, notify, tick, reload | version read after the rows, unnotified writes, errors that look like an empty table | the schedule becomes the enabled rows |
| Dead letter queue | `core/celery_app.py`, `service/`, `dao/`, `admin_views/dead_letter_task.py`, `tasks/dlq_tasks.py` | rows; messages at the broker | record a failure, edit, merge, retrigger, delete, purge | overlapping bulk requests, delete before send, repeated statements | a job is neither lost nor duplicated; edits count |
| jsonb columns | `core/database.py` (codec), DAOs, schemas | arguments, backup codes | write, read, concatenate | values are serialized twice | a reader sees what was written |
| Database pools | `core/database.py` | pools by region, health, latency | create, choose, check, run with retries, close | a health loop that ends, a retried write, a read pool used for writes | writes reach a primary; a sick replica is avoided and comes back |
| Cache, API keys | `core/cache.py`, `service/`, `dao/`, `admin_views/api_key.py` | rows, cached rows, a throttle lock | read through, invalidate, verify, create, update, rotate, delete | refill with a stale row, failed eviction, eviction of a hash read too early | a revoked key stops working, at the latest after the TTL |
| Authentication | `apps/user/v0/service/auth.py`, `core/auth.py`, `core/dependencies.py`, `dao/user.py` | tokens and their version, sessions, blacklisted tokens, 2FA secret, backup codes, challenges, replay marks, OAuth states, identities | log in, refresh, sudo, revoke, change the password, impersonate, 2FA set-up, challenge, renewal, Google login | check and write of a backup code in two statements, refresh and revocation at once, overlapping callbacks | a backup code is used once; an outdated token is out, and one in use can be listed; an account is linked with the right user |
| Notifications | `apps/notification/` | connections per user, pub/sub subscriptions, device tokens | connect, disconnect, send, broadcast, prune | two connections at once, a listener that ends | a connected user is subscribed and listened for |
| Webhooks | `apps/common/tasks.py`, `utils.py`, webhook service, DAOs, routes, admin view | endpoints, logs | register, edit, delete, deliver, log, receive | endpoint changed or deleted under a delivery, headers encoded twice | each delivery is logged |
| Migrations | `src/migrate.py` | schema_migrations, scripts | up, down, one file, check | two processes at once, a record written twice, files that come late or are edited | a recorded migration was applied, in order |
| Users, roles | `apps/user/v0/service/`, `dao/role.py`, `dao/user.py`, admin views | roles, permissions, assignments, `token_version`, a cached hash | create, update, delete, assign | several statements without a transaction | permissions are those of one edit; no token keeps a lost scope |
| System configuration, versions | services, DAOs, routes, admin views | rows with a cache in front | read, seed, change | stale cache, keys in the caller's spelling | as for the cache; a read changes nothing |
| Audit log, other admin views, feature flags, storage, shell | `core/audit.py`, `core/feature_flags.py`, `admin_views/`, `service/s3.py`, `main.py` and the rest of `core/` | none of their own | I/O | start-up and shut-down order | |

Interactions.  The event bus carries user and notification events to listeners
that submit Celery tasks.  Beat runs what the schedule says, `clean_old_dlq_tasks`
among it.  Failed Celery jobs become dead letters and come back by a
retrigger.  All of them use `DataBase`, which repeats a statement when its
connection breaks, and Redis, whose client repeats a command in the same case.

## 2. Modules

### Idempotency
`IdempotentRoute.custom_route_handler`.  `pc[r]` is the await that request `r` is
at; `lock` and `response` are the two Redis keys of each idempotency key.  The
code stores the constant `"in-progress"` in the lock, the model stores the
request that set it, so that properties can name it; no guard reads it.  Each
Redis call is an action with a failing twin, because the connection can break
before or after the server has applied the command.  `AcquireFails` ends before the
`try` block, so it may leave a lock; `ReleaseFails` replaces the response by an
exception, as `finally` does.  `LockExpires` and `ResponseExpires` are the two TTLs.
A handler may return a body, a stream, a 5xx, or raise, and may never return.
History: `retry` (somebody held the response when the request came), `overtaken`
(the lock ran out under its request), `forgotten` (a response ran out).

### EventBus
The stream is the sequence of all entries ever added, with `first` as the oldest
that was not trimmed and `cursor` as the group's last delivered id.  A batch is a
range `at[w]..upto[w]`.  `start` creates the group at `$`, once.  Handlers are one
step: they run in one task, and their exceptions are logged.  `Terminate` is `stop`
(a cancellation at an await) and a crash.  The consumer name is new in each
process, so a restarted worker never sees its old pending entries.  `lapsed` and
`mishaps` record what the conditional properties refer to.

`Mailbox` is the abstract specification: entries that are waiting, in one
consumer's hands, settled or lost, and never come back.  The refinement mapping
(`Fate`) reads the state of an entry off the acknowledged set, the batches, the
group's cursor and the trimmed prefix; `ImplementsMailbox` holds with all faults,
also after locks have lapsed.

### BeatSchedule
Writers are `PeriodicTaskService` (commit, then one MULTI with DEL and INCR) and
the admin view (commit only).  `beat` follows `tick` and `reload_schedule`.  Caching
the fetched rows always raises `TypeError` when there are any, because they hold
UUID and timestamp values: the exception path fetches again and does not remember
the version, so a beat process with rows reloads at each tick, and the version
is remembered only with an empty list.  The model has this path and no cached
schedule.  `Settings` stands for what the beat process makes of a row; the entries are
under the names of the rows, which an update may change, and a row whose schedule
cannot be parsed (`Unparsable`) is skipped (`Entries`).

### DeadLetter, JsonColumns
`JsonColumns` is the encoding: the DAO's `json.dumps`, the codec's second one,
`jsonb || jsonb`, and the reader that undoes it.  `DeadLetter` extends it.  A
message is at the broker or in a worker until the job succeeds, is retried,
becomes a row or is dropped as excluded; a message is acknowledged when a worker
takes it.  A retrigger is one `DELETE ... RETURNING` and then a loop of sends;
a failed or refused send ends the loop, and the rows not sent are gone.  Targets are
ids, a name or nothing: nothing means all rows for edits and retriggers, and
no row for deletes.  Ids name rows and messages in the order of creation, so the
purge by `failed_at` is a cut by id.  `intended` is what the counted edits ask for.

### Cache, ApiKeys, Roles, Settings
`Cache` is the two decorators over one Redis store: look-up, fill, and the deletion
of keys, fields, hashes and patterns, with errors that are logged only.  Its three users
extend it.

`ApiKeys`: a client's request is look-up, SELECT, fill, verdict and the throttled
`last_used_at`; an operator's request reads the row, writes it and evicts the hash it
read.  The admin view has its own order of these steps and its own early returns.  The
history `missed` holds the hashes whose eviction was missed: a fill with an old row,
a rotation between the read and the write, a failed DELETE.

`Roles`: `create_role` and `update_role` are several statements without a
transaction, `delete_role` is one, and all end by deleting the cached hash.  The form
of the admin view resolves permission names against one page (`FormPage`) and drops
the others.  Histories: `wanted` (all the permissions that an edit asked for, dropped
or not), `torn` (edits cut short, overlapping, or of a form that dropped
permissions), `unsure` (entries that may be old), `unbumped` (users whose version was
not raised).

`Settings`: versions, whose cache keys have the caller's spelling of the platform and
no expiry, and the configuration row, seeded by its first reader.

### Sessions, TwoFactor, GoogleLogin
`Sessions` extends `Roles`.  A token is a record in order of issue (user, type,
version, scopes, and the history of the login it stems from: the password given, the
one of the row that was read, and whether a second factor lay between the two); `life` says whether it
is long, in its last half second, or over, which is what the rounded TTL of the
blacklist can tell apart.  A login or refresh reads the user, issues tokens and
upserts the session of its agent in several steps; with a second factor the
password is compared first, and the row is read when the challenge is answered.  Every
request that a dependency lets in is a check and a later step: a revocation checks,
deletes rows and then blacklists.  No refresh token is ever blacklisted, because the
code uses the jti of the access token.  A sudo token has version 1 whatever the user's
is, and any access token that is not blacklisted or expired gives one, also of an old
version.

`TwoFactor`: the row of one user, the set-up in Redis, the challenges and the replay
marks.  Requests suspend at each await: two logins, a renewal and a disabling can
overlap.  A list of backup codes is a batch and the codes of it that are used; time is
the slice of 30 seconds.  A TOTP code is a secret and the slice it was made in; it is
accepted from one slice before to one after, and the mark is of the slice of the check.
The confirmation of a set-up stores the codes, deletes the key and only then shows them.

`GoogleLogin`: the OAuth state, and find, link or create for one Google account,
with overlapping callbacks, registrations, deletions and changes of e-mail.

### DbPools, Migrations, Webhooks, Connections, Push
`DbPools`: start and end, the health loop (which ends at an unexpected exception, and
hangs when a replica neither answers nor fails, as its query has no timeout),
`_choose_region` with its three rules, `_select_read_pool`, which draws from all pools
of the region it has chosen, and statements with their three attempts; an answer can be
lost after the primary has applied the statement.

`Migrations`: processes with their own lists of files and records.  A file is named by
its place in the sorted directory, so that a list of files is a set and the
direction it is worked through in (`Before`); `steps` and `target` cut off its
end (`Selection`).  A script and its record are one transaction, and the record is
written once more after it.

`Webhooks` extends `JsonColumns`: the headers of an endpoint reach the task as a
string unless the row holds the column's default.  A job reads the active endpoints,
posts to each and logs each.  An inbound webhook is verified, normalised and logged.

`Connections`: `connect` and `disconnect` of one worker, interleaved at their awaits,
with the listener that also disconnects broken sockets.  An error ends the listener and
nothing restarts it before the next `connect`: the history `deaf` holds the users
connected then.  The subscriptions stay, as the client subscribes again to what its
`PubSub` holds when it reconnects.  In this repository the
application only calls `stop` (`main.py:92`); `connect` and `disconnect` are for the
routes that use the manager and are exercised by its tests.

`Push`: notifications go through their channels in turn; FCM jobs hold the tokens
they were given and prune what Firebase rejected, after its answer.  A job that fails
before or in the UPDATE is run again as a whole or given up (Celery's retry), so that
Firebase may be asked twice; the devices of a deleted user go with him.  A rejection is
any of the three codes the worker looks for, INVALID_ARGUMENT included, which Firebase
also gives for a bad payload.

### CachedData, Accounts, Services
Three compositions: `CachedData` is the API keys, roles and settings over the one
Redis store, `Accounts` the sessions, the second factor and the Google login, and
`Services` the five modules above.  Their next-state relation is a step of any part
that leaves the variables of the others alone, so that the parts interleave freely.
The theorems are about these specifications; every behaviour of the runs is one of
theirs.

## 3. Runs

Properties that only hold while some fault has not happened say so with a history
variable, so one run shows both what holds before and what still holds after a
fault.

| Run | Checks | Bounds | Distinct states |
|---|---|---|---|
| `Idempotency` | `TypeOK`, `MutualExclusion`, `RetryNotReexecuted`, `ReplayIsGenuine`, `LockIsFreed` | 3 requests, 1 key | 525 000 |
| `EventBus` | `TypeOK`, `StartedAtMostOnce`, `ProcessedUnlessMishap`, `ImplementsMailbox` | 2 workers, 3 entries, batches of 2, a stream trimmed to 2 | 232 000 |
| `BeatSchedule` | `TypeOK`, `StaleOnlyWhenEmpty`, `SyncedWhileEnabled` | 2 tasks, 3 settings of which one cannot be parsed, 3 writes | 654 000 |
| `DeadLetter` | `TypeOK`, `AtMostOneCopy`, `NothingLost`, `EditsReachTheJob`, `RetriggeredSettles` | 2 jobs, 1 field, `Budget` 2 | 266 000 |
| `CachedData` | `CachedDataTypeOK`, `CachedKeysFresh`, `StaleKeysRunOut`, `RolesCacheFresh`, `PermsOfOneEdit`, `SettingsFresh`, `SeedKeepsConfig` | 1 API key, 2 secrets, 1 client, 2 operators; 1 role, 2 permissions of which the form knows one, 1 text, 2 editors, 1 reader; 1 platform in 2 spellings, 2 readers, 1 administrator | 1 333 000 |
| `Services` | `ServicesTypeOK`, `SickRegionAvoided`, `WritesTold`, `UpIsFound`, `SchemaAsRecorded`, `DeliveryLogged`, `ConnectedHears`, `OnlyRejectedPruned` | 3 replicas in 2 regions, 1 statement; 3 migrations, 2 processes, 2 runs; 2 endpoints, 1 job, 1 inbound call; 3 sockets of 2 users; 2 tokens, 2 users, 1 notification | 259 000 |
| `Accounts` | `AccountsTypeOK`, `NoLostScopes`, `PasswordEndsTokens`, `LiveTokensListed`, `BackupCodesUsedOnce`, `OneLoginPerSlice`, `ShownCodesInForce`, `LinkedWithTheRightUser` | 1 user, 1 role, 3 tokens, 3 callers (2 tokens and callers with the editor), 1 editor; 1 secret, 2 batches of 2 codes, 2 challenges, 3 requests; 3 users, 2 callbacks | 1 274 000 |

`CachedData`, `Services` and `Accounts` put modules together that share no variable
(but for `Roles` inside `Sessions`).  In a run a behaviour is one of a single part,
chosen in the initial state: the product of independent parts has no behaviour that
its factors do not show, and the theorems are about the free interleaving.  In `Accounts` the tokens appear twice, once with time and without role
edits and once the other way round; challenges, revocations and the end of an
impersonation are in the first.

What the conditional properties say about the code.  A cached API key, role or
setting is old only after a refill that overlapped the change, a failed deletion, or
(keys) a rotation between another request's read and write, or (versions) a change
under another spelling; an old API key runs out.  The permissions of a role are all
that its last edit asked for unless edits overlap, are cut short or come from a form
that drops some.  A token keeps a lost scope only after `delete_roles` or an edit that
did not get to its last statement.  A password change ends all tokens of earlier logins,
but a login that waits for its second factor during the change still gets tokens that
count (`service/auth.py:644`): `PasswordEndsTokens` names this as its one exception.  A
backup code works twice, or an old batch comes back, only when a list is stored over
one that was not read.  A slice lets two TOTP logins through only when both are between
the read and the write of its mark; that the same code passes again in the next
slice is what the code does.  Backup codes are in force without having been shown
only after a confirmation that failed at its end.  A user with an open WebSocket is
unsubscribed only after calls of his overlapped, and nobody listens for him only after
the listener broke while he was connected, until somebody connects.  A replica that is
up stays marked as sick only when the health loop has ended or hangs at another one.  The migration record is wrong only for files that an up and a down
process worked on at once.

Why the bounds suffice to make the cases happen.  Three requests of one key are
needed for a late handler that deletes the lock of a second request and lets a
third one in; keys do not interact, and a request without a key is included.
Two workers and three entries give two entries of one event in two hands, a batch
with a rest that is lost, and a trim of an entry not yet delivered.  Two tasks
give a table that is empty, partly enabled and full.  `Budget` bounds retriggers and
mishaps together: two overlapping retriggers, or one and a mishap of any kind.
`MaxItems` bounds merges of one row; a second merge changes nothing in kind.
Two operators and two secrets give a rotation between another operator's read and
write; two editors of one role give overlapping edits.  Two spellings give the
entry a change does not delete.  Three replicas in two regions give a region that is
sick and one that is partly sick.  Two migration processes suffice for an overlap in
either direction, three files for one that comes late and one out of order.  Two
sockets of one user overlap, a third one belongs to somebody else.  Three tokens
are those of a login and a refresh and one sudo token; three callers make a password
change fall between a password check and the answer to its challenge, and a refresh
follow a revocation.  Three requests of the second factor are two
logins and a renewal.

No run uses TLC's symmetry: most check a liveness property.  `Accounts`, which checks
none, lets its interchangeable requests begin in the order of their numbers (`InOrder`).
Deadlock is not checked: requests, entries, writes and jobs are finite, and the
systems may come to rest.

Five runs show where the code and its own text disagree (`findings`):

| Run | The code says | What happens |
|---|---|---|
| `Idempotency_once` | "ensures the request is processed exactly once" | a request misses the response, another stores it and releases the lock, the first takes the lock and runs the handler again |
| `EventBus_crash` | "Provides at-least-once message durability" | a worker stops after XREADGROUP; its entries stay pending and are never read again |
| `BeatSchedule_race` | "instant sync updates" | a task is created between an empty fetch and the read of the version, and is never scheduled |
| `DeadLetter_merge` | "merge kwargs into existing kwargs" | two encoded strings are concatenated to an array, which `send_task` refuses after the row was deleted |
| `Webhooks_headers` | "logs each delivery attempt" | the headers of an endpoint reach the task as a string; `headers.update` raises outside the `try`, the exception is dropped, and nothing is posted or logged |

Seen while modelling, in the models, and without a run of their own: a
`StreamingResponse` is stored with an empty body (`idempotency.py:59`, the comment
above it says otherwise); a 409 can be returned when the response is already stored;
changes of the admin view do not reach the beat process; every tick reloads
when there are rows; `DELETE` without a target deletes nothing
(`dao/dead_letter_task.py:224`, the route's docstring says it deletes all); reads
go to unhealthy replicas of a region that has a healthy one (`database.py:394`, the
comment says "from healthy pools"); the health loop ends at an exception that is
no `PostgresError` and no `OSError` (`database.py:257`, the docstring says exceptions
"don't stop the loop"); a sudo token is refused once its user's `token_version` has
left 1, and can be had with an access token of an old version; the confirmation of a 2FA set-up deletes whatever set-up is there then
(`service/auth.py:495`); the refresh token of a revoked session is not blacklisted and
still gives access tokens (`service/user.py:131`, the repository's README says "logout
from specific devices"); a TOTP code passes again in the next slice
(`service/auth.py:593`, the docstring says "with replay prevention"); the admin form of
roles drops the permissions beyond the first 20 of the 30 that the migrations insert
(`admin_views/role.py:160`); an inbound JSON array is answered 500 and not logged.

Fairness.  `Idempotency`: each request moves on through its Redis calls (the event
loop runs every ready task) and Redis expires locks; the handler itself has no
fairness, it may hang.  `EventBus`: a worker that is down is started again (the
process manager) and its listener moves on.  `BeatSchedule`: Beat calls `tick` again
and again, and a committed service call goes on to its notification; a process that
may die there is the action `LoseNotify`.  `DeadLetter`: workers take messages and
a request finishes its loop.  `CachedData`: Redis lets entries with an expiry run
out; no request is assumed to finish.  `Services`: a round of the health loop comes
to every pool while the loop runs; a loop that hangs is not assumed to go on.  All of it is weak fairness.

Mutants.  Each property of a passing run has a mutant: an operator next to the
definition it replaces, marked `Mutant:`, that makes the property fail.

## 4. Proofs

Every invariant that a passing run checks, the refinement of `Mailbox` and the action
property `SeedKeepsConfig` are theorems, for every value of the constants that the
assumptions allow.  The proof modules:

| Module | About | Theorems |
|---|---|---|
| `IdempotencyProofs` | `Idempotency` | `TypeCorrect`, `Exclusion`, `RetrySafe`, `ReplaySound` |
| `EventBusProofs` | `EventBus`, `Mailbox` | `TypeCorrect`, `StartedOnce`, `Refinement` |
| `BeatScheduleProofs` | `BeatSchedule` | `TypeCorrect`, `SyncedOrEmpty` |
| `DeadLetterProofs` | `DeadLetter`, `JsonColumns` | `TypeCorrect`, `NeverCopied`, `NeverLost`, `EditsArrive` |
| `RolesProofs` | `Cache`, `Roles` | lemmas for the next two modules |
| `CachedDataProofs` | `CachedData` | `TypeCorrect`, `KeysFresh`, `RolesFresh`, `RolesWhole`, `SettingsStayFresh`, `ReadingKeepsConfig` |
| `AccountsProofs` | `Accounts` | `TypeCorrect`, `ScopesNotLost`, `PasswordChangesEnd`, `TokensListed`, `CodesOnce`, `SlicesOnce`, `CodesInForce`, `LinkedRight` |
| `ServicesProofs` | `Services` | `TypeCorrect`, `ToldWritesApplied`, `SickRegionsAvoided`, `RecordsTrue`, `DeliveriesLogged`, `Subscribed`, `PrunedOnlyRejected` |

In each of them `Invariance` proves an inductive invariant from lemmas with one step
per action; the theorems above follow from it.  Few of the properties are inductive by
themselves.  What had to be added, and why it holds:

`Idempotency`:

- `KeyedInv`: a request past the branch on the header has a key, so the Redis keys
  it touches exist;
- `LockInv`: a request between `acquire_lock` and `release_lock` finds its own name
  in the lock unless the key is overtaken.  This is what makes the unchecked DELETE
  harmless: until a lock runs out, the lock a request deletes is its own.
  `MutualExclusion` follows, since a lock has one value;
- `RanInv`: nothing has run before the lock, the handler's end is known when its
  response is stored, and a retry never gets to the lock;
- `GenuineInv`: a stored or replayed response names a settled request of the same
  key, whose key and outcome do not change any more;
- `StoredInv`: what is about to be delivered or was delivered is in Redis, unless
  forgotten; so at the look-up of a retry there is a response, and only the replay
  is possible.

`EventBus`: batches lie behind the cursor and apart (`BatchInv`, `ApartInv`), since
the group delivers an entry once; a started event is locked until its lock lapses
(`LockInv`).  The refinement takes the two invariants as facts about both states of a
step, and maps each action to the change of fate of the entries it touches.

`BeatSchedule`: the remembered version is not ahead of the written one, and a version
is only read after a fetch that brought nothing (`VersionInv`); rows that bring nothing
give no entries, and rows that cannot be parsed give none either (`Installed`).

`DeadLetter`: two copies of a job are the same one in the same place (`PlacesInv`),
every other job is somewhere (`KeptInv`), and a column that can be sent holds the
intended document (`EditsInv`).  Lemmas about the encodings carry the last part: a
merged column is an array for ever, and an array is never sent.

`CachedData`: a request that is about to fill, write or evict knows what
(`RequestInv`, `EditorInv`, `AdminInv`); rows and entries are under hashes that were
issued, so that a new secret has neither (`SecretsInv`); the INSERT of an edit's
permissions finds none unless edits overlapped (`FillInv`); before there is a
configuration nothing of it is cached (`SeedInv`).

`Accounts`: each token, and each row that a login has read and not yet turned into a
token, is of an earlier version, or stems from a login that read the present password,
and was given it or has a second factor, and has no lost scope (`ClaimsInv`).  The read rows are what makes this inductive: a login that has read
the user before an edit issues its token after it.  A step keeps a claim when it raises
the version, or changes nothing that the claim is about, or is excused (`Safe`).  A
live token is in a session, known to be lost, revoked, or about to be blacklisted
(`ListedInv`), and a revoked one is blacklisted until its last half second
(`RevokedInv`).  A used code is marked in the list in force (`BackupInv`), a used
slice in Redis until its codes are over (`TotpInv`).  A callback that is about to add
an identity has the row of a verified address or one it created (`CallbackInv`).

`Services`:

- pools: the attempts of a statement that were applied are earlier ones whose answers
  were lost (`StatementInv`); the region that `_choose_region` returns exists, because
  a list with a match has a first match (`FirstIsIn`, from the well-foundedness of
  the natural numbers);
- migrations: between its two transactions a process relies on the first one
  (`HalfDone`), which only a process of the other direction can undo; what a
  process has read is out of date in its own direction only, and what it still has to
  apply comes with every earlier file that is missing (`PlanInv`).  The latter rests
  on `SelectionFirst`: every command line selects a beginning of its list;
- webhooks: a delivery is to a row that is there or was deleted since, and is logged
  by the time it ends (`DeliveryInv`);
- connections: a user whose calls have not overlapped has at most one call that waits,
  and what it waits for tells whether he is subscribed (`Calls`); whoever has come past
  `_ensure_listener` has a listener or was connected when it broke (`Heard`);
- push: what a job still has to deactivate was rejected, also when it is run again.

Assumptions.  They are the named `ASSUME`s of the modules, which TLC evaluates in
the runs.  Besides types they say: a marker is no value (`None` is no request, `NoKey`
no key, `NoValue` no hash, row or token, `NoName` no task name, `NoRegion` no region,
"primary" no replica, "broadcast" no user, the fates of a `Mailbox` entry no workers);
the cache keys of the three users of the cache are different; jobs and
sockets are finite sets (copies and connections are counted); migration files are
numbered in the order of their names; a replica belongs to one region; a SQL script
that inserts endpoints gives them a url and an event.

Only model-checked: liveness (`LockIsFreed`, `ProcessedUnlessMishap`,
`SyncedWhileEnabled`, `RetriggeredSettles`, `StaleKeysRunOut`, `UpIsFound`), because
the proof system has no rules for fairness, and the five disagreements of section 3.

## 5. Not modelled

- Time, beyond the order of expiry and other steps.  Clock skew between processes.
- Redis and PostgreSQL beyond the commands used; failover of either.
- What a task or handler computes; wording, formatting, logging, metrics.
- In `DeadLetter`, the `args` and `queue` of an edit (they are overwritten like the
  keyword arguments), and two retriggers together with a mishap.
- Listing, statistics and export: they only read.
- Requests that are refused without a change (wrong password, missing scope,
  unknown id), but for those that fail after their first write.
- Cryptography: a hash, a signature, a token or a code is a name, and is known by
  whoever was given it.  The other fields of a user's profile.
- The delay between the primary and its replicas: a read sees the last write.
- The audit log, the dashboard, feature flags, object storage and the shell
  (configuration, middlewares, telemetry, translations): no state that another
  operation depends on, or I/O only.
- The start and the shut-down of a Celery worker's resources, and the arguments of
  periodic tasks as jsonb.

## 6. Plan

The core is modelled, and its safety properties are proved.  Left:

1. Action properties that sharpen the invariants, with their proofs: a settled response
   or a used code is never taken back, a recorded migration is only removed by a
   process that goes down.
2. What the present conditions on history variables leave open: how far a
   stale entry or a lost scope can spread before it is noticed.

## 7. Running

    tlc -config Idempotency.cfg MCIdempotency
    tlapm IdempotencyProofs.tla

and likewise for the other runs and proof modules; the module of each `.cfg` is in
`PROJECT.json`.  No proof module takes more than a few minutes from nothing.
