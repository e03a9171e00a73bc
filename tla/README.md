# shopedia-api in TLA+

This directory models the part of `shopedia-api` in which the order of things
matters. The API is a Go program (fiber, pgx, go-redis): every request runs in
its own goroutine, any number of instances may serve the same Postgres and the
same Redis, and nothing runs in a database transaction. What a handler does is
therefore a sequence of round trips, and the requests of all instances
interleave between them. That is what the modules describe: **one action per
round trip**, with the calls whose errors the code ignores or survives failing
nondeterministically.

Paths below are relative to `src/`.

## 1. The system

| Part | Code | State it keeps | Operations | Modelled in |
|---|---|---|---|---|
| Access tokens, single session | `internal/util/jwt.go`, `internal/handler/login.go`, `logout.go`, `internal/middleware/jwt.go`, `main.go:70` | rows of `active_sessions` and `revoked_tokens`; keys `session:<jti>` | log in, authenticate, log out (one, all), clear a session, hourly cleanup | `Sessions` |
| Accounts | `internal/handler/user.go` | `is_active`, `is_banned`, `deleted_at` of `users` | ban, unban, activate, deactivate, delete; lists and edits | `Sessions` (the session's end), `Accounts` (the row); without lists and edits |
| Registration, OTP | `internal/handler/app_auth.go`, `internal/cache/redis.go:183-276`, `jwt.go:63` | `users`, `user_roles`, `otp_codes`; key `otp:<email>` | register, verify, request a new code | `Otp` |
| Rate limiter | `internal/middleware/ratelimit.go`, `redis.go:279-325` | keys `ratelimit:...` | check | `RateLimit` |
| Categories | `internal/handler/category.go`, `redis.go:111-128` | `product_categories`; key `cache:categories` | list (cached), create, update, delete; back office lists | `CategoryCache` |
| Passwords | `internal/handler/password.go` | `password_reset_tokens`, `users.password_hash` | forgot, reset, change | `Accounts` |
| Administrators | `internal/handler/admin_auth.go` | `users`, `user_roles`, `invite_tokens` | register, invite, accept | `Accounts`; `Rbac` (who may invite, and the role) |
| Roles and permissions | `role.go`, `permission.go`, `internal/middleware/jwt.go:83-209` | `roles`, `permissions`, `user_roles`, `role_permissions` | create, update, delete, assign, remove; the three checks of the middleware | `Rbac` |
| Products | `internal/handler/product.go` | `products` | list, create, update, delete, block | no: see *What is not modelled* |
| Routes | `internal/handler/routes.go` | none | order of the middleware | `Rbac` (the groups that write roles) |
| Migrations, start-up | `internal/repository/db.go`, `migration/`, `main.go`, `docker-compose.yml` | `migration_history`, the schema | connect, apply the files in order, listen | `Startup` |
| Profile | `internal/handler/user.go` | one row of `users` | read, write | no: one statement each |
| Queue, worker | `internal/queue`, `cmd/worker` | none | handlers that log | no: nothing enqueues a task |

How they interact:

* **The middleware reads what four other parts write.** `JWTProtected` asks
  `revoked_tokens`, then Redis *or else* `active_sessions`, then `users`. Logins
  write the row and the key, logouts and the account operations clear both, the
  cleanup goroutine empties `revoked_tokens`, and the account operations write
  `users`. This is why sessions and account operations share a module.
* **Postgres and Redis hold the same thing twice** (sessions, codes, the list
  of categories). A write to one and a write to the other are separate calls,
  the second one's error is mostly ignored, and a reader trusts whichever it
  asks first.
* **Redis forgets by itself**, and a key may expire between two calls of one
  request.
* The rate limiter stands in front of the application's endpoints and shares
  nothing with them.
* **Four parts write one row of `users`.** Registration, administrators'
  registration and invitation, passwords and the account operations meet in
  `is_active`, `password_hash` and `user_roles`; none of them locks the row.
  `Accounts` composes them, with the session and the one-time code as one step
  each, whose details are in `Sessions` and `Otp`.
* Every instance migrates the database before it listens, and instances start
  together.

What is hard here, and what makes each part correct:

| Part | Hard behaviour | Correct when |
|---|---|---|
| Sessions | two logins at once; a logout, ban or deletion between the checks of the middleware; ignored errors of `DEL`, `SET` and of the revocation; Redis restarting from a snapshot; the cleanup racing everything | at most one session per user; what was ended stays ended; nothing that was not ended is lost; nobody is admitted on a token that was no session |
| OTP | the read-modify-write of the attempts, and of a time to live in whole seconds; expiry in between; lost mails; requests that end half way | a code works within its life and its attempts, and while it does it is not refused; who keeps trying gets in; both up to what a rounded time to live costs |
| One account | a token looked up, used and marked in three statements; resets, logins, changes and deactivations at once; rows left half made | a token is used once, up to what runs at the same time; a reset ends the sessions before it; a deactivated account comes back only in known ways |
| Start-up | files executed and entered in two statements; instances racing; processes ending anywhere | who serves has the whole schema; files are applied in order; repetitions are bounded; of instances that race one comes to serve |
| Rate limiter | read, compare and increment in three calls; `SET` over another's counter; `INCR` after expiry | the limit, a bound on what concurrency costs, no early refusal, no refusal for ever |
| Roles | what was read before a statement is old when it runs; names are unique over deleted rows, the queries look at live ones; checks that are several queries | the name `super_admin` means one role; system roles stay; what is deleted is held by nobody; only super admins write |
| Categories | a fill overtaken by a write; a query that breaks off half way; an update that does | a stale list has a known reason; slugs are unique |

`PROJECT.json` lists the hazards one by one at the line where they bite, with
the properties that cover them or the reason why none does.

## 2. The modules

Every module has one action per step of the code, named after the function it
translates (`IsTokenRevoked`, `SetActiveSession` split into `GetOldSession` ...
`SetNewSession`, `IncrementOTPAttempts` split into `IncrementGet`,
`IncrementTTL`, `IncrementSet`). A request in progress is a record in
`req[r]`: its program counter `pc` and the local variables it still needs.
`Requests` is a set of *slots*: how many requests are served at the same time,
not how many ever come. The constant `Faults` says which calls may fail in an
instance; `Fails(call)` is a disjunct of the action concerned. Variables whose
comment says *history* are read by properties only. Definitions introduced with
*Mutant* are plausible bugs of the definition after them; each property of a
passing run is violated by one of them.

### `SingleSession`
What "single active session per user" promises: open a session and thereby
close the one before, close a session, never open one twice.

### `Sessions`
| Variable | Code |
|---|---|
| `users` | `users.is_active, is_banned, deleted_at` |
| `activeSessions[u]` | `active_sessions.jti` of user `u` |
| `redis[j]`, `rdb` | `session:<jti>` (the UserID stored there), and the snapshot Redis restarts from |
| `revoked` | `revoked_tokens` |
| `owner`, `delivered`, `expired` | tokens: for whom they were made, which reached a client, which are past `exp` |
| `claimed`, `ended`, `req[r].live` | history: tokens a request set out to end, said it had ended, and whether the token was a session on arrival |

`LoginHandler` .. `SetNewSession` are login (`login.go:15-83`,
`jwt.go:159-200`); `ParseToken` .. `RevokeOwnToken` the middleware and the
handlers behind it (`middleware/jwt.go:12-81`, `logout.go`); `ClearLookup`,
`ClearRedis`, `ClearRow` are `ClearActiveSession` (`jwt.go:223-244`);
`AdminRequest`, `SetStatus`, `SoftDelete` the account operations, which all end
in a clearing except unban and activate; `Expire`, `CleanupExpiredTokens`,
`RedisTTL`, `RedisSave`, `RedisRestart` are time, `main.go:70-90` and Redis.
Details kept because the properties depend on them: a login reads `is_active`
only; a hit in Redis decides by the UserID alone, a miss or an error asks the
row; a logout answers 500 when the row cannot be deleted while the other
callers of the clearing go on; a deletion clears first and marks the user last.
Left out: token strings, roles, the operator's own authentication. There is one
clock, so tokens expire in the order of issue.

### `RateLimit`
`count[k]` and `ttl[k]` are the Redis key; `ttl = NoTTL` is an absent key or one
without a time to live. `GetCount`, `SetFirst`, `Increment` are the three calls
of `CheckRateLimit`. `SerialKeys` are keys whose clients send one request after
the other: the limit can only be promised to them. `granted` counts what got
through in the life of a counter, `recent` what got through in this tick and the
last few.

### `Otp`
The registration of one address. `otp`, `ttl` are the key in Redis; `rows`,
`used`, `left` the rows of `otp_codes` and the time to `expires_at`;
`tokenLeft` the life of the best register token the user holds. Codes are
numbers that are used again once nothing refers to the former use, so that the
model is finite without an end to the registrations. `IncrementOTPAttempts`
writes the code back with the `TTL` it has read, which Redis answers in rounded
seconds: the fault "round" loses or gains a tick. The code replaces a negative
answer only (`redis.go:223-229`), and go-redis takes a time to live of 0 for
none, so a code counted in its last half second stays in Redis for ever: a key
that is there with `ttl = 0`. `cut` remembers codes that were written back with
less life than their row. `RegisterHandler` ..
`Answer` are register and request-new (which share the part from the lookup of
the code), `VerifyOTPHandler` .. `Activate` are verify.

### `CategoryCache`
`rows` are the live rows of `product_categories`, `deleted` the others, `cache`
and `ttl` the key `cache:categories`. An update is a statement per field given
(`UpdateName`, `CheckSlug`, `UpdateSlug`, `UpdateActive`; description and icon
are written like the name). The unique index on the slugs of live rows
(`migration/009_products_enhancement.sql:14`) is part of every write.
Categories with products are a constant, those of migration 009: the handlers
that would add or remove products stop before their first statement
(`product.go:205`, see hazards). `category.go:78-94` passes over a row that
cannot be scanned and never asks `rows.Err()`, so `QueryCategories` may come
back with any part of the public list and no error ("read"). `excused`
remembers that the cached list may differ from the table for a known reason.

### `Rbac`
| Variable | Code |
|---|---|
| `users` | the rows of `users`, as far as roles are given to them |
| `rows[x]` | name, scope and `deleted_at` of a row of `roles` or `permissions` (the scope of roles only) |
| `grants` | `user_roles` and `role_permissions` |
| `barred`, `late` | history: requests whose user was no super admin so far; entries granted after their holders had been counted |

Roles and permissions are created, renamed and deleted by the same sequence of
statements, so the sequences (`Create`, `Insert`, `Pick`, `Count`,
`SoftDelete`, `Grant`, `Revoke`) are shared and each handler is an instance.
`IsSuperAdmin`, `HasScope` and `HasPermission` are the three queries of
`middleware/jwt.go`; `RoleRequired`, `ScopeRequired`, `GroupRequired` are the
checks of `routes.go` **in the order in which fiber runs them**: `Group("")`
keeps the prefix `/api/admin`, so the middleware of `superAdminAuth`
(`routes.go:87-89`) runs for every route of the back office registered after
it. Where a chain asks the same question several times, the last is modelled;
the others can only refuse more. `Refuse` ends a request at any step, for a
statement that fails as for a check or a lookup that says no: nothing is
written by it, and what was written before stays. `is_system` is never written,
so it is the constant `SystemRoles`. Nobody is
an administrator at first. `AdminRegister`, `InsertAdmin`, `FindSuperAdmin` are
`AdminRegisterHandler`: the comment at its route says "First time super_admin"
(`routes.go:72`), and the handler gives the role to every new address at any
time (`admin_auth.go:16-73`). What the middleware promises is therefore about
users who have the role, however they came by it. The other writer of
`user_roles` gives `end_user` (registration), which is no role of the instance.

### `Accounts`
One e-mail address and the row of `users` it may have.

| Variable | Code |
|---|---|
| `row`, `deleted`, `password`, `roles` | whether there is a row and its `is_active`; `deleted_at`; whether `password_hash` is set; `user_roles` (`end_user`, and `internal` for every other role) |
| `cred` | `password_reset_tokens` (the set `Links`) and the row of `invite_tokens`: "lost" is usable but its mail never arrived, "dead" is used, expired or not issued |
| `code` | a register token with a code that verification accepts (detail in `Otp`) |
| `session` | the session (detail in `Sessions`), told apart by the password it was opened with: the row's ("current"), one that a reset has replaced since ("outdated"), or one that the code lets live on ("kept") |
| `req` | handlers at work: the next statement, the token they were sent, and whether the hash they have read is still the row's |
| `uses`, `barred` | history: passwords written with each token since it was issued; deactivated and not admitted since |

`Register` .. `ActivateVerified` are `app_auth.go:19-202`; `AdminRegister` ..
`InviteToken` and, with `ResetPasswordHandler`, `UseCredential`,
`WritePassword`, `MarkUsed` are `admin_auth.go` (a reset token and an
invitation are used by the same sequence of statements; the invitation also
sets `is_active` and ends no session); `ForgotPassword`, `CheckLink`,
`InsertLink`, `ChangePassword`, `UpdatePassword` are `password.go`; `Login`,
`OpenSession` are `login.go`; `AdminRequest` .. `SoftDelete` are
`user.go:361-496`. Details kept: forgot asks for `is_active` but not for
`deleted_at`, a login neither; verification looks at neither the row nor its
roles; registering on an inactive row keeps its password and adds a role; a
change of password keeps the session; errors of `ClearActiveSession` are
ignored; `users.email` and `user_roles` are unique, and the handlers answer 500
when they hit that. `Abort` ends a request before any of its statements. A
password is never named: what matters is whether it was written since.

### `Startup`
`pc` and `file` are where an instance is in `main()` and in the loop of
`RunMigrations`; `history` is `migration_history`; `applied` counts how often a
file was executed, `found` remembers what was entered when the instance
started. A file is one string of statements without arguments, which Postgres
carries out as one transaction, so `ExecFile` is one step; entering it
(`RecordFile`) is another, and fails on the primary key when another instance
was faster. Any failure ends the process (`log.Fatal`).

`WithEnv` are the instances with a file `.env` in their working directory: only
they get as far as the database (`ConnectDB`), because `main()` ends without one
(`main.go:23-26`) whatever variables it was given. An image that is built as
`README.md:86-92` says has none: `Dockerfile:33-36` copies the program and
`migration/`, `.dockerignore` leaves `.env` out and `docker-compose.yml` mounts
nothing into `api`, so there `WithEnv` is empty, and restarting (`restart:
unless-stopped`) only repeats the same end. The model allows that a process is
started again, at any time, and relies on it nowhere.

### Model-checking modules
`MCSessions`, `MCAccounts`, `MCOtp`, `MCCategoryCache`, `MCRbac` add symmetry.
`MCSessionsSettings` holds three instances of `Sessions`, taken with the theorems
of `SessionsProofs`, with different constants and a variable `setting` that the initial state chooses and no step
changes, so that one run answers the same questions in all three; its view
drops history no action and no property of that setting reads. The `.cfg` files
give the constants. Symmetry is only used in runs without liveness properties.

## 3. What is checked

| Run | Question | Instance |
|---|---|---|
| `sessions_settings` | In every setting: is anybody admitted on a token that was no session on arrival (`AdmittedWasLive`), does a logged out token come back (`LogoutIsFinal`)? One request at a time, and with the row alone even when logins race: is what the stores and the revocations say **one session per user** (`ImplementsSingleSession`), does what was ended stay ended (`EndedNeverLive`)? One at a time: is nothing lost (`SessionKept`)? | "serial": an end user and an internal user, 1 slot, failing revocation, Redis write and read, early ends. "concurrent": 1 user, 2 slots, 9 faults. "withoutRedis": 1 user, 2 slots, no Redis client. 2 tokens each |
| `sessions_restart` | Redis returns with an old snapshot, and clearings fail half way: do logged out tokens stay out (`LogoutIsFinal`); is every revocation forgotten in the end (`RevocationsAreForgotten`)? | 1 internal user, 2 tokens, 1 slot |
| `sessions_two_logins` | *violated*: `AtMostOneSession` | 2 logins at a time, no failure |
| `rate_limit` | Limit for serial clients, in a life (`WithinLimit`) and in any window (`BelowTwiceMax`); bound for concurrent ones (`OverrunBounded`); no early refusal (`NotRefusedEarly`); no refusal for ever (`RefusalEnds`) | 2 keys, 3 slots, limit 2, window 2 |
| `rate_limit_stuck` | *violated*: `RefusalEnds` once a request is slower than the last tick of its counter | 1 slot |
| `otp_serial` | One request at a time: is a code accepted in time only (`AcceptedInTime`), are its attempts enforced unless its key was cut short (`AttemptsEnforced`), does who keeps trying get in unless a code has lost its expiry (`RegistrationSucceeds`)? | 2 codes, 3 attempts, life of 2 ticks, lost mails, typos, rounded or failing `TTL`, failing `DEL` and marking |
| `otp_concurrent` | Two at a time, everything failing and `TTL` rounded: is a good code ever refused (`NotLockedOutEarly`), is anybody active without the role (`ActiveHasRole`)? | 2 codes, 2 attempts, life of 1 tick |
| `otp_new_code` | *violated*: `NewCodeWorks` | 3 wrong attempts, no failure |
| `category_cache` | Has a stale list one of four reasons: a writer that ended early, a failed `DEL`, a fill that was overtaken, a query that was cut short (`StaleHasReason`)? Are slugs unique (`SlugsDistinct`)? | 3 categories, one with products, 2 names, 2 slugs, 2 slots, everything failing |
| `rbac` | Is `super_admin` one role (`SuperAdminResolves`) and are system roles never written (`SystemRolesStay`), is nothing deleted held by anybody (`DeletedUnassigned`), do only super admins write (`SuperAdminOnly`)? | 2 users, who register as administrators or are invited, the seeded role and another, 1 permission, 2 names each, 2 slots, every statement failing |
| `accounts` | Do links for a reset pile up (`LinksBounded`), is a token used again (`UsesBounded`), does a session outlive a reset (`ResetEndsSessions`), who can undo a deactivation (`DeactivationHolds`)? | 2 slots, 2 links, 1 invitation, every kind of request, lost mails, one failing statement anywhere |
| `startup` | Does anybody serve without the whole schema (`ServingHasSchema`), are files applied in order (`AppliedInOrder`), is one that was entered applied by an instance started later (`NeverReapplied`), how often is one applied (`RepeatsBounded`), does one of the instances that race come to serve, without any being started again (`OneGetsThrough`)? | 2 instances with `.env`, 1 without, 3 files, 3 failures |

**Bounds.** `MaxLogins` (tokens ever issued), `MaxCodes` (codes something
refers to at one time), the sets `Requests`, `Categories`, `RoleIds` and
`PermIds`, and the small
clocks are the only bounds; `RateLimit` and `Otp` run for ever within them. Two
tokens are the old one and the one that displaces it; the races of the code
(read the old row / write the new one; look up / delete; GET / SET; GET / INCR)
are between two requests, and the third slot of `rate_limit` is there because
the bound on the overrun depends on the number of requests: at three slots it
is reached exactly. Two attempts in `otp_concurrent` are the least number at
which one can be lost. A life of two ticks tells an early tick from the last
one; one tick is enough where only expiry matters. The bound on categories is
an action of its own branch in `InsertCategory`, answered like a failed insert.
In `accounts` two links suffice, as no request looks for a free number while
both are taken (deadlock and `LinksBounded` would tell), and one failure is the
least with which a use leaves its token usable; more of either changes a number
in the properties, which are proved for all. In `startup` three files are a
first, a last and one between, and with three failures a process may die, come
back to what it left, and die again while the other one runs; the third
instance has no `.env` and never gets anywhere. `UsesBounded` and
`RepeatsBounded` count what failed, so they say the most while nothing has.
In `rbac` one role and one permission besides the seeded role are enough for
every conflict the properties are about (a name that is taken, a count that is
old), and the second user is the one who has the permission without the role.

**Deadlock** is checked except in `sessions_settings` and `sessions_restart`,
where the only user may be deleted and its logins used up, and in `startup`,
which is over when every instance that has its `.env` serves and no failure is
left: there the system really may stop.

**Fairness** is stated where liveness is checked and is about what the code
relies on: time passes (`Expire`, `Tick`; strong, because a request under way
may keep postponing it in instances without "slow"), the ticker of the cleanup
goroutine fires (`main.go:70`), every call that was made returns, not every
`INCR` fails, not every mail is lost. In `startup` every statement of a
process that is up returns, and nobody starts one again: `OneGetsThrough` is
about the processes that are up, until one of them serves or a failure happens.
The failure is no idle exception: an instance that has looked up a file which
another then enters is refused by the unique filename, so that when the faster
one dies nobody may be left. Nobody is obliged to send a request, with
one exception: `RegistrationSucceeds` is about a user who keeps registering and
sometimes types a code that reached him in time (`Perseverance`).

**The three violated properties** are what the repository says of itself:
"Hanya 1 session aktif per user" (`migration/004_active_sessions.sql:2`,
`README.md:664`) fails for two logins that both read the old row before either
writes it; `Retry-After` (`README.md:283`) is never true for a counter that was
recreated by `INCR` after its expiry; and "Setelah 3x salah, harus request OTP
baru" (`README.md:288`) cannot be followed, because the new code that is
answered is the locked one.

**Reached by the models, without a run of their own** (the hazards give the
lines): logging out everywhere leaves the second token of two racing logins; a
login racing a ban or a deactivation leaves a session that works again after
the unban; concurrent requests get past the rate limit; concurrent wrong
attempts are counted as one; a code written back by a concurrent wrong attempt
is accepted after its life; a code counted in the last half second of its key
never expires, registering again then finds it each time and issues a token
that has expired, and the address cannot be registered (`RegistrationSucceeds`
without its second half); a code whose key was cut short is asked of its row,
which knows of no attempts; a code accepted from Redis is still good in its
row; with Redis down nobody can register; a role that was assigned while it was
being deleted keeps granting its permissions (`PermissionRequired` does not ask
for `r.deleted_at`, the other two checks do), and cannot be taken away again,
because the handler no longer finds it; a name of a deleted role or permission
passes the query of the handler and fails at the unique index; an update with
an unknown scope is refused after its name was written; users whose role is not
`super_admin` never reach the permission checks of the back office, so that
`GET /api/admin/me`, "all dashboard users" (`routes.go:102`), is closed to
them. The properties about these either
hold for one request at a time and are checked there, or state the bound that
is left.

## 4. What is proved

The proofs are for every value of the constants that the named assumptions
allow (`SessionsAssumption`, `RateLimitAssumption`, `CategoryCacheAssumption`,
`OtpAssumption`, `RbacAssumption`, `StartupAssumption`, `AccountsAssumption`,
`SettingsAssumption`: types of the constants, that the dummy values are not
members, and for the three modules that count, that requests, links and
instances are finitely many). Some theorems hold of some systems only: their
hypotheses (`OneAtATime`, `OneRequest`, a fault that does not happen) stand after
`ASSUME` in the theorem and are met by the run that checks the property.

**`SessionsProofs`.** `TypeCorrect`, `LogoutTheorem` (`LogoutIsFinal`),
and `AdmissionTheorem` (`AdmittedWasLive`). Neither property is inductive. The
invariant is `IInv == TypeOK /\ Shape /\ Tokens /\ Stores /\ LoggedOut`:

* `Shape` ties the kind, the step, the user and the token of a request to each
  other: whoever is at "revokeOld" or "clearDel" has found a token, whoever is
  past the middleware has one.
* `Tokens`: tokens belong to whoever they were made for, and only tokens that
  were made are delivered, revoked or expire.
* `Stores`: the row of a user and the keys in Redis, the snapshot included, only
  name that user's tokens.
* `LoggedOut`: a token whose logout is under way past its revocation, or was
  answered, is revoked or has expired. This is why neither a failing `DEL`
  nor a restart of Redis brings it back; and why the cleanup may forget it.

`AdmissionTheorem` needs one more, `Stopped`: a token that was no session when
its request arrived is none later, because a JTI is written by one login only,
and that login is over. This is false when Redis restores an old key, so the
theorem assumes that "redisRestart" is not among the faults; `LogoutTheorem`
does not.

The second half of the module is about `ImplementsSingleSession` and the
properties next to it. They hold where the row decides: `ByRow == TypeOK /\
Stores /\ RowDecides`, where `RowDecides` says that whatever Redis has and
nothing has ended is what the row has too. `LiveByRow` then reads a session off
the row, and each step is one of three: `EndsOne` (the row goes, or its token is
revoked or expires), `OpensOne` (`UpsertSession`, which closes the session before
in the same statement) or `GivesUp` (a login that fails uses its token up),
while the others change nothing that `SingleSession` sees. `OpensOne` needs the
invariant `New`: until its login writes the row, nobody has come across a token
(`Unseen`), so it is neither revoked nor expired. This is where the assumption
that "slow" is not among the faults comes in: an upsert of a token that has
expired meanwhile would close a session and open none. The row decides in two
kinds of systems:

* *Without Redis*, with any number of requests at a time, because there is
  nothing in it (`NothingInRedis`): `RefinementWithoutRedis`,
  `EndedWithoutRedis`, and `AtMostOneTheorem` (`AtMostOneSession`).
* *With Redis and one request at a time* (`OneAtATime`), while Redis does not
  restart from a snapshot and the reads and `DEL`s on the way to closing a
  session work: `RefinementOneAtATime`, `AtMostOneTheorem`, `EndedOneAtATime`,
  `KeptOneAtATime`. `RowDecides` is not inductive by itself, as the row and the
  key are written in two calls. `InStep` says how far the request in between has
  come: whoever is about to write or delete a row has taken its key out of
  Redis, whoever is about to `SET` a key has written its row, whoever revokes has
  found what the row says. Together they are `Synced`. The assumptions name the
  calls whose errors the code ignores and after which it goes on to the row
  (`jwt.go:159-200`, `223-244`); a `SET`, a `GET` or a revocation that fails, and
  a request that ends anywhere, do no harm.

`EndedWithoutRedis` and `EndedOneAtATime` rest on `RowGone`, which is stable
since only a token that was not delivered yet is ever written to a row, and on
`Ended`: a request that reports success has got the row of what it ends out of
the way. They assume that "clearRow" does not fail; a ban does not look at the
error. `KeptOneAtATime` is the converse, and the invariant `Kept` its reason: a
token that was delivered and that nobody has set out to end has its row and is
not revoked (`InPlace`), because a request that closes sessions does so only of
its own user and has said so when it started (`KeepsOff`).

**`SettingsProofs`.** What the run `sessions_settings` checks, as theorems of the
module it checks: `LogoutInSettings`, `AdmissionInSettings`, `EndedInSettings`,
`KeptInSettings`, `RefinementInSettings`. A behaviour stays in the setting it
starts in and is one of that instance (`StaysSerial` and its like), whose
constants meet the assumption and the hypotheses of the theorems of
`SessionsProofs` (`SerialValues`, `SerialOneAtATime`); the rest is the instanced
theorem. So the module says nothing new about `Sessions`: it shows that the
hypotheses above are those of systems that are checked, and that the run and the
theorems are about the same thing.

**`RateLimitProofs`.** `NotRefusedEarlyTheorem`: every count was let through
(`count <= granted`), provided that go-redis does not carry out a command
twice. `WithinLimitTheorem`: under a serial key at most one request is under
way (`OneAtATime`), so what it read is still true when it writes, up to the
expiry of the counter (`AllCounted`). `TypeCorrect` adds the clock: a counter
that is dropped loses its time to live with it. `BelowTwiceMaxTheorem`: a counter
is set anew only when its predecessor has lived for the whole `Window`
(`Spread`), so any stretch of `Window` ticks holds the end of at most one earlier
life, without the request that began it, and a part of the present one; each is
within the limit. It assumes that "slow" is not among the faults: a counter that
expires between the `GET` and the `INCR` starts without a window.
`OverrunBoundedTheorem` has no such hypothesis and is an argument of counting. A
counter that is there can be set back to 1 by every request that has found it
absent (`Starting`), and none joins them while it is there. After a `SET` at most
`Max - 1` get through before the counter is full, and after that those that have
read a lower number and not yet counted (`Counting`), of which there are no more
than requests that do not wait to start (`Others`). Each `SET` adds one to
`Others`, so the most that could get through before the m-th is the sum of
`Max - 1 + i` over i below m (`Overrun`), and after the N-th nobody is left to
set it again.

**`OtpProofs`.** `TypeCorrect`, `ActiveHasRoleTheorem` and
`NotLockedOutEarlyTheorem` hold for any number of requests and whatever fails,
`AcceptedInTimeTheorem` and `AttemptsEnforcedTheorem` for one request at a time
(`OneRequest`). The types need that a request has the code it
writes, mails or marks (`Shape`), and that nobody reuses a code while a request
refers to it (`Marking`); that a key has no time to live does not mean that it is
absent. The role needs `RoleGiven`: every request past
`AddRole` and every register token of the user mean that the role is there. For
the third theorem `ILock` follows the attempts: the count in Redis, or read by
`IncrementOTPAttempts` and on its way back, is never more than the wrong
attempts that code has borne (lost ones make it less), and a mailed code has a
row that is marked only once it was accepted, so the row answers when Redis
does not. For `AcceptedInTime` the point is that a wrong `TTL` can keep a code in
Redis past its life, and that the register token then is what stands in the way:
it never outlives the code in Redis (`TokenCovered`), as a new code is made when
the old one is overwritten. It assumes that no request outlives the code it
carries ("slow"). For `AttemptsEnforced` a code can be accepted in two places.
In Redis the count beside it is at least what the code has borne, unless the one
request is on its way to write it (`Counts`). In its row it does not count at
all: `OutOfReach` says that a code that Redis does not have, and whose row would
do, has attempts left, because the key lives at least as long as the row, or for ever
(`Outlives`), and is deleted only when the code was right. That fails for a code
that was written back with a time to live rounded down, and these are the codes
in `cut`. It assumes that the
`GET` and the `SET` of the code do not fail and that the request which counts is
not ended in between (`Counted`): each of these loses an attempt or asks the row
of a locked code.

**`CategoryCacheProofs`.** `TypeCorrect`, `StaleHasReasonTheorem` and
`SlugsDistinctTheorem`. For the first two: a request that has not written has
nothing to be excused for, and a list on its way to Redis is the table unless
it is marked as overtaken or as cut short; a write marks them all. For the slugs it is enough
that each statement passes the unique index.

**`RbacProofs`.** `TypeCorrect`, `SuperAdminTheorem`, `SystemRolesTheorem`,
`DeletedUnassignedTheorem`, `SuperAdminOnlyTheorem`. Every step is one of four
forms (reads only or inserts a user, writes a row, grants, revokes), each with
its lemma. The
invariant is `IInv == Typed /\ SystemLive /\ SuperAdminResolves /\ Counted /\
DeletedUnassigned`: a request past the check of `is_system` works on another
row (`Sound`, part of `Typed`), and as `is_system` never changes this stays
true however late it writes; with the unique index no other row then gets the
name. The count of holders does not stay true: `Counted` says that who holds an
entry about to be deleted has got it too late. For the last theorem `Passed`
says that a request of a user who was never a super admin is still before
`RoleRequired`; the checks behind it are not needed, and the permission
`role.assign` would not be enough.

**`StartupProofs`.** `TypeCorrect`, `ServingHasSchemaTheorem`,
`AppliedInOrderTheorem`, `NeverReappliedTheorem`, `RepeatsBoundedTheorem`. The
invariant is that an instance past the lookup of a file finds every earlier
file entered and has its `.env` (`Progress`), and that only executed files are entered
(`Recorded`). The last theorem is an argument of counting (`Counted`): before a
file is entered, each of its executions belongs to an instance about to enter
it, which is one with `.env`, or to a failure; afterwards only the instances that had looked it up before
can add one.

**`AccountsProofs`.** `TypeCorrect`, `ResetEndsSessionsTheorem`,
`DeactivationHoldsTheorem`, `LinksBoundedTheorem`, `UsesBoundedTheorem`. What
one request does leaves the others where they are (`OthersSame`), and each
invariant has a lemma for the steps that cannot disturb it. `ResetEndsSessions`
is inductive once it is known that whoever writes a password holds a token
(`HoldsCredential`): the request that made a session outdated is itself the
witness until its clearing. `DeactivationHolds` needs `Registered`: a register
token, and a request that is about to issue or has checked one, mean that the
row has the role `end_user`. `UsesBounded` is counted like `RepeatsBounded`.

**Only model-checked:** the liveness properties `RevocationsAreForgotten`,
`RefusalEnds`, `RegistrationSucceeds` and `OneGetsThrough`. The prover does
neither liveness under fairness nor `ENABLED`. The three violated properties are
shown by counterexamples. What the safety properties say where the
hypotheses of a theorem do not hold is in section 3: `sessions_two_logins` for
two logins at a time, and under *Reached by the models* for concurrent wrong
attempts and codes that are written back.

## 5. What is not modelled

* **Products.** The handlers that create, update, delete or block a product
  read the local `user_id`; `JWTProtected` sets `userID` (`middleware/jwt.go:73`),
  so the type assertion panics before the first statement. What can be reached
  is a list, a lookup and one `UPDATE` (unblock).
* **Profile and edits of users**: one statement each, and nobody depends on
  their order. `UpdateUserHandler` writes the name before it finds that the
  e-mail address is taken; changing an address would make `Accounts` one of two
  addresses, which it is not.
* **Queue and worker**: nothing enqueues a task, and the handlers keep no state.
* Roles given and taken by hand are in `Rbac`; `Accounts` knows the roles its own
  handlers give. Bans are in `Sessions`: no handler of `Accounts` reads
  `is_banned`.
* The chains of middleware in front of groups that do not write roles; they ask
  the same questions.
* Mail and HTTP formats, lists, tracing. Passwords and tokens are taken to be
  unguessable.
* `ResetRateLimit`, `RateLimitByUser`, `RevokeAllUserTokens` are called by nobody.
* With a Redis client that could not be made (`REDIS_URL` does not parse) the
  rate limited endpoints panic, so the setting without Redis is one of
  administrators, whose login has no limiter.
* Requests of `Sessions` that outlive the token they carry ("slow") are part of
  the module and of its proofs, and of no run.

**Reached by `Accounts` and promised by nobody:** a login that had compared the
old password opens its session after a reset has cleared the others; an
administrator whose role could not be inserted has an address that is taken and
no way in; an invitation whose token or mail was lost cannot be repeated, but
the address can be registered on as an end user; deactivating somebody who was
invited and has not accepted yet leaves the invitation usable; a change of
password under way writes over a reset that was answered in between.

## 6. What is left

In this order: a module of routes with the role each one needs, over the checks of `Rbac`; two e-mail
addresses in `Accounts`, for changes of address and for one-time codes that are
looked up by an address that has changed; `Products` once its handlers reach
their statements.
